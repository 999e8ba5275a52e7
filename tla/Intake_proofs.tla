--------------------------- MODULE Intake_proofs ----------------------------
(***************************************************************************)
(* Proofs about how work comes in and how its result goes out, for any     *)
(* number of clients, deliveries, requests and contents: the intake of     *)
(* Works, and the promotion of sources. The two share no variable; each    *)
(* has its own inductive invariant.                                        *)
(***************************************************************************)
EXTENDS WorkIntake, SourcePromotion, TLAPS

-----------------------------------------------------------------------------
(* Facts about sequences. *)

\* Sequences are functions on an interval.
LEMMA SeqDef ==
    ASSUME NEW S
    PROVE  Seq(S) = UNION {[1..n -> S] : n \in Nat}
  OBVIOUS

\* A sequence is a function on 1 to its length.
LEMMA LenProperties ==
    ASSUME NEW S, NEW seq \in Seq(S)
    PROVE  Len(seq) \in Nat /\ seq \in [1..Len(seq) -> S] /\ DOMAIN seq = 1..Len(seq)
  OBVIOUS

\* The empty sequence is the one of length 0.
LEMMA EmptySeq ==
    ASSUME NEW S
    PROVE  /\ << >> \in Seq(S) /\ Len(<< >>) = 0
           /\ \A seq \in Seq(S) : seq # << >> => Len(seq) \in Nat \ {0}
  OBVIOUS

\* What Append makes of a sequence.
LEMMA AppendProperties ==
    ASSUME NEW S, NEW seq \in Seq(S), NEW elt \in S
    PROVE  /\ Append(seq, elt) \in Seq(S) /\ Append(seq, elt) # << >>
           /\ Len(Append(seq, elt)) = Len(seq) + 1
           /\ \A i \in 1..Len(seq) : Append(seq, elt)[i] = seq[i]
           /\ Append(seq, elt)[Len(seq) + 1] = elt
  OBVIOUS

-----------------------------------------------------------------------------
(* The intake of Works. *)

\* The request of client c is the one that row w was accepted for, under the defaults
\* of that moment.
SameIntent(c, w) ==
    /\ rows[w].queue = client[c].queue
    /\ rows[w].hash = Canonical(client[c].timeout, rows[w].defaults)

\* A row with creation metadata has a key, and is the submission of the client that
\* made it.
RowsAreSubmissions ==
    \A w \in Rows : rows[w].meta =>
        /\ rows[w].key # NoKey /\ rows[w].origin \in Client
        /\ client[rows[w].origin].pc # "new"
        /\ SameIntent(rows[w].origin, w)

\* Where a creation request stands.  Between its lookup and its answer the deployment
\* does not change, so a row under its key that it did not find at first was accepted
\* under the policy in force.
RequestAgrees(c) ==
    LET r == client[c]
    IN  /\ r.pc # "new" => r.id \in WorkId
        /\ r.pc = "new" => ~r.retry
        /\ r.pc \in {"lookup", "reread", "canonical", "repair", "replayed"} => r.key # NoKey
        /\ r.pc = "queue" => r.key = NoKey
        /\ r.pc \in {"queue", "repair", "created", "replayed"} => r.work \in Rows
        /\ r.pc \in {"create", "reread", "canonical"} /\ r.key # NoKey =>
               \A w \in ByKey(r.key) : rows[w].meta /\ rows[w].defaults = policy
        /\ r.pc \in {"repair", "created", "replayed"} /\ r.key # NoKey =>
               rows[r.work].key = r.key /\ (rows[r.work].meta => SameIntent(c, r.work))
        /\ r.pc = "repair" /\ r.seen # "CREATED" => rows[r.work].state # "CREATED"
        /\ r.pc = "created" /\ r.key # NoKey => ~r.queue
        /\ r.pc = "replayed" /\ r.queue /\ rows[r.work].meta => rows[r.work].state # "CREATED"
        /\ r.retry => /\ r.key # NoKey
                      /\ r.pc \in {"lookup", "repair", "replayed", "failed", "gone"}
                      /\ \E w \in ByKey(r.key) : rows[w].meta /\ SameIntent(c, w)

\* A Work that a webhook request has made, or that is recorded for a delivery, is a row
\* made for that delivery.
DeliveriesAgree ==
    /\ \A h \in Receiver : receiver[h].pc = "record" =>
           receiver[h].work \in Rows /\ rows[receiver[h].work].origin = receiver[h].delivery
    /\ \A d \in Delivery : webhooks[d] # NoWork =>
           webhooks[d] \in Rows /\ rows[webhooks[d]].origin = d

IntakeInv ==
    /\ IntakeTypeOK
    /\ OneWorkPerKey
    /\ RowsAreSubmissions
    /\ \A c \in Client : RequestAgrees(c)
    /\ DeliveriesAgree

-----------------------------------------------------------------------------
\* What every step does to the rows: none is lost or bound anew, none returns to
\* CREATED, and a new row with a key has the metadata of the policy in force.
RowsAreKept ==
    /\ \A w \in Rows :
         /\ w \in Rows'
         /\ rows'[w].key = rows[w].key /\ rows'[w].meta = rows[w].meta
         /\ rows'[w].queue = rows[w].queue /\ rows'[w].hash = rows[w].hash
         /\ rows'[w].defaults = rows[w].defaults /\ rows'[w].origin = rows[w].origin
         /\ rows[w].state # "CREATED" => rows'[w].state # "CREATED"
    /\ \A w \in Rows' \ Rows :
         rows'[w].key # NoKey => rows'[w].meta /\ rows'[w].defaults = policy

\* What is filled in and what is compared are timeouts.
LEMMA Timeouts ==
    ASSUME NEW t \in Timeout, NEW d \in Deployment
    PROVE /\ Enrich(t, d) \in Timeout \ {0}
          /\ Canonical(t, d) \in Timeout
BY Z3T(60), IntakeAssumption DEF Enrich, Canonical, Timeout

\* A request that takes no step stands as well as before.
LEMMA Bystander ==
    ASSUME IntakeInv, RowsAreKept, policy' = policy, NEW c \in Client, client'[c] = client[c]
    PROVE RequestAgrees(c)'
<1> USE DEF IntakeInv, RowsAreKept
<1>1. \A w \in ByKey(client[c].key) : w \in ByKey(client[c].key)'
  BY Zenon DEF ByKey, Rows
<1>2. \A w \in ByKey(client[c].key)' : w \in ByKey(client[c].key) \/ w \in Rows' \ Rows
  BY Zenon DEF ByKey, Rows
<1>3. RequestAgrees(c)
  BY Zenon
<1> QED
  BY <1>1, <1>2, <1>3 DEF RequestAgrees, SameIntent, ByKey, Rows

\* A step of one creation request keeps the invariant if it keeps its own part of it.
LEMMA ClientMoves ==
    ASSUME IntakeInv, IntakeTypeOK', RowsAreKept, OneWorkPerKey', policy' = policy,
           UNCHANGED <<webhooks, receiver>>,
           NEW c \in Client, RequestAgrees(c)',
           \A b \in Client \ {c} : client'[b] = client[b],
           client[c].pc # "new" => /\ client'[c].pc # "new"
                                   /\ client'[c].timeout = client[c].timeout
                                   /\ client'[c].queue = client[c].queue,
           \A w \in Rows' \ Rows : rows'[w].meta =>
               /\ rows'[w].key # NoKey /\ rows'[w].origin = c
               /\ client'[c].pc # "new" /\ SameIntent(c, w)'
    PROVE IntakeInv'
<1>1. \A b \in Client : RequestAgrees(b)'
  <2> SUFFICES ASSUME NEW b \in Client PROVE RequestAgrees(b)'
    BY Zenon
  <2>1. CASE b = c
    BY Zenon, <2>1
  <2>2. CASE b # c
    BY Zenon, <2>2, Bystander
  <2> QED
    BY Zenon, <2>1, <2>2
<1>2. RowsAreSubmissions'
  <2> SUFFICES ASSUME NEW w \in Rows', rows'[w].meta
               PROVE /\ rows'[w].key # NoKey /\ rows'[w].origin \in Client
                     /\ client'[rows'[w].origin].pc # "new"
                     /\ rows'[w].queue = client'[rows'[w].origin].queue
                     /\ rows'[w].hash = Canonical(client'[rows'[w].origin].timeout, rows'[w].defaults)
    BY Zenon DEF RowsAreSubmissions, SameIntent
  <2>1. CASE w \in Rows
    <3>1. /\ rows[w].key # NoKey /\ rows[w].origin \in Client
          /\ client[rows[w].origin].pc # "new" /\ SameIntent(rows[w].origin, w)
          /\ rows'[w].origin = rows[w].origin
      BY Zenon, <2>1 DEF IntakeInv, RowsAreSubmissions, RowsAreKept
    <3>2. /\ client'[rows[w].origin].pc # "new"
          /\ client'[rows[w].origin].timeout = client[rows[w].origin].timeout
          /\ client'[rows[w].origin].queue = client[rows[w].origin].queue
      BY Zenon, <3>1
    <3> QED
      BY <2>1, <3>1, <3>2 DEF SameIntent, RowsAreKept
  <2>2. CASE w \notin Rows
    BY Zenon, <2>2 DEF SameIntent
  <2> QED
    BY Zenon, <2>1, <2>2
<1>3. DeliveriesAgree'
  BY DEF IntakeInv, DeliveriesAgree, RowsAreKept
<1> QED
  BY Zenon, <1>1, <1>2, <1>3 DEF IntakeInv

\* The same for a step that leaves the rows alone.
LEMMA ClientReads ==
    ASSUME IntakeInv, UNCHANGED <<rows, policy, webhooks, receiver>>,
           NEW c \in Client, client' \in [Client -> CreateRequest],
           RequestAgrees(c)',
           \A b \in Client \ {c} : client'[b] = client[b],
           client[c].pc # "new" => /\ client'[c].pc # "new"
                                   /\ client'[c].timeout = client[c].timeout
                                   /\ client'[c].queue = client[c].queue
    PROVE IntakeInv'
<1>1. Rows' = Rows
  BY Zenon DEF Rows
<1>2. IntakeTypeOK' /\ OneWorkPerKey' /\ RowsAreKept
  BY Zenon, <1>1 DEF IntakeInv, IntakeTypeOK, OneWorkPerKey, RowsAreKept
<1> QED
  BY Zenon, <1>1, <1>2, ClientMoves

\* A request that ends without a Work.
LEMMA ClientGivesUp ==
    ASSUME IntakeInv, UNCHANGED <<rows, policy, webhooks, receiver>>,
           NEW c \in Client, client[c].pc # "new",
           NEW pc \in {"conflict", "refused", "failed", "gone"}, ClientGoto(c, pc),
           client[c].retry => pc \in {"failed", "gone"}
    PROVE IntakeInv'
<1>1. RequestAgrees(c)'
  <2>1. RequestAgrees(c)
    BY Zenon DEF IntakeInv
  <2>2. client'[c] = [client[c] EXCEPT !.pc = pc]
    BY Zenon DEF ClientGoto, IntakeInv, IntakeTypeOK
  <2> QED
    BY <2>1, <2>2 DEF RequestAgrees, SameIntent, ByKey, Rows, IntakeInv, IntakeTypeOK
<1>2. client' \in [Client -> CreateRequest]
  <2>1. client \in [Client -> CreateRequest]
    BY Zenon DEF IntakeInv, IntakeTypeOK
  <2>2. pc \in ClientPC
    BY Zenon DEF ClientPC
  <2> QED
    BY <2>1, <2>2 DEF ClientGoto, CreateRequest
<1>3. /\ \A b \in Client \ {c} : client'[b] = client[b]
      /\ client'[c].pc # "new" /\ client'[c].timeout = client[c].timeout
      /\ client'[c].queue = client[c].queue
  BY DEF ClientGoto, IntakeInv, IntakeTypeOK
<1> QED
  BY Z3T(60), <1>1, <1>2, <1>3, ClientReads

\* A request that has found a row of its key that is its own submission.
LEMMA ClientFinds ==
    ASSUME IntakeInv, UNCHANGED <<rows, policy, webhooks, receiver>>,
           NEW c \in Client, client[c].pc \in {"lookup", "reread", "canonical"},
           NEW w \in ByKey(client[c].key), NEW pc \in {"repair", "created"}, ClientSees(c, pc, w),
           rows[w].meta => SameIntent(c, w),
           pc = "created" => ~client[c].queue /\ ~client[c].retry
    PROVE IntakeInv'
<1>0. w \in WorkId /\ w \in Rows /\ rows[w].state \in State /\ rows[w].key = client[c].key
  BY Zenon DEF ByKey, Rows, IntakeInv, IntakeTypeOK, WorkRow
<1>1. client' \in [Client -> CreateRequest]
  <2>1. client \in [Client -> CreateRequest]
    BY Zenon DEF IntakeInv, IntakeTypeOK
  <2>2. pc \in ClientPC
    BY Zenon DEF ClientPC
  <2> QED
    <3>1. PICK s \in State : s = rows[w].state
      BY Zenon, <1>0
    <3>2. client' = [client EXCEPT ![c].pc = pc, ![c].work = w, ![c].seen = s]
      BY Zenon, <3>1 DEF ClientSees
    <3>3. client[c] \in CreateRequest
      BY Zenon, <2>1
    <3> HIDE DEF IntakeInv
    <3> QED
      BY ZenonT(60), <1>0, <2>1, <2>2, <3>2, <3>3 DEF CreateRequest
<1>2. client'[c] = [client[c] EXCEPT !.pc = pc, !.work = w, !.seen = rows[w].state]
  BY ZenonT(60) DEF ClientSees, IntakeInv, IntakeTypeOK
<1>3. RequestAgrees(c)'
  <2>1. RequestAgrees(c)
    BY Zenon DEF IntakeInv
  <2> QED
    BY <1>0, <1>2, <2>1 DEF RequestAgrees, SameIntent, ByKey, Rows, IntakeInv, IntakeTypeOK
<1>4. /\ \A b \in Client \ {c} : client'[b] = client[b]
      /\ client'[c].pc # "new" /\ client'[c].timeout = client[c].timeout
      /\ client'[c].queue = client[c].queue
  BY <1>2 DEF ClientSees, IntakeInv, IntakeTypeOK
<1> QED
  BY Zenon, <1>1, <1>3, <1>4, ClientReads

\* POST /v1/works begins.
LEMMA BeginCreateKeeps ==
    ASSUME IntakeInv, NEW c \in Client, NEW id \in WorkId, NEW key \in Key \cup {NoKey},
           NEW t \in Timeout, NEW queue \in BOOLEAN, BeginCreate(c, id, key, t, queue)
    PROVE IntakeInv'
<1> DEFINE again == key # NoKey /\ Repeats(key, t, queue)
           pc == IF key = NoKey THEN "create" ELSE "lookup"
<1>0. again \in BOOLEAN /\ pc \in ClientPC
  BY Zenon DEF ClientPC
<1>1. client' \in [Client -> CreateRequest]
  <2>1. client \in [Client -> CreateRequest]
    BY Zenon DEF IntakeInv, IntakeTypeOK
  <2> QED
    <3>1. PICK b \in BOOLEAN, p \in ClientPC : b = again /\ p = pc
      BY Zenon, <1>0
    <3>2. client' = [client EXCEPT ![c].pc = p, ![c].id = id, ![c].key = key, ![c].timeout = t,
                                   ![c].queue = queue, ![c].retry = b]
      BY Zenon, <3>1 DEF BeginCreate
    <3>3. client[c] \in CreateRequest
      BY Zenon, <2>1
    <3> QED
      BY ZenonT(200), <2>1, <3>1, <3>2, <3>3 DEF CreateRequest
<1>2. client'[c] = [client[c] EXCEPT !.pc = pc, !.id = id, !.key = key, !.timeout = t, !.queue = queue,
                                     !.retry = again]
  BY DEF BeginCreate, IntakeInv, IntakeTypeOK
<1>3. ASSUME again PROVE \E w \in ByKey(key) : rows[w].meta /\ rows[w].queue = queue
                                              /\ rows[w].hash = Canonical(t, rows[w].defaults)
  <2>1. PICK w \in ByKey(key) : rows[w].meta /\ client[rows[w].origin].timeout = t /\ rows[w].queue = queue
    BY Zenon, <1>3 DEF Repeats
  <2>2. SameIntent(rows[w].origin, w)
    BY Zenon, <2>1 DEF ByKey, IntakeInv, RowsAreSubmissions
  <2> QED
    BY Zenon, <2>1, <2>2 DEF SameIntent
<1>4. RequestAgrees(c)'
  <2>1. /\ client'[c].pc = pc /\ client'[c].id = id /\ client'[c].key = key /\ client'[c].timeout = t
        /\ client'[c].queue = queue /\ client'[c].retry = again
    BY <1>2 DEF IntakeInv, IntakeTypeOK, CreateRequest
  <2>2. rows' = rows /\ pc \in {"create", "lookup"} /\ (pc = "create" <=> key = NoKey) /\ (again => pc = "lookup")
    BY Zenon DEF BeginCreate
  <2> HIDE DEF again, pc
  <2> QED
    BY Zenon, <1>3, <2>1, <2>2 DEF RequestAgrees, SameIntent, ByKey, Rows
<1>5. \A b \in Client \ {c} : client'[b] = client[b]
  BY Zenon DEF BeginCreate, IntakeInv, IntakeTypeOK
<1> QED
  BY Zenon, <1>1, <1>4, <1>5, ClientReads DEF BeginCreate

\* The key is looked up before anything is validated.
LEMMA LookupKeyKeeps ==
    ASSUME IntakeInv, NEW c \in Client, LookupKey(c)
    PROVE IntakeInv'
<1>0. /\ client[c].pc = "lookup" /\ client[c].key # NoKey /\ RequestAgrees(c)
      /\ UNCHANGED <<rows, policy, webhooks, receiver>>
  BY Zenon DEF LookupKey, IntakeInv, RequestAgrees
<1>1. CASE ByKey(client[c].key) = {} /\ ClientGoto(c, "create")
  <2>1. client \in [Client -> CreateRequest] /\ client[c] \in CreateRequest
    BY Zenon DEF IntakeInv, IntakeTypeOK
  <2>2. client' \in [Client -> CreateRequest]
    BY Zenon, <1>1, <2>1 DEF ClientGoto, CreateRequest, ClientPC
  <2>3. /\ client'[c] = [client[c] EXCEPT !.pc = "create"]
        /\ \A b \in Client \ {c} : client'[b] = client[b]
    BY Zenon, <1>1, <2>1 DEF ClientGoto
  <2>4. /\ client'[c].pc = "create" /\ client'[c].id = client[c].id /\ client'[c].key = client[c].key
        /\ client'[c].timeout = client[c].timeout /\ client'[c].queue = client[c].queue
        /\ client'[c].retry = client[c].retry
    BY Zenon, <2>1, <2>3 DEF CreateRequest
  <2>5. ~client[c].retry
    BY Zenon, <1>0, <1>1 DEF RequestAgrees
  <2>6. RequestAgrees(c)'
    BY Zenon, <1>0, <1>1, <2>4, <2>5 DEF RequestAgrees, ByKey, Rows
  <2> QED
    BY Zenon, <1>0, <2>2, <2>3, <2>4, <2>6, ClientReads
<1>2. ASSUME NEW w \in ByKey(client[c].key), ReplayMatches(c, w), ClientSees(c, "repair", w)
      PROVE IntakeInv'
  <2>1. rows[w].meta => SameIntent(c, w)
    BY Zenon, <1>2 DEF ReplayMatches, SameIntent
  <2> QED
    BY Zenon, <1>0, <1>2, <2>1, ClientFinds
<1>3. ASSUME NEW w \in ByKey(client[c].key), ~ReplayMatches(c, w), ClientGoto(c, "conflict")
      PROVE IntakeInv'
  <2>1. ASSUME client[c].retry PROVE FALSE
    <3>1. PICK v \in ByKey(client[c].key) : rows[v].meta /\ SameIntent(c, v)
      BY Zenon, <1>0, <2>1 DEF RequestAgrees
    <3>2. v = w
      BY Z3T(60), <1>0, <3>1 DEF ByKey, IntakeInv, OneWorkPerKey
    <3> QED
      BY Zenon, <1>3, <3>1, <3>2 DEF ReplayMatches, SameIntent
  <2> QED
    BY Zenon, <1>0, <1>3, <2>1, ClientGivesUp
<1> QED
  BY Zenon, <1>1, <1>2, <1>3 DEF LookupKey

\* Under the policy in force, the accepted hash is that of the request's intent.
LEMMA AcceptedIsSame ==
    ASSUME IntakeInv, NEW c \in Client, client[c].pc \in {"create", "reread", "canonical"},
           client[c].key # NoKey, NEW w \in ByKey(client[c].key), AcceptedMatches(c, w)
    PROVE SameIntent(c, w)
BY Zenon DEF IntakeInv, RequestAgrees, AcceptedMatches, SameIntent

\* The row that won the race is read again.
LEMMA RereadKeyKeeps ==
    ASSUME IntakeInv, NEW c \in Client, RereadKey(c)
    PROVE IntakeInv'
<1>0. /\ client[c].pc = "reread" /\ client[c].key # NoKey /\ ~client[c].retry
      /\ UNCHANGED <<rows, policy, webhooks, receiver>>
  BY Zenon DEF RereadKey, IntakeInv, RequestAgrees
<1>1. ASSUME NEW w \in ByKey(client[c].key), AcceptedMatches(c, w), ClientSees(c, "repair", w)
      PROVE IntakeInv'
  BY Zenon, <1>0, <1>1, AcceptedIsSame, ClientFinds
<1>2. ASSUME NEW w \in ByKey(client[c].key), ClientGoto(c, "conflict")
      PROVE IntakeInv'
  BY Zenon, <1>0, <1>2, ClientGivesUp
<1> QED
  BY Z3T(60), <1>1, <1>2 DEF RereadKey

\* The stored row is read after the insert.
LEMMA ReadCanonicalKeeps ==
    ASSUME IntakeInv, NEW c \in Client, ReadCanonical(c)
    PROVE IntakeInv'
<1>0. /\ client[c].pc = "canonical" /\ client[c].key # NoKey /\ ~client[c].retry
      /\ UNCHANGED <<rows, policy, webhooks, receiver>>
  BY Zenon DEF ReadCanonical, IntakeInv, RequestAgrees
<1>1. ASSUME NEW w \in ByKey(client[c].key), AcceptedMatches(c, w),
             ClientSees(c, IF client[c].queue THEN "repair" ELSE "created", w)
      PROVE IntakeInv'
  <2>1. CASE client[c].queue
    BY Zenon, <1>0, <1>1, <2>1, AcceptedIsSame, ClientFinds
  <2>2. CASE ~client[c].queue
    BY Zenon, <1>0, <1>1, <2>2, AcceptedIsSame, ClientFinds
  <2> QED
    BY Z3T(60), <2>1, <2>2
<1>2. CASE ClientGoto(c, "conflict") \/ ClientGoto(c, "failed")
  BY Zenon, <1>0, <1>2, ClientGivesUp
<1> QED
  BY Z3T(60), <1>1, <1>2 DEF ReadCanonical

\* The client hangs up.
LEMMA AbandonCreateKeeps ==
    ASSUME IntakeInv, NEW c \in Client, AbandonCreate(c)
    PROVE IntakeInv'
BY Zenon, ClientGivesUp DEF AbandonCreate

\* A row whose state advances is otherwise the row it was.
LEMMA RowAdvances ==
    ASSUME IntakeInv, NEW w \in Rows, NEW s \in State, s # "CREATED", rows' = [rows EXCEPT ![w].state = s]
    PROVE /\ rows' \in [WorkId -> WorkRow \cup {NoWork}] /\ \A v \in Rows' : rows'[v].timeout # 0
          /\ Rows' = Rows /\ RowsAreKept /\ OneWorkPerKey' /\ rows'[w].state = s
<1>0. rows \in [WorkId -> WorkRow \cup {NoWork}] /\ w \in WorkId /\ rows[w] \in WorkRow
  BY Zenon DEF IntakeInv, IntakeTypeOK, Rows
<1>1. rows'[w] \in WorkRow /\ rows'[w] = [rows[w] EXCEPT !.state = s]
  BY Zenon, <1>0 DEF WorkRow
<1>2. /\ rows'[w].key = rows[w].key /\ rows'[w].meta = rows[w].meta /\ rows'[w].queue = rows[w].queue
      /\ rows'[w].hash = rows[w].hash /\ rows'[w].defaults = rows[w].defaults
      /\ rows'[w].origin = rows[w].origin /\ rows'[w].timeout = rows[w].timeout /\ rows'[w].state = s
  BY Zenon, <1>0, <1>1 DEF WorkRow
<1>3. /\ rows' \in [WorkId -> WorkRow \cup {NoWork}]
      /\ \A v \in WorkId \ {w} : rows'[v] = rows[v]
  BY Zenon, <1>0, <1>1
<1>4. Rows' = Rows
  BY ZenonT(60), <1>0, <1>1, <1>3, IntakeAssumption DEF Rows
<1>5. \A v \in Rows' : rows'[v].timeout # 0
  BY <1>2, <1>3, <1>4 DEF IntakeInv, IntakeTypeOK, Rows
<1>6. RowsAreKept
  BY Zenon, <1>2, <1>3, <1>4 DEF RowsAreKept, Rows
<1>7. OneWorkPerKey'
  BY <1>2, <1>3, <1>4 DEF IntakeInv, OneWorkPerKey, Rows
<1> QED
  BY Zenon, <1>2, <1>3, <1>4, <1>5, <1>6, <1>7

\* An insert under a key nobody has, or under none.
LEMMA RowInserted ==
    ASSUME IntakeInv, NEW w \in WorkId, rows[w] = NoWork, NEW r \in WorkRow, r.timeout # 0,
           r.key # NoKey => ByKey(r.key) = {} /\ r.meta /\ r.defaults = policy,
           rows' = [rows EXCEPT ![w] = r]
    PROVE /\ rows' \in [WorkId -> WorkRow \cup {NoWork}] /\ \A v \in Rows' : rows'[v].timeout # 0
          /\ Rows' = Rows \cup {w} /\ rows'[w] = r /\ RowsAreKept /\ OneWorkPerKey'
<1>0. rows \in [WorkId -> WorkRow \cup {NoWork}] /\ r # NoWork /\ w \notin Rows
  BY Zenon, IntakeAssumption DEF IntakeInv, IntakeTypeOK, Rows
<1>1. /\ rows' \in [WorkId -> WorkRow \cup {NoWork}] /\ rows'[w] = r
      /\ \A v \in WorkId \ {w} : rows'[v] = rows[v]
  BY Zenon, <1>0
<1>2. Rows' = Rows \cup {w}
  BY Zenon, <1>0, <1>1 DEF Rows
<1>3. \A v \in Rows' : rows'[v].timeout # 0
  BY Zenon, <1>1, <1>2 DEF IntakeInv, IntakeTypeOK, Rows
<1>4. RowsAreKept
  BY Zenon, <1>0, <1>1, <1>2 DEF RowsAreKept, Rows
<1>5. OneWorkPerKey'
  <2>1. \A v \in Rows : rows[v].key = r.key => r.key = NoKey
    BY Zenon DEF ByKey
  <2> QED
    BY ZenonT(60), <1>0, <1>1, <1>2, <2>1 DEF IntakeInv, OneWorkPerKey, Rows
<1> QED
  BY Zenon, <1>1, <1>2, <1>3, <1>4, <1>5

\* Admission and the transaction of CreateWork.
LEMMA CreateWorkKeeps ==
    ASSUME IntakeInv, NEW c \in Client, CreateWork(c)
    PROVE IntakeInv'
<1> DEFINE bound == IF client[c].key = NoKey THEN {} ELSE ByKey(client[c].key)
<1>0. /\ client[c].pc = "create" /\ ~client[c].retry /\ client[c].id \in WorkId /\ RequestAgrees(c)
      /\ UNCHANGED <<policy, webhooks, receiver>>
  BY Zenon DEF CreateWork, IntakeInv, RequestAgrees
<1>1. client \in [Client -> CreateRequest] /\ client[c] \in CreateRequest
  BY Zenon DEF IntakeInv, IntakeTypeOK
<1>2. CASE UNCHANGED rows /\ (ClientGoto(c, "refused") \/ ClientGoto(c, "failed"))
  BY Zenon, <1>0, <1>2, ClientGivesUp
<1>3. ASSUME bound # {}, UNCHANGED rows, NEW pc \in {"canonical", "reread"}, ClientGoto(c, pc)
      PROVE IntakeInv'
  <2>1. client' \in [Client -> CreateRequest]
    <3>1. pc \in ClientPC
      BY Zenon DEF ClientPC
    <3> QED
      BY Zenon, <1>1, <1>3, <3>1 DEF ClientGoto, CreateRequest
  <2>2. /\ client'[c] = [client[c] EXCEPT !.pc = pc]
        /\ \A b \in Client \ {c} : client'[b] = client[b]
    BY Zenon, <1>1, <1>3 DEF ClientGoto
  <2>3. /\ client'[c].pc = pc /\ client'[c].id = client[c].id /\ client'[c].key = client[c].key
        /\ client'[c].timeout = client[c].timeout /\ client'[c].queue = client[c].queue
        /\ client'[c].retry = client[c].retry
    BY Zenon, <1>1, <2>2 DEF CreateRequest
  <2>4. RequestAgrees(c)'
    BY ZenonT(60), <1>0, <1>3, <2>3 DEF RequestAgrees, ByKey, Rows
  <2> QED
    BY Zenon, <1>0, <1>3, <2>1, <2>2, <2>3, <2>4, ClientReads
<1>4. ASSUME bound = {}, rows[client[c].id] = NoWork,
             rows' = [rows EXCEPT ![client[c].id] = Row(client[c].key, client[c].timeout, policy,
                                                        client[c].key # NoKey, client[c].queue, "CREATED", c)],
             client' = [client EXCEPT ![c].pc = IF client[c].key # NoKey THEN "canonical"
                                                ELSE IF client[c].queue THEN "queue" ELSE "created",
                                      ![c].work = client[c].id]
      PROVE IntakeInv'
  <2> DEFINE r == Row(client[c].key, client[c].timeout, policy, client[c].key # NoKey, client[c].queue, "CREATED", c)
             pc == IF client[c].key # NoKey THEN "canonical" ELSE IF client[c].queue THEN "queue" ELSE "created"
             id == client[c].id
  <2>1. r \in WorkRow /\ r.timeout # 0
    <3>1. /\ client[c].key \in Key \cup {NoKey} /\ client[c].timeout \in Timeout /\ policy \in Deployment
          /\ (client[c].key # NoKey) \in BOOLEAN /\ client[c].queue \in BOOLEAN /\ "CREATED" \in State
          /\ c \in Client \cup Delivery \cup {NoWork}
      BY Z3T(60), <1>1 DEF CreateRequest, IntakeInv, IntakeTypeOK, State
    <3>2. /\ Enrich(client[c].timeout, policy) \in Timeout \ {0}
          /\ Canonical(client[c].timeout, policy) \in Timeout
      BY Zenon, <3>1, Timeouts
    <3> QED
      BY Zenon, <3>1, <3>2 DEF Row, WorkRow
  <2>2. /\ r.key = client[c].key /\ r.meta = (client[c].key # NoKey) /\ r.defaults = policy
        /\ r.queue = client[c].queue /\ r.origin = c /\ r.hash = Canonical(client[c].timeout, policy)
    BY Zenon DEF Row
  <2>3. rows' = [rows EXCEPT ![id] = r]
    BY Zenon, <1>4
  <2>4. id \in WorkId /\ rows[id] = NoWork
    BY Z3T(60), <1>0, <1>4
  <2>5. r.key # NoKey => ByKey(r.key) = {} /\ r.meta /\ r.defaults = policy
    BY Zenon, <1>4, <2>2
  <2>6. pc \in ClientPC
    BY Zenon DEF ClientPC
  <2>7. client' = [client EXCEPT ![c].pc = pc, ![c].work = id]
    BY Zenon, <1>4
  <2>8. /\ client[c].key # NoKey => pc = "canonical"
        /\ client[c].key = NoKey => pc \in {"queue", "created"}
    BY Zenon
  <2> HIDE DEF r, pc, id
  <2>9. /\ rows' \in [WorkId -> WorkRow \cup {NoWork}] /\ \A v \in Rows' : rows'[v].timeout # 0
        /\ Rows' = Rows \cup {id} /\ rows'[id] = r /\ RowsAreKept /\ OneWorkPerKey'
    BY Zenon, <2>1, <2>3, <2>4, <2>5, RowInserted
  <2>10. client' \in [Client -> CreateRequest]
    BY ZenonT(60), <1>1, <2>4, <2>6, <2>7 DEF CreateRequest
  <2>11. /\ client'[c] = [client[c] EXCEPT !.pc = pc, !.work = id]
         /\ \A b \in Client \ {c} : client'[b] = client[b]
    BY Zenon, <1>1, <2>7
  <2>12. /\ client'[c].pc = pc /\ client'[c].id = client[c].id /\ client'[c].key = client[c].key
         /\ client'[c].timeout = client[c].timeout /\ client'[c].queue = client[c].queue
         /\ client'[c].retry = client[c].retry /\ client'[c].work = id
    BY Zenon, <1>1, <2>11 DEF CreateRequest
  <2>13. IntakeTypeOK'
    BY Zenon, <1>0, <2>9, <2>10 DEF IntakeInv, IntakeTypeOK
  <2>14. RequestAgrees(c)'
    <3>1. CASE client[c].key = NoKey
      BY Zenon, <1>0, <2>4, <2>8, <2>9, <2>12, <3>1 DEF RequestAgrees
    <3>2. CASE client[c].key # NoKey
      <4>1. \A v \in Rows' : rows'[v].key = client[c].key => v = id
        BY <2>5, <2>2, <2>9, <3>2 DEF ByKey, RowsAreKept
      <4> QED
        BY ZenonT(200), <1>0, <2>2, <2>8, <2>9, <2>12, <3>2, <4>1 DEF RequestAgrees, ByKey
    <3> QED
      BY <3>1, <3>2
  <2>15. client'[c].pc # "new"
    BY Zenon, <2>8, <2>12
  <2>16. ASSUME NEW w \in Rows' \ Rows, rows'[w].meta
         PROVE rows'[w].key # NoKey /\ rows'[w].origin = c /\ SameIntent(c, w)'
    BY ZenonT(60), <2>2, <2>9, <2>12, <2>16 DEF SameIntent
  <2> QED
    BY Zenon, <1>0, <2>9, <2>11, <2>12, <2>13, <2>14, <2>15, <2>16, ClientMoves
<1> QED
  BY Z3T(60), <1>2, <1>3, <1>4 DEF CreateWork

\* The queue repair of a replay.
LEMMA ReconcileReplayQueueKeeps ==
    ASSUME IntakeInv, NEW c \in Client, ReconcileReplayQueue(c)
    PROVE IntakeInv'
<1> DEFINE w == client[c].work
           repair == rows[w].meta /\ rows[w].queue /\ client[c].seen = "CREATED"
<1>0. /\ client[c].pc = "repair" /\ RequestAgrees(c) /\ client[c].key # NoKey /\ w \in Rows
      /\ UNCHANGED <<policy, webhooks, receiver>>
  BY Zenon DEF ReconcileReplayQueue, IntakeInv, RequestAgrees
<1>1. client \in [Client -> CreateRequest] /\ client[c] \in CreateRequest
  BY Zenon DEF IntakeInv, IntakeTypeOK
<1>2. ASSUME ClientGoto(c, "replayed")
      PROVE /\ client' \in [Client -> CreateRequest]
            /\ \A b \in Client \ {c} : client'[b] = client[b]
            /\ client'[c].pc = "replayed" /\ client'[c].id = client[c].id /\ client'[c].key = client[c].key
            /\ client'[c].timeout = client[c].timeout /\ client'[c].queue = client[c].queue
            /\ client'[c].retry = client[c].retry /\ client'[c].work = w
  <2>1. client' \in [Client -> CreateRequest]
    BY ZenonT(60), <1>1, <1>2 DEF ClientGoto, CreateRequest, ClientPC
  <2>2. client'[c] = [client[c] EXCEPT !.pc = "replayed"] /\ \A b \in Client \ {c} : client'[b] = client[b]
    BY ZenonT(60), <1>1, <1>2 DEF ClientGoto
  <2> QED
    BY Zenon, <1>1, <2>1, <2>2 DEF CreateRequest
<1>3. CASE repair /\ CanTransition(rows[w].state, "QUEUED") /\ rows' = [rows EXCEPT ![w].state = "QUEUED"]
           /\ ClientGoto(c, "replayed")
  <2>0. /\ client'[c].pc = "replayed" /\ client'[c].id = client[c].id /\ client'[c].key = client[c].key
        /\ client'[c].timeout = client[c].timeout /\ client'[c].queue = client[c].queue
        /\ client'[c].retry = client[c].retry /\ client'[c].work = client[c].work
    BY Zenon, <1>2, <1>3
  <2>1. /\ rows' \in [WorkId -> WorkRow \cup {NoWork}] /\ \A v \in Rows' : rows'[v].timeout # 0
        /\ Rows' = Rows /\ RowsAreKept /\ OneWorkPerKey' /\ rows'[w].state = "QUEUED"
    BY ZenonT(60), <1>0, <1>3, RowAdvances DEF State
  <2>2. IntakeTypeOK'
    BY Z3T(60), <1>0, <1>2, <1>3, <2>1 DEF IntakeInv, IntakeTypeOK
  <2>3. RequestAgrees(c)'
    <3>1. RequestAgrees(c)
      BY Zenon, <1>0
    <3>2. ASSUME NEW v \in Rows
          PROVE v \in Rows' /\ rows'[v].key = rows[v].key /\ rows'[v].meta = rows[v].meta
                /\ (SameIntent(c, v) <=> /\ rows'[v].queue = client'[c].queue
                                         /\ rows'[v].hash = Canonical(client'[c].timeout, rows'[v].defaults))
      BY Zenon, <2>0, <2>1 DEF RowsAreKept, SameIntent
    <3>3. rows'[client[c].work].state = "QUEUED"
      BY Zenon, <2>1
    <3> HIDE DEF repair, w
    <3> QED
      BY ZenonT(200), <1>0, <2>0, <3>1, <3>2, <3>3 DEF RequestAgrees, ByKey, SameIntent, w
  <2> QED
    BY <1>0, <1>2, <1>3, <2>1, <2>2, <2>3, ClientMoves
<1>4. CASE (repair => ~CanTransition(rows[w].state, "QUEUED")) /\ ClientGoto(c, "replayed") /\ UNCHANGED rows
  <2>1. client[c].queue /\ rows[w].meta => rows[w].state # "CREATED"
    <3>1. ASSUME client[c].queue, rows[w].meta, client[c].seen = "CREATED" PROVE rows[w].state # "CREATED"
      <4>1. repair
        BY Zenon, <1>0, <3>1 DEF RequestAgrees, SameIntent
      <4> QED
        BY Z3T(60), <1>4, <4>1 DEF CanTransition, ValidTransitions, TerminalState
    <3>2. client[c].seen # "CREATED" => rows[w].state # "CREATED"
      BY Zenon, <1>0 DEF RequestAgrees
    <3> QED
      BY Z3T(60), <3>1, <3>2
  <2>2. RequestAgrees(c)'
    BY ZenonT(200), <1>0, <1>2, <1>4, <2>1 DEF RequestAgrees, SameIntent, ByKey, Rows
  <2> QED
    BY ZenonT(60), <1>0, <1>2, <1>4, <2>2, ClientReads
<1>5. CASE ClientGoto(c, "failed") /\ UNCHANGED rows
  BY <1>0, <1>5, ClientGivesUp
<1> QED
  BY Zenon, <1>3, <1>4, <1>5 DEF ReconcileReplayQueue

\* The queue step of a creation without a key.
LEMMA AutoQueueKeeps ==
    ASSUME IntakeInv, NEW c \in Client, AutoQueue(c)
    PROVE IntakeInv'
<1> DEFINE w == client[c].work
<1>0. /\ client[c].pc = "queue" /\ client[c].key = NoKey /\ ~client[c].retry /\ w \in Rows
      /\ client[c].id \in WorkId
      /\ ClientGoto(c, "created") /\ UNCHANGED <<policy, webhooks, receiver>>
  BY Zenon DEF AutoQueue, IntakeInv, RequestAgrees
<1>1. client \in [Client -> CreateRequest] /\ client[c] \in CreateRequest
  BY Zenon DEF IntakeInv, IntakeTypeOK
<1>2. /\ client' \in [Client -> CreateRequest]
      /\ \A b \in Client \ {c} : client'[b] = client[b]
      /\ client'[c].pc = "created" /\ client'[c].id = client[c].id /\ client'[c].key = client[c].key
      /\ client'[c].timeout = client[c].timeout /\ client'[c].queue = client[c].queue
      /\ client'[c].retry = client[c].retry /\ client'[c].work = w
  <2>1. client' \in [Client -> CreateRequest]
    BY Zenon, <1>0, <1>1 DEF ClientGoto, CreateRequest, ClientPC
  <2>2. client'[c] = [client[c] EXCEPT !.pc = "created"] /\ \A b \in Client \ {c} : client'[b] = client[b]
    BY Zenon, <1>0, <1>1 DEF ClientGoto
  <2> QED
    BY Zenon, <1>1, <2>1, <2>2 DEF CreateRequest
<1>3. CASE UNCHANGED rows
  <2>1. RequestAgrees(c)'
    BY Z3T(60), <1>0, <1>2, <1>3 DEF RequestAgrees, Rows
  <2> QED
    BY Zenon, <1>0, <1>2, <1>3, <2>1, ClientReads
<1>4. CASE rows' = [rows EXCEPT ![w].state = "QUEUED"]
  <2>1. /\ rows' \in [WorkId -> WorkRow \cup {NoWork}] /\ \A v \in Rows' : rows'[v].timeout # 0
        /\ Rows' = Rows /\ RowsAreKept /\ OneWorkPerKey'
    BY ZenonT(60), <1>0, <1>4, RowAdvances DEF State
  <2>2. IntakeTypeOK'
    BY Z3T(60), <1>0, <1>2, <2>1 DEF IntakeInv, IntakeTypeOK
  <2>3. RequestAgrees(c)'
    BY Zenon, <1>0, <1>2, <2>1 DEF RequestAgrees
  <2> QED
    BY Z3T(60), <1>0, <1>2, <2>1, <2>2, <2>3, ClientMoves
<1> QED
  BY Zenon, <1>3, <1>4 DEF AutoQueue

\* Every step of a creation request keeps the invariant.
LEMMA ClientStepKeeps ==
    ASSUME IntakeInv, NEW c \in Client, ClientStep(c)
    PROVE IntakeInv'
BY Zenon, BeginCreateKeeps, LookupKeyKeeps, CreateWorkKeeps, RereadKeyKeeps, ReadCanonicalKeeps, ReconcileReplayQueueKeeps,
   AutoQueueKeeps, AbandonCreateKeeps DEF ClientStep

\* A step of somebody else keeps the invariant if its rows have no creation metadata.
LEMMA OthersMove ==
    ASSUME IntakeInv, IntakeTypeOK', RowsAreKept, OneWorkPerKey', UNCHANGED <<policy, client>>, DeliveriesAgree',
           \A w \in Rows' \ Rows : ~rows'[w].meta
    PROVE IntakeInv'
<1>1. \A c \in Client : RequestAgrees(c)'
  BY Z3T(60), Bystander
<1>2. RowsAreSubmissions'
  BY DEF IntakeInv, RowsAreSubmissions, SameIntent, RowsAreKept
<1> QED
  BY Zenon, <1>1, <1>2 DEF IntakeInv

\* The webhook requests keep the invariant.
LEMMA ReceiverStepKeeps ==
    ASSUME IntakeInv, NEW h \in Receiver, ReceiverStep(h)
    PROVE IntakeInv'
<1>0. /\ receiver \in [Receiver -> DeliveryRequest] /\ receiver[h] \in DeliveryRequest
      /\ webhooks \in [Delivery -> WorkId \cup {NoWork}] /\ DeliveriesAgree
  BY Zenon DEF IntakeInv, IntakeTypeOK
<1>1. ASSUME UNCHANGED <<rows, policy, client>>, receiver' \in [Receiver -> DeliveryRequest],
             webhooks' \in [Delivery -> WorkId \cup {NoWork}], DeliveriesAgree'
      PROVE IntakeInv'
  <2>1. Rows' = Rows
    BY Zenon, <1>1 DEF Rows
  <2>2. IntakeTypeOK' /\ OneWorkPerKey' /\ RowsAreKept
    BY Zenon, <1>1, <2>1 DEF IntakeInv, IntakeTypeOK, OneWorkPerKey, RowsAreKept
  <2> QED
    BY Zenon, <1>1, <2>1, <2>2, OthersMove
<1>2. ASSUME UNCHANGED <<rows, policy, client, webhooks>>, NEW pc \in ReceiverPC, pc # "record", ReceiverGoto(h, pc)
      PROVE IntakeInv'
  <2>1. receiver' \in [Receiver -> DeliveryRequest]
    BY Zenon, <1>0, <1>2 DEF ReceiverGoto, DeliveryRequest
  <2>2. receiver'[h].pc # "record" /\ \A g \in Receiver \ {h} : receiver'[g] = receiver[g]
    BY Z3T(60), <1>0, <1>2 DEF ReceiverGoto, DeliveryRequest
  <2>3. DeliveriesAgree'
    BY ZenonT(60), <1>0, <1>2, <2>2 DEF DeliveriesAgree, Rows
  <2> QED
    BY Zenon, <1>0, <1>1, <1>2, <2>1, <2>3
<1>3. ASSUME NEW d \in Delivery, BeginDelivery(h, d) PROVE IntakeInv'
  <2>1. receiver' \in [Receiver -> DeliveryRequest]
    BY Zenon, <1>0, <1>3 DEF BeginDelivery, DeliveryRequest, ReceiverPC
  <2>2. receiver'[h].pc # "record" /\ \A g \in Receiver \ {h} : receiver'[g] = receiver[g]
    BY Zenon, <1>0, <1>3 DEF BeginDelivery, DeliveryRequest
  <2>3. DeliveriesAgree'
    BY Zenon, <1>0, <1>3, <2>2 DEF DeliveriesAgree, Rows, BeginDelivery
  <2> QED
    BY Zenon, <1>0, <1>1, <1>3, <2>1, <2>3 DEF BeginDelivery
<1>4. ASSUME LookupDelivery(h) PROVE IntakeInv'
  <2>1. CASE webhooks[receiver[h].delivery] # NoWork
    <3>1. PICK w \in WorkId : w = webhooks[receiver[h].delivery]
      BY Zenon, <1>0, <2>1 DEF DeliveryRequest
    <3>2. receiver' = [receiver EXCEPT ![h].pc = "duplicate", ![h].work = w]
      BY Zenon, <1>4, <2>1, <3>1 DEF LookupDelivery
    <3>3. receiver' \in [Receiver -> DeliveryRequest]
      BY Zenon, <1>0, <3>1, <3>2 DEF DeliveryRequest, ReceiverPC
    <3>4. receiver'[h].pc # "record" /\ \A g \in Receiver \ {h} : receiver'[g] = receiver[g]
      BY Zenon, <1>0, <3>2 DEF DeliveryRequest
    <3>5. DeliveriesAgree'
      BY <1>0, <1>4, <3>4 DEF DeliveriesAgree, Rows, LookupDelivery
    <3> QED
      BY Zenon, <1>0, <1>1, <1>4, <3>3, <3>5 DEF LookupDelivery
  <2>2. CASE webhooks[receiver[h].delivery] = NoWork
    BY Zenon, <1>2, <1>4, <2>2 DEF LookupDelivery, ReceiverPC
  <2> QED
    BY Zenon, <2>1, <2>2
<1>5. ASSUME LoadPipeline(h) PROVE IntakeInv'
  BY Zenon, <1>2, <1>5 DEF LoadPipeline, ReceiverPC
<1>6. ASSUME CreateFromDelivery(h) PROVE IntakeInv'
  <2> DEFINE d == receiver[h].delivery
             r == Row(NoKey, 0, policy, FALSE, FALSE, "QUEUED", d)
  <2>1. PICK w \in WorkId \ Rows : /\ rows' = [rows EXCEPT ![w] = r]
                                   /\ receiver' = [receiver EXCEPT ![h].pc = "record", ![h].work = w]
    BY Zenon, <1>6 DEF CreateFromDelivery
  <2>2. UNCHANGED <<policy, client, webhooks>>
    BY Zenon, <1>6 DEF CreateFromDelivery
  <2>3. r \in WorkRow /\ r.timeout # 0 /\ r.key = NoKey /\ ~r.meta /\ r.origin = d
    <3>1. 0 \in Timeout /\ policy \in Deployment /\ "QUEUED" \in State /\ d \in Delivery
      BY <1>0, IntakeAssumption DEF Timeout, IntakeInv, IntakeTypeOK, State, DeliveryRequest
    <3>2. /\ Enrich(0, policy) \in Timeout \ {0} /\ Canonical(0, policy) \in Timeout
      BY Zenon, <3>1, Timeouts
    <3> QED
      BY Zenon, <3>1, <3>2 DEF Row, WorkRow
  <2> HIDE DEF r
  <2>4. /\ rows' \in [WorkId -> WorkRow \cup {NoWork}] /\ \A v \in Rows' : rows'[v].timeout # 0
        /\ Rows' = Rows \cup {w} /\ rows'[w] = r /\ RowsAreKept /\ OneWorkPerKey'
    <3>1. rows[w] = NoWork
      BY Zenon DEF Rows
    <3> QED
      BY Zenon, <2>1, <2>3, <3>1, RowInserted
  <2>5. receiver' \in [Receiver -> DeliveryRequest]
    BY ZenonT(60), <1>0, <2>1 DEF DeliveryRequest, ReceiverPC
  <2>6. IntakeTypeOK'
    BY Zenon, <2>2, <2>4, <2>5 DEF IntakeInv, IntakeTypeOK
  <2>7. /\ receiver'[h].work = w /\ receiver'[h].delivery = d
        /\ \A g \in Receiver \ {h} : receiver'[g] = receiver[g]
    BY Zenon, <1>0, <2>1 DEF DeliveryRequest
  <2>8. DeliveriesAgree'
    BY SMTT(60), <1>0, <2>2, <2>3, <2>4, <2>7 DEF DeliveriesAgree, RowsAreKept
  <2> QED
    BY Zenon, <2>2, <2>3, <2>4, <2>6, <2>8, OthersMove
<1>7. ASSUME RecordWebhookDelivery(h) PROVE IntakeInv'
  <2> DEFINE d == receiver[h].delivery
             w == receiver[h].work
  <2>0. receiver[h].pc = "record" /\ ReceiverGoto(h, "created") /\ UNCHANGED <<rows, policy, client>>
    BY Z3T(60), <1>7 DEF RecordWebhookDelivery
  <2>1. w \in Rows /\ rows[w].origin = d /\ d \in Delivery /\ w \in WorkId
    BY Zenon, <1>0, <2>0 DEF DeliveriesAgree, DeliveryRequest, Rows
  <2>2. receiver' \in [Receiver -> DeliveryRequest]
    BY Zenon, <1>0, <2>0 DEF ReceiverGoto, DeliveryRequest, ReceiverPC
  <2>3. receiver'[h].pc # "record" /\ \A g \in Receiver \ {h} : receiver'[g] = receiver[g]
    BY Z3T(60), <1>0, <2>0 DEF ReceiverGoto, DeliveryRequest
  <2>4. webhooks' \in [Delivery -> WorkId \cup {NoWork}]
    BY Z3T(60), <1>0, <1>7, <2>1 DEF RecordWebhookDelivery
  <2>5. \A e \in Delivery : webhooks'[e] = webhooks[e] \/ (e = d /\ webhooks'[e] = w)
    BY Z3T(60), <1>0, <1>7, <2>1 DEF RecordWebhookDelivery
  <2>6. DeliveriesAgree'
    BY <1>0, <2>0, <2>1, <2>3, <2>5 DEF DeliveriesAgree, Rows
  <2> QED
    BY Z3T(60), <1>1, <2>0, <2>2, <2>4, <2>6
<1>8. ASSUME AbandonDelivery(h) PROVE IntakeInv'
  BY Zenon, <1>2, <1>8 DEF AbandonDelivery, ReceiverPC
<1> QED
  BY Zenon, <1>3, <1>4, <1>5, <1>6, <1>7, <1>8 DEF ReceiverStep

\* A Work moves on elsewhere.
LEMMA AdvanceRowKeeps ==
    ASSUME IntakeInv, NEW w \in WorkId, NEW to \in {"QUEUED", "CANCELLED"}, AdvanceRow(w, to)
    PROVE IntakeInv'
<1>1. w \in Rows /\ to \in State /\ to # "CREATED" /\ rows' = [rows EXCEPT ![w].state = to]
      /\ UNCHANGED <<policy, client, webhooks, receiver>>
  BY Zenon DEF AdvanceRow, Rows, State
<1>2. /\ rows' \in [WorkId -> WorkRow \cup {NoWork}] /\ \A v \in Rows' : rows'[v].timeout # 0
      /\ Rows' = Rows /\ RowsAreKept /\ OneWorkPerKey'
  BY Zenon, <1>1, RowAdvances
<1>3. IntakeTypeOK'
  BY Zenon, <1>1, <1>2 DEF IntakeInv, IntakeTypeOK
<1>4. DeliveriesAgree'
  BY <1>1, <1>2 DEF IntakeInv, DeliveriesAgree, RowsAreKept
<1> QED
  BY Zenon, <1>1, <1>2, <1>3, <1>4, OthersMove

\* A deployment ends the requests in flight, so none of them sees two policies.
LEMMA DeployKeeps ==
    ASSUME IntakeInv, NEW d \in Deployment, Deploy(d)
    PROVE IntakeInv'
<1>0. /\ client \in [Client -> CreateRequest] /\ receiver \in [Receiver -> DeliveryRequest]
      /\ UNCHANGED <<rows, webhooks>> /\ policy' = d
  BY Zenon DEF IntakeInv, IntakeTypeOK, Deploy
<1>1. ASSUME NEW c \in Client
      PROVE /\ client'[c] \in CreateRequest
            /\ client'[c].id = client[c].id /\ client'[c].key = client[c].key
            /\ client'[c].timeout = client[c].timeout /\ client'[c].queue = client[c].queue
            /\ client'[c].retry = client[c].retry /\ client'[c].work = client[c].work
            /\ client'[c].pc = client[c].pc \/ (client'[c].pc = "gone" /\ client[c].pc # "new")
            /\ client'[c].pc \in Answered \cup {"new"}
  <2>1. client[c] \in CreateRequest
    BY Zenon, <1>0
  <2>2. CASE client[c].pc \in Answered \cup {"new"}
    BY Zenon, <2>1, <2>2 DEF Deploy
  <2>3. CASE client[c].pc \notin Answered \cup {"new"}
    <3>1. client'[c] = [client[c] EXCEPT !.pc = "gone"]
      BY Zenon, <2>3 DEF Deploy
    <3> QED
      BY Zenon, <2>1, <2>3, <3>1 DEF CreateRequest, ClientPC, Answered
  <2> QED
    BY Zenon, <2>2, <2>3
<1>2. client' \in [Client -> CreateRequest]
  BY Zenon, <1>1 DEF Deploy
<1>3. ASSUME NEW h \in Receiver
      PROVE receiver'[h] \in DeliveryRequest /\ receiver'[h].pc # "record"
  <2>1. receiver[h] \in DeliveryRequest
    BY Zenon, <1>0
  <2> QED
    BY Zenon, <2>1 DEF Deploy, DeliveryRequest, ReceiverPC
<1>4. receiver' \in [Receiver -> DeliveryRequest]
  BY Zenon, <1>3 DEF Deploy
<1>5. IntakeTypeOK' /\ OneWorkPerKey'
  BY Z3T(60), <1>0, <1>2, <1>4 DEF IntakeInv, IntakeTypeOK, OneWorkPerKey, Rows
<1>6. RowsAreSubmissions'
  BY Z3T(60), <1>0, <1>1 DEF IntakeInv, RowsAreSubmissions, SameIntent, Rows
<1>7. ASSUME NEW c \in Client PROVE RequestAgrees(c)'
  <2>1. RequestAgrees(c)
    BY Zenon DEF IntakeInv
  <2> QED
    BY ZenonT(200), <1>0, <1>1, <2>1 DEF RequestAgrees, SameIntent, ByKey, Rows, Answered
<1>8. DeliveriesAgree'
  BY <1>0, <1>3 DEF IntakeInv, DeliveriesAgree, Rows
<1> QED
  BY Zenon, <1>5, <1>6, <1>7, <1>8 DEF IntakeInv

\* The empty tables, or a row that predates the creation metadata, satisfy it.
LEMMA IntakeInitially == IntakeInit => IntakeInv
<1> SUFFICES ASSUME IntakeInit PROVE IntakeInv
  BY Zenon
<1>1. PICK legacy \in {{}} \cup {{w} : w \in LegacyId} :
        rows = [w \in WorkId |-> IF w \in legacy
                                 THEN Row(LegacyKey, 0, policy, FALSE, FALSE, "CREATED", NoWork)
                                 ELSE NoWork]
  BY ZenonT(60) DEF IntakeInit
<1> DEFINE r == Row(LegacyKey, 0, policy, FALSE, FALSE, "CREATED", NoWork)
<1>2. r \in WorkRow /\ r.timeout # 0 /\ ~r.meta
  <2>1. 0 \in Timeout /\ policy \in Deployment /\ "CREATED" \in State /\ LegacyKey \in Key
    BY IntakeAssumption DEF Timeout, IntakeInit, State
  <2>2. /\ Enrich(0, policy) \in Timeout \ {0} /\ Canonical(0, policy) \in Timeout
    BY Zenon, <2>1, Timeouts
  <2> QED
    BY Zenon, <2>1, <2>2 DEF Row, WorkRow
<1> HIDE DEF r
<1>3. /\ rows \in [WorkId -> WorkRow \cup {NoWork}]
      /\ \A w \in Rows : rows[w] = r /\ w \in legacy
  BY Zenon, <1>1, <1>2 DEF Rows, r
<1>4. client \in [Client -> CreateRequest]
  BY IntakeAssumption DEF IntakeInit, CreateRequest, ClientPC, Timeout, State
<1>5. receiver \in [Receiver -> DeliveryRequest]
  BY Zenon, IntakeAssumption DEF IntakeInit, DeliveryRequest, ReceiverPC
<1>6. webhooks \in [Delivery -> WorkId \cup {NoWork}] /\ policy \in Deployment
  BY Zenon DEF IntakeInit
<1>7. IntakeTypeOK
  BY Zenon, <1>2, <1>3, <1>4, <1>5, <1>6 DEF IntakeTypeOK
<1>8. OneWorkPerKey
  BY Zenon, <1>3 DEF OneWorkPerKey
<1>9. RowsAreSubmissions
  BY Z3T(60), <1>2, <1>3 DEF RowsAreSubmissions
<1>10. \A c \in Client : RequestAgrees(c)
  BY ZenonT(60) DEF IntakeInit, RequestAgrees
<1>11. DeliveriesAgree
  BY Zenon DEF IntakeInit, DeliveriesAgree
<1> QED
  BY Zenon, <1>7, <1>8, <1>9, <1>10, <1>11 DEF IntakeInv

\* Every step keeps it.
LEMMA IntakeKept == IntakeInv /\ [IntakeNext]_intakeVars => IntakeInv'
<1> SUFFICES ASSUME IntakeInv, [IntakeNext]_intakeVars PROVE IntakeInv'
  BY Zenon
<1>1. CASE UNCHANGED intakeVars
  <2>0. UNCHANGED <<rows, webhooks, client, receiver, policy>> /\ Rows' = Rows
    BY Zenon, <1>1 DEF intakeVars, Rows
  <2>1. \A k : ByKey(k)' = ByKey(k)
    BY Zenon, <2>0 DEF ByKey
  <2>2. IntakeTypeOK'
    BY Z3T(60), <2>0 DEF IntakeInv, IntakeTypeOK
  <2>3. OneWorkPerKey' /\ DeliveriesAgree'
    BY Z3T(60), <2>0, <2>1 DEF IntakeInv, OneWorkPerKey, DeliveriesAgree
  <2>4. RowsAreSubmissions'
    BY Z3T(60), <2>0 DEF IntakeInv, RowsAreSubmissions, SameIntent
  <2>5. ASSUME NEW c \in Client PROVE RequestAgrees(c)'
    <3>1. RequestAgrees(c)
      BY Zenon DEF IntakeInv
    <3> QED
      BY ZenonT(60), <2>0, <2>1, <3>1 DEF RequestAgrees, SameIntent
  <2> QED
    BY <2>2, <2>3, <2>4, <2>5 DEF IntakeInv
<1> QED
  BY Zenon, <1>1, ClientStepKeeps, ReceiverStepKeeps, AdvanceRowKeeps, DeployKeeps DEF IntakeNext

\* The inductive invariant holds in every state of the intake.
LEMMA IntakeInvariant == IntakeSpec => []IntakeInv
BY IntakeInitially, IntakeKept, PTL DEF IntakeSpec

-----------------------------------------------------------------------------
\* A key is bound to one Work, for every set of clients, ids and keys (CreateWork).
THEOREM KeyBindsOneWork == IntakeSpec => []OneWorkPerKey
<1>1. IntakeInv => OneWorkPerKey
  BY Zenon DEF IntakeInv
<1> QED
  BY <1>1, IntakeInvariant, PTL

\* The Work a keyed request is answered with is bound to its key and is its own
\* submission (createWork, replayMatchesAcceptedHash).
THEOREM AnswersAreStored == IntakeSpec => []AnswerIsStored
<1>1. IntakeInv => AnswerIsStored
  <2> SUFFICES ASSUME IntakeInv, NEW c \in Client, client[c].key # NoKey,
                      client[c].pc \in {"created", "replayed"}
               PROVE  /\ rows[client[c].work].key = client[c].key
                      /\ rows[client[c].work].meta => SameIntent(c, client[c].work)
    BY Zenon DEF AnswerIsStored, SameIntent
  <2>1. RequestAgrees(c)
    BY Zenon DEF IntakeInv
  <2> QED
    BY Zenon, <2>1 DEF RequestAgrees
<1> QED
  BY <1>1, IntakeInvariant, PTL

\* A repeated submission is never refused or found in conflict, whatever deployment it
\* meets (createWork).
THEOREM RetriesAreRecognized == IntakeSpec => []RetryIsRecognized
<1>1. IntakeInv => RetryIsRecognized
  <2> SUFFICES ASSUME IntakeInv, NEW c \in Client, client[c].retry
               PROVE  client[c].pc \notin {"conflict", "refused"}
    BY Zenon DEF RetryIsRecognized
  <2>1. RequestAgrees(c)
    BY Zenon DEF IntakeInv
  <2> QED
    BY Zenon, <2>1 DEF RequestAgrees
<1> QED
  BY <1>1, IntakeInvariant, PTL

\* A keyed submission with queue that is answered as accepted is queued
\* (reconcileReplayQueue).
THEOREM AcceptedAreQueued == IntakeSpec => []AnsweredIsQueued
<1>1. IntakeInv => AnsweredIsQueued
  BY Zenon DEF IntakeInv, RequestAgrees, SameIntent, AnsweredIsQueued
<1> QED
  BY <1>1, IntakeInvariant, PTL

\* A Work's row is never moved back by a creation, a replay or a deployment
\* (reconcileReplayQueue, UpdateState).
THEOREM WorksAreNotMovedBack == IntakeSpec => NeverMovedBack
<1> DEFINE Forward == \A w \in WorkId :
               rows[w] # NoWork /\ rows'[w] # rows[w] => CanTransition(rows[w].state, rows'[w].state)
<1>1. ASSUME IntakeInv, [IntakeNext]_intakeVars PROVE Forward
  <2>0. rows \in [WorkId -> WorkRow \cup {NoWork}]
    BY Zenon, <1>1 DEF IntakeInv, IntakeTypeOK
  <2>1. ASSUME UNCHANGED rows PROVE Forward
    BY Zenon, <2>1
  <2>2. ASSUME NEW w \in WorkId, NEW r, rows[w] = NoWork, rows' = [rows EXCEPT ![w] = r] PROVE Forward
    BY Zenon, <2>0, <2>2
  <2>3. ASSUME NEW w \in Rows, NEW s, CanTransition(rows[w].state, s), rows' = [rows EXCEPT ![w].state = s]
        PROVE Forward
    <3>1. rows[w] \in WorkRow /\ w \in WorkId
      BY Zenon, <2>0 DEF Rows
    <3>2. rows'[w].state = s
      BY Zenon, <2>0, <2>3, <3>1 DEF WorkRow
    <3> QED
      BY Zenon, <2>0, <2>3, <3>1, <3>2
  <2>4. ASSUME NEW c \in Client, ClientStep(c) PROVE Forward
    <3>1. ASSUME CreateWork(c) PROVE Forward
      <4>1. client[c].pc = "create" /\ client[c].id \in WorkId
        BY ZenonT(60), <1>1, <3>1 DEF CreateWork, IntakeInv, RequestAgrees
      <4> QED
        BY Z3T(60), <2>1, <2>2, <3>1, <4>1 DEF CreateWork
    <3>2. ASSUME ReconcileReplayQueue(c) PROVE Forward
      <4>1. client[c].pc = "repair" /\ client[c].work \in Rows
        BY Zenon, <1>1, <3>2 DEF ReconcileReplayQueue, IntakeInv, RequestAgrees
      <4> QED
        BY Z3T(60), <2>1, <2>3, <3>2, <4>1 DEF ReconcileReplayQueue
    <3>3. ASSUME AutoQueue(c) PROVE Forward
      <4>1. client[c].pc = "queue" /\ client[c].work \in Rows
        BY Zenon, <1>1, <3>3 DEF AutoQueue, IntakeInv, RequestAgrees
      <4> QED
        BY Zenon, <2>1, <2>3, <3>3, <4>1 DEF AutoQueue
    <3>4. ASSUME NEW id \in WorkId, NEW key \in Key \cup {NoKey}, NEW t \in Timeout, NEW queue \in BOOLEAN,
                 BeginCreate(c, id, key, t, queue)
          PROVE UNCHANGED rows
      BY Zenon, <3>4 DEF BeginCreate
    <3>5. CASE LookupKey(c) \/ RereadKey(c) \/ ReadCanonical(c) \/ AbandonCreate(c)
      <4>1. UNCHANGED rows
        BY Zenon, <3>5 DEF LookupKey, RereadKey, ReadCanonical, AbandonCreate
      <4> QED
        BY Z3T(60), <2>1, <4>1
    <3> HIDE DEF Forward
    <3> QED
      BY ZenonT(60), <2>1, <2>4, <3>1, <3>2, <3>3, <3>4, <3>5 DEF ClientStep
  <2>5. ASSUME NEW h \in Receiver, ReceiverStep(h) PROVE Forward
    <3>1. ASSUME CreateFromDelivery(h) PROVE Forward
      <4>1. PICK w \in WorkId \ Rows : \E r : rows' = [rows EXCEPT ![w] = r]
        BY Zenon, <3>1 DEF CreateFromDelivery
      <4> QED
        BY Zenon, <2>2, <4>1 DEF Rows
    <3> QED
      BY Zenon, <2>1, <2>5, <3>1 DEF ReceiverStep, BeginDelivery, LookupDelivery, LoadPipeline, RecordWebhookDelivery,
         AbandonDelivery
  <2>6. ASSUME NEW w \in WorkId, NEW to, AdvanceRow(w, to) PROVE Forward
    BY Zenon, <2>3, <2>6 DEF AdvanceRow, Rows
  <2> QED
    BY Zenon, <1>1, <2>1, <2>4, <2>5, <2>6 DEF IntakeNext, Deploy, intakeVars
<1>2. ASSUME IntakeInv, [IntakeNext]_intakeVars PROVE [Forward]_intakeVars
  BY Zenon, <1>1, <1>2
<1> QED
  BY <1>2, IntakeInvariant, PTL DEF NeverMovedBack, IntakeSpec

\* A delivery keeps the Work it was recorded with, and that Work was made for it
\* (RecordWebhookDelivery).
THEOREM DeliveriesKeepTheirWork == IntakeSpec => DeliveryKeepsItsWork
<1> DEFINE Kept == \A d \in Delivery :
               webhooks[d] # NoWork => webhooks'[d] = webhooks[d] /\ rows[webhooks[d]].origin = d
<1>1. ASSUME IntakeInv, [IntakeNext]_intakeVars PROVE Kept
  <2>1. \A d \in Delivery : webhooks[d] # NoWork => rows[webhooks[d]].origin = d
    BY Zenon, <1>1 DEF IntakeInv, DeliveriesAgree
  <2>2. CASE UNCHANGED webhooks
    BY Zenon, <2>1, <2>2
  <2>3. ASSUME NEW h \in Receiver, RecordWebhookDelivery(h) PROVE Kept
    BY Zenon, <1>1, <2>1, <2>3 DEF RecordWebhookDelivery, IntakeInv, IntakeTypeOK
  <2>4. ASSUME NEW c \in Client, ClientStep(c) PROVE UNCHANGED webhooks
    <3>1. ASSUME NEW id \in WorkId, NEW key \in Key \cup {NoKey}, NEW t \in Timeout, NEW queue \in BOOLEAN,
                 BeginCreate(c, id, key, t, queue)
          PROVE UNCHANGED webhooks
      BY Zenon, <3>1 DEF BeginCreate
    <3>2. CASE CreateWork(c)
      BY Z3T(60), <3>2 DEF CreateWork
    <3>3. CASE LookupKey(c) \/ RereadKey(c) \/ ReadCanonical(c) \/ AbandonCreate(c)
      BY Zenon, <3>3 DEF LookupKey, RereadKey, ReadCanonical, AbandonCreate
    <3>4. CASE ReconcileReplayQueue(c) \/ AutoQueue(c)
      BY Zenon, <3>4 DEF ReconcileReplayQueue, AutoQueue
    <3> QED
      BY Zenon, <2>4, <3>1, <3>2, <3>3, <3>4 DEF ClientStep
  <2>5. ASSUME NEW h \in Receiver, ReceiverStep(h), ~RecordWebhookDelivery(h) PROVE UNCHANGED webhooks
    BY ZenonT(60), <2>5 DEF ReceiverStep, BeginDelivery, LookupDelivery, LoadPipeline, CreateFromDelivery, AbandonDelivery
  <2>6. ASSUME NEW w \in WorkId, NEW to, AdvanceRow(w, to) PROVE UNCHANGED webhooks
    BY Zenon, <2>6 DEF AdvanceRow
  <2>7. ASSUME NEW d \in Deployment, Deploy(d) PROVE UNCHANGED webhooks
    BY Zenon, <2>7 DEF Deploy
  <2>8. CASE UNCHANGED intakeVars
    BY Zenon, <2>2, <2>8 DEF intakeVars
  <2> HIDE DEF Kept
  <2> QED
    BY Zenon, <1>1, <2>2, <2>3, <2>4, <2>5, <2>6, <2>7, <2>8 DEF IntakeNext
<1>2. ASSUME IntakeInv, [IntakeNext]_intakeVars PROVE [Kept]_intakeVars
  BY Zenon, <1>1, <1>2
<1> QED
  BY <1>2, IntakeInvariant, PTL DEF DeliveryKeepsItsWork, IntakeSpec

-----------------------------------------------------------------------------
(* The source promotion: a repetition opens nothing, and every pull request was decided for. *)

Undecided == {"new", "failed"}
Staged == {"pulls", "postPull", "pullsAgain", "proposed"}
ProposalPC == Undecided \cup Staged \cup {"refs", "postRef", "refsAgain"}

PromotionShape ==
    /\ pulls \in [PContent -> Seq({"open", "closed"})]
    /\ preq \in [PRequest -> [pc : ProposalPC, content : PContent, answered : SUBSET PContent]]
    /\ decision \in [Decision -> [content : PContent, state : {"draft", "human_stamped", "tombstone"}]]

\* The branch of a content is there, or was.
Branched(c) == c \in branches \/ c \in deleted

\* What is on GitHub, or may come late, was decided for, and an open pull request has its branch.
GitHubIsDecided ==
    /\ \A d \in Decision : decision[d].state = "human_stamped" => decision[d].content \in decided
    /\ \A c \in PContent : pulls[c] # <<>> => c \in decided
    /\ \A c \in PContent : \A i \in DOMAIN pulls[c] : pulls[c][i] = "open" => c \in branches
    /\ \A c \in PContent : <<"pull", c>> \in late => c \in decided

\* A request works for a decided content, which has had its branch when it turns to the pull
\* request, and was answered with a pull request; what had been answered before it came has
\* its pull request, and its branch unless that was deleted.
RequestStands(q) ==
    /\ preq[q].pc \notin Undecided => preq[q].content \in decided
    /\ preq[q].pc \in Staged => Branched(preq[q].content)
    /\ preq[q].pc = "proposed" => pulls[preq[q].content] # <<>>
    /\ \A c \in preq[q].answered : Branched(c) /\ pulls[c] # <<>>
    /\ preq[q].pc = "postRef" => preq[q].answered \subseteq deleted
    /\ preq[q].content \in preq[q].answered => preq[q].pc # "postPull"

PromotionInv == PromotionShape /\ GitHubIsDecided /\ \A q \in PRequest : RequestStands(q)

\* What is there stays there, but for a branch that is deleted.
GitHubGrows ==
    /\ \A c \in PContent : Branched(c) => Branched(c)'
    /\ decided \subseteq decided' /\ deleted \subseteq deleted'
    /\ \A c \in PContent : pulls[c] # <<>> => pulls'[c] # <<>>

\* A pull request more: the ones before it stay where they are.
LEMMA OpenedGrows ==
    ASSUME PromotionShape, NEW c \in PContent
    PROVE  /\ Opened(c) \in [PContent -> Seq({"open", "closed"})]
           /\ \A x \in PContent : pulls[x] # <<>> => Opened(c)[x] # <<>>
           /\ \A x \in PContent : x # c => Opened(c)[x] = pulls[x]
           /\ Opened(c) # pulls => c \in branches /\ Opened(c)[c] # <<>>
<1>1. Append(pulls[c], "open") \in Seq({"open", "closed"}) /\ Append(pulls[c], "open") # <<>>
  BY AppendProperties DEF PromotionShape
<1>2. CASE c \notin branches \/ \E i \in DOMAIN pulls[c] : pulls[c][i] = "open"
  BY Zenon, <1>2 DEF Opened, PromotionShape
<1>3. CASE ~(c \notin branches \/ \E i \in DOMAIN pulls[c] : pulls[c][i] = "open")
  <2>1. Opened(c) = [pulls EXCEPT ![c] = Append(pulls[c], "open")]
    BY Zenon, <1>3 DEF Opened
  <2>2. c \in branches
    BY Zenon, <1>3
  <2>3. Opened(c)[c] = Append(pulls[c], "open") /\ \A x \in PContent : x # c => Opened(c)[x] = pulls[x]
    BY Zenon, <2>1 DEF PromotionShape
  <2>4. Opened(c) \in [PContent -> Seq({"open", "closed"})]
    BY Zenon, <1>1, <2>1 DEF PromotionShape
  <2>5. \A x \in PContent : pulls[x] # <<>> => Opened(c)[x] # <<>>
    BY Zenon, <1>1, <2>3
  <2> QED
    BY Zenon, <1>1, <2>2, <2>3, <2>4, <2>5
<1> QED
  BY Zenon, <1>2, <1>3

\* The requests that a step leaves alone still stand.
LEMMA OthersStand ==
    ASSUME PromotionInv, GitHubGrows, NEW q \in PRequest, preq'[q] = preq[q]
    PROVE  RequestStands(q)'
<1>1. preq[q].content \in PContent /\ preq[q].answered \subseteq PContent
  BY Zenon DEF PromotionInv, PromotionShape
<1>2. RequestStands(q)
  BY Zenon DEF PromotionInv
<1> QED
  BY Zenon, <1>1, <1>2 DEF RequestStands, GitHubGrows

\* A request that moves on, without a word to GitHub.
LEMMA OneRequestMoves ==
    ASSUME PromotionInv, PromotionShape', GitHubIsDecided', GitHubGrows,
           NEW q \in PRequest, RequestStands(q)', \A r \in PRequest \ {q} : preq'[r] = preq[r]
    PROVE  PromotionInv'
BY Zenon, OthersStand DEF PromotionInv

\* A step to another program counter keeps the shape of the requests.
LEMMA StepShape ==
    ASSUME PromotionShape, NEW q \in PRequest, NEW to \in ProposalPC, PStep(q, to)
    PROVE  /\ preq' \in [PRequest -> [pc : ProposalPC, content : PContent, answered : SUBSET PContent]]
           /\ preq'[q].pc = to /\ preq'[q].content = preq[q].content /\ preq'[q].answered = preq[q].answered
           /\ \A r \in PRequest \ {q} : preq'[r] = preq[r]
BY Zenon DEF PromotionShape, PStep

\* Listing: the request goes where what it found sends it.
LEMMA ListStep ==
    ASSUME PromotionInv, NEW q \in PRequest,
           ListRefs(q) \/ ListRefsAgain(q) \/ ListPulls(q) \/ ListPullsAgain(q)
    PROVE  PromotionInv'
<1>1. UNCHANGED <<branches, pulls, deleted, late, decision, decided>>
  BY Zenon DEF ListRefs, ListRefsAgain, ListPulls, ListPullsAgain
<1>2. PICK to \in {"failed", "postRef", "pulls", "postPull", "proposed"} :
        /\ PStep(q, to) /\ preq[q].pc \notin Undecided
        /\ to \in Staged => Branched(preq[q].content)
        /\ to = "postRef" => branches = {}
        /\ to = "postPull" => pulls[preq[q].content] = <<>>
        /\ to = "proposed" => pulls[preq[q].content] # <<>>
  <2>1. RequestStands(q)
    BY Zenon DEF PromotionInv
  <2>2. CASE ListRefs(q)
    BY Zenon, <2>2 DEF ListRefs, ClassifyRefs, Undecided, Staged, Branched
  <2>3. CASE ListRefsAgain(q)
    BY Zenon, <2>3 DEF ListRefsAgain, ClassifyRefs, Undecided, Staged, Branched
  <2>4. CASE ListPulls(q)
    BY Zenon, <2>1, <2>4 DEF ListPulls, Listed, Undecided, Staged, RequestStands
  <2>5. CASE ListPullsAgain(q)
    BY Zenon, <2>1, <2>5 DEF ListPullsAgain, Listed, Undecided, Staged, RequestStands
  <2> QED
    BY Zenon, <2>2, <2>3, <2>4, <2>5
<1>3. to \in ProposalPC
  BY Zenon DEF ProposalPC, Staged, Undecided
<1>4. /\ preq' \in [PRequest -> [pc : ProposalPC, content : PContent, answered : SUBSET PContent]]
      /\ preq'[q].pc = to /\ preq'[q].content = preq[q].content /\ preq'[q].answered = preq[q].answered
      /\ \A r \in PRequest \ {q} : preq'[r] = preq[r]
  BY Zenon, <1>2, <1>3, StepShape DEF PromotionInv
<1>5. PromotionShape' /\ GitHubIsDecided' /\ GitHubGrows
  BY Zenon, <1>1, <1>4 DEF PromotionInv, PromotionShape, GitHubIsDecided, GitHubGrows, Branched
<1>6. RequestStands(q)'
  <2>1. RequestStands(q)
    BY Zenon DEF PromotionInv
  <2> QED
    BY Zenon, <1>1, <1>2, <1>4, <2>1 DEF RequestStands, Undecided, Staged, Branched
<1> QED
  BY Zenon, <1>4, <1>5, <1>6, OneRequestMoves

\* Posting: what is made is of a decided content, and whoever posts had not been answered.
LEMMA PostStep ==
    ASSUME PromotionInv, NEW q \in PRequest, PostRef(q) \/ PostPull(q)
    PROVE  PromotionInv'
<1> DEFINE c == preq[q].content
<1>0. RequestStands(q) /\ c \in PContent /\ preq[q].pc \in {"postRef", "postPull"}
  BY Zenon DEF PromotionInv, PromotionShape, PostRef, PostPull
<1>1. PICK to \in {"pulls", "refsAgain", "proposed", "pullsAgain", "failed"} :
        /\ PStep(q, to)
        /\ to \in {"proposed", "pullsAgain"} => preq[q].pc = "postPull"
        /\ to = "pulls" => c \in branches'
        /\ to = "proposed" => pulls' = Opened(c) /\ Opened(c) # pulls
  BY Zenon DEF PostRef, PostPull
<1>2. /\ branches' \in {branches, branches \cup {c}} /\ pulls' \in {pulls, Opened(c)}
      /\ late' \subseteq late \cup {<<"ref", c>>, <<"pull", c>>} /\ UNCHANGED <<deleted, decision, decided>>
  BY Zenon DEF PostRef, PostPull
<1>3. /\ preq' \in [PRequest -> [pc : ProposalPC, content : PContent, answered : SUBSET PContent]]
      /\ preq'[q].pc = to /\ preq'[q].content = c /\ preq'[q].answered = preq[q].answered
      /\ \A r \in PRequest \ {q} : preq'[r] = preq[r]
  <2>1. to \in ProposalPC
    BY Zenon DEF ProposalPC, Staged, Undecided
  <2> QED
    BY Zenon, <1>1, <2>1, StepShape DEF PromotionInv
<1>4. c \in decided /\ (preq[q].pc = "postPull" => Branched(c))
  BY Zenon, <1>0 DEF RequestStands, Undecided, Staged
<1> HIDE DEF c
<1>5. /\ pulls' \in [PContent -> Seq({"open", "closed"})]
      /\ \A x \in PContent : pulls[x] # <<>> => pulls'[x] # <<>>
      /\ \A x \in PContent : x # c => pulls'[x] = pulls[x]
      /\ pulls' # pulls => c \in branches
  <2>1. CASE pulls' = pulls
    BY Zenon, <2>1 DEF PromotionInv, PromotionShape
  <2>2. CASE pulls' = Opened(c)
    BY Zenon, <1>0, <2>2, OpenedGrows DEF PromotionInv
  <2> QED
    BY Zenon, <1>2, <2>1, <2>2
<1>6. PromotionShape' /\ GitHubGrows
  BY Zenon, <1>2, <1>3, <1>5 DEF PromotionInv, PromotionShape, GitHubGrows, Branched
<1>7. GitHubIsDecided'
  <2>1. ASSUME NEW x \in PContent, pulls'[x] # <<>> PROVE x \in decided'
    BY Zenon, <1>2, <1>4, <1>5, <2>1 DEF PromotionInv, GitHubIsDecided
  <2>2. ASSUME NEW x \in PContent, <<"pull", x>> \in late' PROVE x \in decided'
    <3>1. CASE x = c
      BY Zenon, <1>2, <1>4, <3>1
    <3>2. CASE x # c
      <4>1. <<"pull", x>> # <<"ref", c>> /\ <<"pull", x>> # <<"pull", c>>
        BY <3>2
      <4>2. <<"pull", x>> \in late
        BY Zenon, <1>2, <2>2, <4>1
      <4> QED
        BY Zenon, <1>2, <4>2 DEF PromotionInv, GitHubIsDecided
    <3> QED
      BY Zenon, <3>1, <3>2
  <2>3. ASSUME NEW x \in PContent, NEW i \in DOMAIN pulls'[x], pulls'[x][i] = "open" PROVE x \in branches'
    <3>1. CASE x = c /\ pulls' # pulls
      BY Zenon, <1>2, <1>5, <3>1
    <3>2. CASE ~(x = c /\ pulls' # pulls)
      <4>1. pulls'[x] = pulls[x]
        BY Zenon, <1>5, <3>2
      <4> QED
        BY Zenon, <1>2, <2>3, <4>1 DEF PromotionInv, GitHubIsDecided
    <3> QED
      BY Zenon, <3>1, <3>2
  <2> QED
    BY Zenon, <1>2, <2>1, <2>2, <2>3 DEF PromotionInv, GitHubIsDecided
<1>8. RequestStands(q)'
  <2>1. to = "proposed" => pulls'[c] # <<>>
    BY Zenon, <1>0, <1>1, OpenedGrows DEF PromotionInv
  <2>2. to \in Staged => c \in branches' \/ c \in deleted'
    BY Zenon, <1>1, <1>2, <1>4 DEF Staged, Branched
  <2>3. to \notin {"postRef", "postPull"} /\ c \in decided'
    BY Zenon, <1>2, <1>4
  <2>4. \A x \in preq[q].answered : Branched(x)' /\ pulls'[x] # <<>>
    BY Zenon, <1>0, <1>6 DEF RequestStands, GitHubGrows, PromotionInv, PromotionShape
  <2> QED
    BY Zenon, <1>3, <2>1, <2>2, <2>3, <2>4 DEF RequestStands, Branched
<1> QED
  BY Zenon, <1>3, <1>6, <1>7, <1>8, OneRequestMoves

\* A request comes in: what was answered before is there.
LEMMA ProposeStep ==
    ASSUME PromotionInv, NEW q \in PRequest, NEW c \in PContent, NEW d \in Decision, Propose(q, c, d)
    PROVE  PromotionInv'
<1> DEFINE to == IF VerifyPromotionDecision(d, c) THEN "refs" ELSE "failed"
           before == {preq[r].content : r \in {x \in PRequest : preq[x].pc = "proposed"}}
<1>1. /\ preq' = [preq EXCEPT ![q] = [pc |-> to, content |-> c, answered |-> before]]
      /\ UNCHANGED <<branches, pulls, deleted, late, decision, decided>>
  BY Zenon DEF Propose
<1>2. to \in {"refs", "failed"} /\ to \in ProposalPC /\ (to = "refs" => c \in decided)
  BY Zenon DEF VerifyPromotionDecision, PromotionInv, GitHubIsDecided, ProposalPC, Undecided
<1>3. \A x \in before : x \in PContent /\ Branched(x) /\ pulls[x] # <<>>
  BY ZenonT(60) DEF PromotionInv, PromotionShape, RequestStands, Staged
<1> HIDE DEF to, before
<1>4. PromotionShape' /\ preq'[q] = [pc |-> to, content |-> c, answered |-> before]
      /\ \A r \in PRequest \ {q} : preq'[r] = preq[r]
  BY Zenon, <1>1, <1>2, <1>3 DEF PromotionInv, PromotionShape
<1>5. GitHubIsDecided' /\ GitHubGrows
  BY Zenon, <1>1 DEF PromotionInv, GitHubIsDecided, GitHubGrows, Branched
<1>6. RequestStands(q)'
  BY <1>1, <1>2, <1>3, <1>4 DEF RequestStands, Undecided, Staged, Branched
<1> QED
  BY Zenon, <1>4, <1>5, <1>6, OneRequestMoves

\* The decisions, the reviewers, and what GitHub does late.
LEMMA OutsideStep ==
    ASSUME PromotionInv,
           \/ \E d \in Decision : StampDecision(d) \/ WithdrawDecision(d)
           \/ \E c \in PContent :
                ClosePull(c) \/ DeleteBranch(c) \/ LateEffect("ref", c) \/ LateEffect("pull", c)
    PROVE  PromotionInv'
<1>0. preq' = preq
  BY Zenon DEF StampDecision, WithdrawDecision, ClosePull, DeleteBranch, LateEffect
<1> SUFFICES PromotionShape' /\ GitHubIsDecided' /\ GitHubGrows
  BY Zenon, <1>0, OthersStand DEF PromotionInv
<1>1. ASSUME NEW d \in Decision, StampDecision(d) \/ WithdrawDecision(d)
      PROVE  PromotionShape' /\ GitHubIsDecided' /\ GitHubGrows
  <2>1. UNCHANGED <<branches, pulls, deleted, late>> /\ decided \subseteq decided'
    BY Zenon, <1>1 DEF StampDecision, WithdrawDecision
  <2>2. PICK x \in {"human_stamped", "tombstone"} :
          /\ decision' = [decision EXCEPT ![d].state = x]
          /\ x = "human_stamped" => decision[d].content \in decided'
    BY Zenon, <1>1 DEF StampDecision, WithdrawDecision
  <2>3. /\ decision' \in [Decision -> [content : PContent, state : {"draft", "human_stamped", "tombstone"}]]
        /\ \A e \in Decision : decision'[e].content = decision[e].content
        /\ \A e \in Decision : decision'[e].state = IF e = d THEN x ELSE decision[e].state
    BY ZenonT(60), <2>2 DEF PromotionInv, PromotionShape
  <2>4. \A e \in Decision : decision'[e].state = "human_stamped" => decision'[e].content \in decided'
    BY Zenon, <2>1, <2>2, <2>3 DEF PromotionInv, GitHubIsDecided
  <2> QED
    BY Zenon, <1>0, <2>1, <2>3, <2>4 DEF PromotionInv, PromotionShape, GitHubIsDecided, GitHubGrows, Branched
<1>2. ASSUME NEW c \in PContent, ClosePull(c) \/ DeleteBranch(c)
      PROVE  PromotionShape' /\ GitHubIsDecided' /\ GitHubGrows
  <2>1. /\ pulls' = [pulls EXCEPT ![c] = [i \in DOMAIN pulls[c] |-> "closed"]]
        /\ UNCHANGED <<late, decision, decided>>
        /\ \/ UNCHANGED <<branches, deleted>>
           \/ branches' = branches \ {c} /\ deleted' = deleted \cup {c}
    BY Zenon, <1>2 DEF ClosePull, DeleteBranch
  <2>2. pulls[c] \in Seq({"open", "closed"}) /\ DOMAIN pulls[c] = 1..Len(pulls[c]) /\ Len(pulls[c]) \in Nat
    BY Zenon, LenProperties DEF PromotionInv, PromotionShape
  <2>3. [i \in DOMAIN pulls[c] |-> "closed"] \in Seq({"open", "closed"})
    BY <2>2, SeqDef
  <2>4. [i \in DOMAIN pulls[c] |-> "closed"] = <<>> <=> pulls[c] = <<>>
    <3>1. DOMAIN [i \in DOMAIN pulls[c] |-> "closed"] = DOMAIN pulls[c]
      BY Zenon
    <3>2. ASSUME NEW s \in Seq({"open", "closed"}) PROVE s = <<>> <=> DOMAIN s = {}
      BY <3>2
    <3> QED
      BY Zenon, <2>2, <2>3, <3>1, <3>2
  <2>5. /\ pulls' \in [PContent -> Seq({"open", "closed"})]
        /\ \A x \in PContent : pulls[x] # <<>> <=> pulls'[x] # <<>>
        /\ \A x \in PContent : x # c => pulls'[x] = pulls[x]
        /\ \A i \in DOMAIN pulls'[c] : pulls'[c][i] = "closed"
    BY Zenon, <2>1, <2>3, <2>4 DEF PromotionInv, PromotionShape
  <2>6. \A x \in PContent : \A i \in DOMAIN pulls'[x] : pulls'[x][i] = "open" => x \in branches'
    <3>1. "open" # "closed"
      BY Zenon
    <3> QED
      BY Zenon, <2>1, <2>5, <3>1 DEF PromotionInv, GitHubIsDecided
  <2>7. GitHubGrows
    BY Zenon, <2>1, <2>5 DEF GitHubGrows, Branched
  <2> QED
    BY Zenon, <1>0, <2>1, <2>5, <2>6, <2>7 DEF PromotionInv, PromotionShape, GitHubIsDecided
<1>3. ASSUME NEW c \in PContent, LateEffect("ref", c)
      PROVE  PromotionShape' /\ GitHubIsDecided' /\ GitHubGrows
  <2>1. branches \subseteq branches' /\ late' \subseteq late /\ UNCHANGED <<pulls, deleted, decision, decided>>
    BY Zenon, <1>3 DEF LateEffect
  <2> QED
    BY Zenon, <1>0, <2>1 DEF PromotionInv, PromotionShape, GitHubIsDecided, GitHubGrows, Branched
<1>4. ASSUME NEW c \in PContent, LateEffect("pull", c)
      PROVE  PromotionShape' /\ GitHubIsDecided' /\ GitHubGrows
  <2>1. /\ <<"pull", c>> \in late /\ late' \subseteq late /\ pulls' = Opened(c)
        /\ UNCHANGED <<branches, deleted, decision, decided>>
    BY Zenon, <1>4 DEF LateEffect
  <2>2. /\ pulls' \in [PContent -> Seq({"open", "closed"})]
        /\ \A x \in PContent : pulls[x] # <<>> => pulls'[x] # <<>>
        /\ \A x \in PContent : x # c => pulls'[x] = pulls[x]
        /\ pulls' # pulls => c \in branches
    BY Zenon, <2>1, OpenedGrows DEF PromotionInv
  <2>3. \A x \in PContent : \A i \in DOMAIN pulls'[x] : pulls'[x][i] = "open" => x \in branches'
    BY Zenon, <2>1, <2>2 DEF PromotionInv, GitHubIsDecided
  <2>4. \A x \in PContent : pulls'[x] # <<>> => x \in decided'
    BY Zenon, <2>1, <2>2 DEF PromotionInv, GitHubIsDecided
  <2> QED
    BY Zenon, <1>0, <2>1, <2>2, <2>3, <2>4 DEF PromotionInv, PromotionShape, GitHubIsDecided, GitHubGrows, Branched
<1> QED
  BY Zenon, <1>1, <1>2, <1>3, <1>4

\* The invariant holds before the first request ...
LEMMA PromotionInitially == PromotionInit => PromotionInv
<1> SUFFICES ASSUME PromotionInit PROVE PromotionInv
  BY Zenon
<1>1. PICK c \in PContent : preq = [q \in PRequest |-> [pc |-> "new", content |-> c, answered |-> {}]]
  BY Zenon DEF PromotionInit
<1>2. PromotionShape
  BY Zenon, <1>1, EmptySeq DEF PromotionInit, PromotionShape, ProposalPC, Undecided
<1>3. GitHubIsDecided
  <2>1. \A x \in PContent : pulls[x] = <<>> /\ DOMAIN pulls[x] = {}
    BY DEF PromotionInit
  <2> QED
    BY Zenon, <2>1 DEF PromotionInit, GitHubIsDecided
<1>4. \A q \in PRequest : RequestStands(q)
  BY Zenon, <1>1 DEF RequestStands, Undecided, Staged
<1> QED
  BY Zenon, <1>2, <1>3, <1>4 DEF PromotionInv

\* ... and every step keeps it.
LEMMA PromotionKept == PromotionInv /\ [PromotionNext]_promotionVars => PromotionInv'
<1>1. ASSUME PromotionInv, UNCHANGED promotionVars PROVE PromotionInv'
  BY Zenon, <1>1 DEF promotionVars, PromotionInv, PromotionShape, GitHubIsDecided, RequestStands, Branched
<1> QED
  BY Zenon, <1>1, ListStep, PostStep, ProposeStep, OutsideStep DEF PromotionNext

\* The invariant holds throughout.
LEMMA PromotionInvariant == PromotionSpec => []PromotionInv
BY PromotionInitially, PromotionKept, PTL DEF PromotionSpec

\* For every set of contents, decisions and requests under one key: a pull request stands
\* for a content a human decided for, and an open one has its branch (Propose,
\* ensurePullRequest).
THEOREM PullsAreDecided == PromotionSpec => []PullIsDecided
<1>1. PromotionInv => PullIsDecided
  BY Zenon DEF PromotionInv, GitHubIsDecided, PullIsDecided
<1> QED
  BY <1>1, PromotionInvariant, PTL

\* A repeated request opens no second pull request, and nothing makes a branch under a key
\* that was answered, unless the branches of what was answered have all been deleted
\* (classifyPromotionRefs, classifyPromotionPulls).
THEOREM RepetitionsOpenNothing == PromotionSpec => []RetryOpensNothing
<1>1. PromotionInv => RetryOpensNothing
  BY Zenon DEF PromotionInv, RequestStands, RetryOpensNothing
<1> QED
  BY <1>1, PromotionInvariant, PTL

=============================================================================
