--------------------------- MODULE EconomicSources ---------------------------
(***************************************************************************)
(* What the store keeps of one economic source: the generation it is at    *)
(* (economic_source_generation_store.go), and its trust root with the      *)
(* history of it (economic_source_trust_root_store.go, ..._history.go).    *)
(*                                                                         *)
(* An advance reads the row and writes it WHERE generation and revision    *)
(* are the ones it read.  The transaction takes no lock until it writes,   *)
(* so another one may be between the two; the database may then refuse the *)
(* write, which is the same answer as no row affected.  The history is     *)
(* appended in the transaction of the write.  A digest is the value it is  *)
(* taken of.                                                               *)
(***************************************************************************)
EXTENDS Naturals, Sequences, FiniteSets

CONSTANTS ERequest,        \* the advances, numbered as they arrive
          Capture_,        \* what a capture says: evidence, record and cursor
          CursorKind,
          TrustKey,        \* root id and key fingerprint
          MaxGeneration,   \* bound: the generations of a source or a root
          MaxFloor,        \* bound: min_attestation_generation
          MaxGrants,       \* bound: the rotations that are authorized
          NoState, NoAuth

VARIABLES source,     \* the row of economic_source_generations, or NoState
          root,       \* the row of economic_source_trust_roots, or NoState
          history,    \* economic_source_trust_root_events
          grants,     \* the rotation authorizations that were issued
          elapsed,    \* the authorizations whose time is over
          ereq,       \* per advance: where it is, what it wants, what it read, its authorization
          acceptedState    \* ghost: the captures that were answered ADVANCED or IDEMPOTENT_REPLAY

sourceVars == <<source, root, history, grants, elapsed, ereq, acceptedState>>

SourceState == [gen : 1..MaxGeneration, what : Capture_, kind : CursorKind, at : 1..2]
RootState == [key : TrustKey, gen : 1..MaxGeneration, floor : 1..MaxFloor, status : {"ACTIVE", "REVOKED"}]

\* The rows of the two tables, and what an authorization names.
SourceRow == [gen : 1..MaxGeneration, what : Capture_, kind : CursorKind, at : 1..2, rev : Nat]
RootRow ==
    [key : TrustKey, gen : 1..MaxGeneration, floor : 1..MaxFloor, status : {"ACTIVE", "REVOKED"}, rev : Nat \ {0}]
NamedRoot == [key : TrustKey, gen : 1..MaxGeneration, floor : 1..MaxFloor]
Grant == [prior : NamedRoot, next : NamedRoot]

ASSUME SourcesAssumption ==
    /\ ERequest \subseteq Nat \ {0} /\ MaxGeneration \in Nat /\ MaxFloor \in Nat /\ MaxGrants \in Nat
    /\ NoState \notin SourceState \cup RootState /\ NoState \notin SourceRow /\ NoState \notin RootRow
    /\ NoAuth \notin Grant

Untouched == [pc |-> "new", next |-> NoState, read |-> NoState, auth |-> NoAuth]

SourcesInit ==
    /\ source = NoState /\ root = NoState /\ history = <<>>
    /\ grants = {} /\ elapsed = {}
    /\ ereq = [q \in ERequest |-> Untouched]
    /\ acceptedState = {}

InTurn(q) == ereq[q].pc = "new" /\ \A r \in ERequest : r < q => ereq[r].pc # "new"
Answer(q, a) == ereq' = [ereq EXCEPT ![q] = [Untouched EXCEPT !.pc = a]]

-----------------------------------------------------------------------------
(***************************************************************************)
(* AdvanceEconomicSourceGeneration.                                        *)
(***************************************************************************)

\* The state without its revision: what a replay must match.
Said(s) == [gen |-> s.gen, what |-> s.what, kind |-> s.kind, at |-> s.at]

Regresses(next, cur) == next.gen < cur.gen \/ (next.gen = cur.gen /\ Said(cur) # next)
Replays(next, cur) == next.gen = cur.gen /\ Said(cur) = next
Breaks(next, cur) == next.gen > cur.gen /\ (next.at < cur.at \/ next.kind # cur.kind)

BeginAdvance(q, next) ==
    /\ InTurn(q)
    /\ IF source = NoState
       THEN ereq' = [ereq EXCEPT ![q] = [pc |-> "write", next |-> next, read |-> NoState, auth |-> NoAuth]]
       ELSE CASE Regresses(next, source) \/ Breaks(next, source) -> Answer(q, "refused")
              [] Replays(next, source) -> Answer(q, "replay")
              [] OTHER -> ereq' = [ereq EXCEPT ![q] = [pc |-> "write", next |-> next, read |-> source, auth |-> NoAuth]]
    /\ acceptedState' = IF source # NoState /\ Replays(next, source) THEN acceptedState \cup {next} ELSE acceptedState
    /\ UNCHANGED <<source, root, history, grants, elapsed>>

\* The primary key, and WHERE generation = ? AND revision = ?.
SourceIsAsRead(q) ==
    IF ereq[q].read = NoState THEN source = NoState
    ELSE source # NoState /\ source.gen = ereq[q].read.gen /\ source.rev = ereq[q].read.rev

WriteAdvance(q) ==
    /\ ereq[q].pc = "write"
    /\ LET next == ereq[q].next
           rev == IF ereq[q].read = NoState THEN 1 ELSE ereq[q].read.rev + 1
       IN IF SourceIsAsRead(q)
          THEN /\ source' = [gen |-> next.gen, what |-> next.what, kind |-> next.kind, at |-> next.at, rev |-> rev]
               /\ acceptedState' = acceptedState \cup {next} /\ Answer(q, "advanced")
          ELSE Answer(q, "concurrent") /\ UNCHANGED <<source, acceptedState>>
    /\ UNCHANGED <<root, history, grants, elapsed>>

-----------------------------------------------------------------------------
(***************************************************************************)
(* The trust root.                                                         *)
(***************************************************************************)

SaidOfRoot(s) == [key |-> s.key, gen |-> s.gen, floor |-> s.floor, status |-> s.status]

\* What an authorization names of a state: not its status and not its validity.
Named(s) == [key |-> s.key, gen |-> s.gen, floor |-> s.floor]

\* Governance authorizes a rotation of the root it sees to the generation that follows;
\* approvals and authority are checked there.
Authorize(next) ==
    /\ root # NoState /\ next.key # root.key /\ next.gen = root.gen + 1 /\ next.status = "ACTIVE" /\ Cardinality(grants) < MaxGrants
    /\ grants' = grants \cup {[prior |-> Named(root), next |-> Named(next)]}
    /\ UNCHANGED <<source, root, history, elapsed, ereq, acceptedState>>

ExpireGrant(g) ==
    /\ g \in grants \ elapsed /\ elapsed' = elapsed \cup {g}
    /\ UNCHANGED <<source, root, history, grants, ereq, acceptedState>>

\* validateEconomicTrustRootRotationAuthorization.
RotationAuthorized(cur, next, auth) ==
    auth # NoAuth /\ auth \notin elapsed /\ auth.prior = Named(cur) /\ auth.next = Named(next)

\* The checks of an advance to a higher generation.
RootMayMove(cur, next, auth) ==
    /\ next.gen = cur.gen + 1 /\ next.floor >= cur.floor
    /\ ~(cur.status = "REVOKED" /\ next.key = cur.key /\ next.status = "ACTIVE")
    /\ next.key # cur.key => RotationAuthorized(cur, next, auth)

BeginRootAdvance(q, next, auth) ==
    /\ InTurn(q)
    /\ LET write(cur) == ereq' = [ereq EXCEPT ![q] = [pc |-> "writeRoot", next |-> next, read |-> cur, auth |-> auth]]
       IN IF root = NoState THEN write(NoState)
          ELSE CASE next.gen = root.gen /\ SaidOfRoot(root) = next -> Answer(q, "replay")
                 [] RootMayMove(root, next, auth) -> write(root)
                 [] OTHER -> Answer(q, "refused")
    /\ UNCHANGED <<source, root, history, grants, elapsed, acceptedState>>

Genesis == <<>>
LastHash == IF history = <<>> THEN Genesis ELSE history[Len(history)].hash

\* economicTrustRootEventHash.
EventHash(e) == <<e.seq, e.gen, e.decision, e.state, e.auth, e.prev>>

\* Faulty variant of AppendTrustRootEvent: the policy changes of a root are not recorded.
AppendTrustRootEventRotations(state, decision, auth) ==
    IF decision = "ADVANCED_POLICY" THEN history
    ELSE LET e == [seq |-> Len(history) + 1, gen |-> state.gen, decision |-> decision, state |-> state, auth |-> auth,
                   prev |-> LastHash]
         IN Append(history, [seq |-> e.seq, gen |-> e.gen, decision |-> e.decision, state |-> e.state,
                             auth |-> e.auth, prev |-> e.prev, hash |-> EventHash(e)])

\* appendEconomicTrustRootEventTx; that the revision follows the sequence is in WriteRoot.
AppendTrustRootEvent(state, decision, auth) ==
    LET e == [seq |-> state.rev, gen |-> state.gen, decision |-> decision, state |-> state, auth |-> auth,
              prev |-> LastHash]
    IN Append(history, [seq |-> e.seq, gen |-> e.gen, decision |-> e.decision, state |-> e.state,
                        auth |-> e.auth, prev |-> e.prev, hash |-> EventHash(e)])

RootIsAsRead(q) ==
    IF ereq[q].read = NoState THEN root = NoState
    ELSE root # NoState /\ root.gen = ereq[q].read.gen /\ root.rev = ereq[q].read.rev

\* The write, and the event in the same transaction: it is refused when the revision does
\* not follow the last event.
WriteRoot(q) ==
    /\ ereq[q].pc = "writeRoot"
    /\ LET next == ereq[q].next
           cur == ereq[q].read
           state == [key |-> next.key, gen |-> next.gen, floor |-> next.floor, status |-> next.status,
                     rev |-> IF cur = NoState THEN 1 ELSE cur.rev + 1]
           decision == IF cur = NoState THEN "ADVANCED"
                       ELSE IF next.key = cur.key THEN "ADVANCED_POLICY" ELSE "ROTATED"
       IN IF RootIsAsRead(q) /\ state.rev = Len(history) + 1
          THEN /\ root' = state /\ Answer(q, "advanced")
               /\ history' = AppendTrustRootEvent(state, decision, IF decision = "ROTATED" THEN ereq[q].auth ELSE NoAuth)
          ELSE Answer(q, "concurrent") /\ UNCHANGED <<root, history>>
    /\ UNCHANGED <<source, grants, elapsed, acceptedState>>

\* ListEconomicSourceTrustRootEvents: the list is answered, or an error.
ListTrustRootEvents(events) ==
    \A i \in DOMAIN events :
        /\ events[i].seq = i
        /\ events[i].prev = IF i = 1 THEN Genesis ELSE events[i - 1].hash
        /\ events[i].hash = EventHash(events[i])
        /\ events[i].decision = "ROTATED" => events[i].auth # NoAuth

GenerationsNext == \E q \in ERequest : (\E s \in SourceState : BeginAdvance(q, s)) \/ WriteAdvance(q)

TrustRootsNext ==
    \/ \E q \in ERequest : (\E s \in RootState, a \in grants \cup {NoAuth} : BeginRootAdvance(q, s, a)) \/ WriteRoot(q)
    \/ \E s \in RootState : Authorize(s)
    \/ \E g \in grants : ExpireGrant(g)

GenerationsSpec == SourcesInit /\ [][GenerationsNext]_sourceVars
TrustRootsSpec == SourcesInit /\ [][TrustRootsNext]_sourceVars

-----------------------------------------------------------------------------
\* A generation of a source has one content: of all the captures that were answered as
\* taken in, no two of a generation differ, and a later one is not older.
GenerationHasOneContent ==
    \A a, b \in acceptedState : /\ a.gen = b.gen => a = b
                           /\ a.gen < b.gen => a.at <= b.at /\ a.kind = b.kind

\* The history is the chain that ListEconomicSourceTrustRootEvents accepts, it has an event
\* for every change of the root, and ends with the root as it is.
HistoryIsChain ==
    /\ ListTrustRootEvents(history)
    /\ \A i \in DOMAIN history : (history[i].decision = "ROTATED") = (history[i].auth # NoAuth)
    /\ IF root = NoState THEN history = <<>> ELSE history # <<>> /\ history[Len(history)].state = root

\* An authorization serves one rotation, the one it was given for.
AuthorizationIsUsedOnce ==
    \A i, j \in DOMAIN history :
        history[i].auth # NoAuth =>
            /\ history[i].auth.next = Named(history[i].state) /\ history[i].auth.prior = Named(history[i - 1].state)
            /\ i # j => history[i].auth # history[j].auth

\* A root that was revoked is not active again under its key unless another root was
\* authorized in between; its floor never falls, and no generation is left out.
RevokedRootIsNotRevived ==
    \A i \in DOMAIN history : i > 1 =>
        /\ history[i].gen = history[i - 1].gen + 1
        /\ history[i].state.floor >= history[i - 1].state.floor
        /\ history[i - 1].state.status = "REVOKED" /\ history[i].state.status = "ACTIVE"
             => history[i].decision = "ROTATED"

\* However the advances race: the history is the chain its listing accepts, an authorization
\* served one rotation of the root it was given against, and no revoked root came back.
RotationsAreLawful == HistoryIsChain /\ AuthorizationIsUsedOnce /\ RevokedRootIsNotRevived

=============================================================================
