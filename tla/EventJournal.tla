---------------------------- MODULE EventJournal ----------------------------
(***************************************************************************)
(* The durable event journal of the Works and what is read from it:        *)
(*   - the mutation wrappers that run a canonical mutation and then append *)
(*     its event (services/work/store/events.go, events_journal.go);       *)
(*   - the resumable stream and the cursor listing of /v1/works/{id}/events*)
(*     (services/api/work_events.go);                                      *)
(*   - the journal table of the detail page (webui_timeline.go);           *)
(*   - the snapshot stream of /v1/ui/events (webui_events.go).             *)
(*                                                                         *)
(* The mutation and the append are two statements: other requests run      *)
(* between them, and a cancelled request or a stopped process leaves the   *)
(* first without the second.  The sequence of a row is its place in the    *)
(* journal: the only writer connection allocates them in commit order and  *)
(* no row is ever deleted.  The payload is the state the event reports.    *)
(***************************************************************************)
EXTENDS WorkGraph, Naturals, SequencesExt

CONSTANTS JWork,          \* the Works, all of them missions
          JTarget,        \* the states the callers move a Work to
          Caller,         \* requests that mutate a Work, numbered as they arrive
          Reader,         \* clients that follow the events of a Work
          NoState,        \* an event that carries no state
          PollLimit,      \* ssePollLimit
          TimelineLimit,  \* uiJournalLimit
          UiLimit,        \* the rows of a snapshot
          MaxBreaks       \* bound: broken connections

ASSUME JournalAssumption ==
    /\ JTarget \subseteq State /\ NoState \notin State
    /\ Caller \subseteq Nat
    /\ {PollLimit, TimelineLimit, UiLimit} \subseteq Nat \ {0}
    /\ MaxBreaks \in Nat

VARIABLES jstate,   \* works.state
          recent,   \* the Works, the most recently updated first
          moved,    \* ghost: the mutations that committed, in order
          journal,  \* work_events
          caller,   \* the mutating requests
          reader,   \* the followers: the cursor of the connection, what the client has
          breaks,   \* ghost: connections broken so far
          ui        \* the snapshot stream: its last snapshot, and the rows the page shows

journalVars == <<jstate, recent, moved, journal, caller, reader, breaks, ui>>

\* The type of the event a wrapper emits.
EventType(kind, to) ==
    CASE kind = "suspend" -> (IF to = "WAITING_HUMAN" THEN "work.waiting_human" ELSE "work.suspended")
      [] kind = "resume"  -> "work.resumed"
      [] kind = "record"  -> "recorded"
      [] OTHER            -> "work.state.changed"

\* The canonical mutation accepts the state it finds: ResumeFromCheckpoint a suspended
\* one, and the appends of attempts, evidence and artifacts any.
MayMove(kind, from, to) ==
    CASE kind = "resume" -> from \in {"WAITING_HUMAN", "SUSPENDED"}
      [] kind = "record" -> TRUE
      [] OTHER           -> ValidateTransition(from, to, TRUE)

NewCaller == [pc |-> "new", kind |-> "state", work |-> CHOOSE w \in JWork : TRUE,
              from |-> NoState, to |-> NoState]

JournalInit ==
    /\ jstate = [w \in JWork |-> "RUNNING"]
    /\ recent = SetToSeq(JWork)
    /\ moved = <<>>
    /\ journal = <<>>
    /\ caller = [c \in Caller |-> NewCaller]
    /\ reader = [r \in Reader |-> [pc |-> "away", work |-> CHOOSE w \in JWork : TRUE,
                                   cursor |-> 0, got |-> <<>>]]
    /\ breaks = 0
    /\ ui = [open |-> FALSE, first |-> TRUE, prev |-> <<>>, view |-> <<>>]

-----------------------------------------------------------------------------
(***************************************************************************)
(* The wrappers.                                                           *)
(***************************************************************************)

CallerUnchanged == UNCHANGED <<reader, breaks, ui>>

\* The request ends without its effect: nothing of it is kept.
EndCaller(c, pc) == caller' = [caller EXCEPT ![c] = [NewCaller EXCEPT !.pc = pc]]

\* A wrapper begins; UpdateStateEventful first reads the state it will report as "from".
BeginEventful(c, kind, w, to) ==
    /\ caller[c].pc = "new" /\ \A b \in Caller : b < c => caller[b].pc # "new"
    /\ CASE kind = "record"  -> to = NoState
         [] kind = "suspend" -> to \in {"WAITING_HUMAN", "SUSPENDED"}
         [] kind = "resume"  -> to = "RUNNING"
         [] OTHER            -> to \in State
    /\ caller' = [caller EXCEPT ![c] = [pc |-> "mutate", kind |-> kind, work |-> w, to |-> to,
                                        from |-> IF kind = "state" THEN jstate[w] ELSE NoState]]
    /\ UNCHANGED <<jstate, recent, moved, journal>> /\ CallerUnchanged

\* What works.state becomes: an append leaves it alone.
NextState(k) == IF k.to = NoState THEN jstate[k.work] ELSE k.to

\* The canonical mutation, one transaction; a refused one ends the request.
Mutate(c) ==
    /\ caller[c].pc = "mutate"
    /\ LET w == caller[c].work  to == caller[c].to
       IN IF MayMove(caller[c].kind, jstate[w], to)
          THEN /\ jstate' = [jstate EXCEPT ![w] = NextState(caller[c])]
               /\ moved' = Append(moved, <<w, to>>)
               /\ recent' = <<w>> \o Remove(recent, w)
               /\ caller' = [caller EXCEPT ![c].pc = "append"]
          ELSE /\ EndCaller(c, "refused")
               /\ UNCHANGED <<jstate, recent, moved>>
    /\ UNCHANGED journal /\ CallerUnchanged

\* AppendWorkEvent: one INSERT; the row gets the next sequence.
AppendWorkEvent(c) ==
    journal' = Append(journal, [work |-> caller[c].work, from |-> caller[c].from, to |-> caller[c].to,
                                type |-> EventType(caller[c].kind, caller[c].to), by |-> c])

\* emitJournalEvent: appended and answered, or the failure is answered as
\* ErrEventEmission.
EmitJournalEvent(c) ==
    /\ caller[c].pc = "append"
    /\ \/ AppendWorkEvent(c) /\ caller' = [caller EXCEPT ![c].pc = "ok"]
       \/ EndCaller(c, "emissionFailed") /\ UNCHANGED journal
    /\ UNCHANGED <<jstate, recent, moved>> /\ CallerUnchanged

\* The process stops under a request.
StopCaller(c) ==
    /\ caller[c].pc \in {"mutate", "append"}
    /\ EndCaller(c, "gone")
    /\ UNCHANGED <<jstate, recent, moved, journal>> /\ CallerUnchanged

-----------------------------------------------------------------------------
(***************************************************************************)
(* The stream of a Work.                                                   *)
(***************************************************************************)

\* The sequences of the rows of w, ascending.
SequencesOf(w) == SelectSeq([i \in 1..Len(journal) |-> i], LAMBDA i : journal[i].work = w)

\* Faulty variant of ListWorkEventsAfter: the cursor's own row is listed again.
ListWorkEventsFrom(w, after, limit) ==
    LET rows == SelectSeq(SequencesOf(w), LAMBDA i : i >= after)
    IN SubSeq(rows, 1, IF Len(rows) < limit THEN Len(rows) ELSE limit)

\* ListWorkEventsAfter: the first rows past the cursor.
ListWorkEventsAfter(w, after, limit) ==
    LET rows == SelectSeq(SequencesOf(w), LAMBDA i : i > after)
    IN SubSeq(rows, 1, IF Len(rows) < limit THEN Len(rows) ELSE limit)

\* OldestWorkEventSequence and LatestWorkEventSequence: 0 while there is no row.
OldestWorkEventSequence(w) == IF SequencesOf(w) = <<>> THEN 0 ELSE Head(SequencesOf(w))
LatestWorkEventSequence(w) == IF SequencesOf(w) = <<>> THEN 0 ELSE Last(SequencesOf(w))

ReaderUnchanged == UNCHANGED <<jstate, recent, moved, journal, caller, ui>>

\* Faulty variant of Connect: the new connection starts at the head of the journal.
ConnectAtHead(r) ==
    /\ reader[r].pc = "away"
    /\ reader' = [reader EXCEPT ![r].pc = "streaming",
                                ![r].cursor = LatestWorkEventSequence(reader[r].work)]
    /\ UNCHANGED breaks /\ ReaderUnchanged

\* The client connects.  The id of the last event it has comes as Last-Event-ID; a
\* cursor older than the oldest row is answered with a reset, and the client starts
\* over from a fresh snapshot.
Connect(r) ==
    /\ reader[r].pc = "away"
    /\ LET got == reader[r].got
           cursor == IF got = <<>> THEN 0 ELSE Last(got)
       IN reader' = [reader EXCEPT
              ![r] = IF got # <<>> /\ cursor < OldestWorkEventSequence(@.work)
                     THEN [@ EXCEPT !.got = <<>>]
                     ELSE [@ EXCEPT !.pc = "streaming", !.cursor = cursor]]
    /\ UNCHANGED breaks /\ ReaderUnchanged

\* One round of the stream: a batch past the cursor is written out and the cursor
\* moves with it.
Poll(r) ==
    /\ reader[r].pc = "streaming"
    /\ LET rows == ListWorkEventsAfter(reader[r].work, reader[r].cursor, PollLimit)
       IN /\ rows # <<>>
          /\ reader' = [reader EXCEPT ![r].cursor = Last(rows), ![r].got = @ \o rows]
    /\ UNCHANGED breaks /\ ReaderUnchanged

\* The connection breaks while a batch is written: the client has a part of it.
BreakConnection(r) ==
    /\ reader[r].pc = "streaming" /\ breaks < MaxBreaks
    /\ LET rows == ListWorkEventsAfter(reader[r].work, reader[r].cursor, PollLimit)
       IN \E k \in 0..Len(rows) :
            reader' = [reader EXCEPT ![r].pc = "away", ![r].got = @ \o SubSeq(rows, 1, k)]
    /\ breaks' = breaks + 1
    /\ ReaderUnchanged

\* serveJournalList: the listing of a client that keeps the cursor itself.
ServeJournalList(r, limit) ==
    /\ reader[r].pc = "away"
    /\ LET got == reader[r].got
           rows == ListWorkEventsAfter(reader[r].work, IF got = <<>> THEN 0 ELSE Last(got), limit)
       IN reader' = [reader EXCEPT ![r].got = @ \o rows]
    /\ UNCHANGED breaks /\ ReaderUnchanged

-----------------------------------------------------------------------------
(***************************************************************************)
(* The journal table of the detail page, and the snapshot stream.          *)
(***************************************************************************)

\* journalRows.
JournalRows(w) ==
    LET head == LatestWorkEventSequence(w)
        after == IF head > TimelineLimit THEN head - TimelineLimit ELSE 0
    IN ListWorkEventsAfter(w, after, TimelineLimit)

\* ListWorkSummaries: the Works updated last, with their state.
Summaries ==
    LET top == SubSeq(recent, 1, IF Len(recent) < UiLimit THEN Len(recent) ELSE UiLimit)
    IN [w \in ToSet(top) |-> jstate[w]]

\* takeSnapshot: a query that fails or takes too long leaves the list empty.
TakeSnapshot(ok) == IF ok THEN Summaries ELSE [w \in {} |-> NoState]

UiUnchanged == UNCHANGED <<jstate, recent, moved, journal, caller, reader>>

\* The page opens the stream; after a broken connection it keeps the rows it shows.
OpenUi ==
    /\ ~ui.open
    /\ ui' = [ui EXCEPT !.open = TRUE, !.first = TRUE, !.prev = TakeSnapshot(FALSE)]
    /\ UNCHANGED breaks /\ UiUnchanged

\* A tick of uiEvents: the rows that changed since the last snapshot are sent, and
\* the ids that left it as DELETED.
UiTick(ok) ==
    /\ ui.open
    /\ LET cur == TakeSnapshot(ok)
           changed == IF ui.first THEN DOMAIN cur
                      ELSE {w \in DOMAIN cur : w \notin DOMAIN ui.prev \/ ui.prev[w] # cur[w]}
           removed == IF ui.first THEN {} ELSE DOMAIN ui.prev \ DOMAIN cur
       IN ui' = [ui EXCEPT !.first = FALSE, !.prev = cur,
                           !.view = [w \in (DOMAIN @ \cup changed) \ removed |->
                                       IF w \in changed THEN cur[w] ELSE @[w]]]
    /\ UNCHANGED breaks /\ UiUnchanged

BreakUi ==
    /\ ui.open /\ breaks < MaxBreaks
    /\ ui' = [ui EXCEPT !.open = FALSE]
    /\ breaks' = breaks + 1
    /\ UiUnchanged

-----------------------------------------------------------------------------
CallerStep(c) == Mutate(c) \/ EmitJournalEvent(c) \/ StopCaller(c)

WrapperKind == {"state", "suspend", "resume", "record"}

BeginSome(c, kinds) ==
    \E kind \in kinds, w \in JWork, to \in JTarget \cup {NoState} : BeginEventful(c, kind, w, to)

\* The followers of the events, with wrappers of the given kinds.
JournalNext(kinds) ==
    \/ \E c \in Caller : BeginSome(c, kinds) \/ CallerStep(c)
    \/ \E r \in Reader :
         Connect(r) \/ Poll(r) \/ BreakConnection(r) \/ ServeJournalList(r, 1)

\* The page, with the given wrappers, of every kind.
PageNext(callers) ==
    \/ OpenUi \/ BreakUi \/ \E ok \in BOOLEAN : UiTick(ok)
    \/ \E c \in callers : BeginSome(c, WrapperKind) \/ CallerStep(c)

-----------------------------------------------------------------------------
\* "A dropped journal row must never look like success": a wrapper that answers
\* without an error has its row in the journal.
NoSilentDrop ==
    \A c \in Caller :
        caller[c].pc = "ok" =>
            \E i \in 1..Len(journal) :
                journal[i].by = c /\ journal[i].work = caller[c].work /\ journal[i].to = caller[c].to

\* What a client has collected over all its connections, listings and broken
\* batches is a prefix of the rows of its Work: nothing is skipped, repeated or
\* reordered, however the writers interleave.
StreamIsPrefix == \A r \in Reader : IsPrefix(reader[r].got, SequencesOf(reader[r].work))

\* The journal table of the detail page ends with the newest row and leaves no row out
\* between the ones it shows.
TimelineIsSuffix ==
    \A w \in JWork :
        /\ IsSuffix(JournalRows(w), SequencesOf(w))
        /\ SequencesOf(w) # <<>> => JournalRows(w) # <<>>

\* No row is lost on its way to a reader: an answered mutation has its row, and neither the
\* stream nor the table of the detail page leaves one out.
NoRowIsSkipped == NoSilentDrop /\ StreamIsPrefix /\ TimelineIsSuffix

\* Every row of a Work reaches the clients that follow it, although connections break.
EveryEventArrives ==
    \A r \in Reader, n \in Caller :
        reader[r].pc = "streaming" /\ Len(SequencesOf(reader[r].work)) >= n
            ~> Len(reader[r].got) >= n

(***************************************************************************)
(* Not so (the README discusses them): the rows of a Work are in the order *)
(* of its mutations, and each names as "from" the state the one before it  *)
(* led to.                                                                 *)
(***************************************************************************)
=============================================================================
