----------------------------- MODULE Publication -----------------------------
(***************************************************************************)
(* What GitHub is told of a commit (services/publisher): the reconciler    *)
(* that takes lifecycle events of one Work, late, repeated and out of      *)
(* order, while the branch head moves, and the hook that posts the outcome *)
(* of a Work that has ended (publisher_hook.go) through whichever          *)
(* publisher the environment configures.  GitHub keeps the latest status   *)
(* per commit and context.                                                 *)
(***************************************************************************)
EXTENDS Naturals, Sequences

CONSTANTS
    Commit,        \* head commits of the branch
    MaxAttempt,    \* bound: attempts of the Work
    MaxHeads,      \* bound: moves of the head
    EndedWork,     \* Works of one commit that end, for the hook
    NoStatus

VARIABLES
    head,          \* the branch head
    heads,         \* how often it moved
    emitted,       \* events the Work has sent: [attempt, sha, state, at]
    running,       \* the last event emitted, which the next one follows
    accepted,      \* the reconciler's current event, or NoStatus
    trail,         \* ghost: the events it accepted, in order
    status,        \* GitHub: per commit the conclusion, and ghost: the attempt behind it
    env,           \* the publisher's environment: token, app
    outcome,       \* per Work of the hook: how it ended, or NoStatus
    posting,       \* publish goroutines in flight: [work, conclusion]
    workStatus     \* GitHub: the conclusion on the Works' common commit, and ghost: whose it is

publicationVars == <<head, heads, emitted, running, accepted, trail, status, env, outcome, posting, workStatus>>

Terminal == {"success", "failure", "cancelled"}
LifecycleState == {"queued", "running"} \cup Terminal

\* The events of a Work, what GitHub keeps of one per commit, and a publication of the hook.
LifecycleEvent == [attempt : Nat, sha : Commit, state : LifecycleState, at : Nat]
CommitStatus == [conclusion : {"pending", "success", "failure"}, attempt : Nat]
WorkOutcome == [work : EndedWork, conclusion : {"success", "failure"}]

ASSUME PublicationAssumption ==
    /\ NoStatus \notin LifecycleEvent /\ NoStatus \notin CommitStatus /\ NoStatus \notin WorkOutcome
    /\ NoStatus \notin {"SUCCEEDED", "FAILED", "CANCELLED"}
    /\ MaxAttempt \in Nat /\ MaxHeads \in Nat

LifecycleCanTransition(from, to) ==
    \/ from = "queued" /\ to \in {"running", "failure", "cancelled"}
    \/ from = "running" /\ to \in Terminal

GitHubStatusState(state) ==
    IF state = "success" THEN "success" ELSE IF state \in Terminal THEN "failure" ELSE "pending"

\* Faulty variant of Older: a second event of the same attempt is late.
OlderOrSame(current, next) == next.attempt <= current.attempt \/ next.at < current.at

\* An event of an earlier attempt, or observed before the accepted one.
Older(current, next) == next.attempt < current.attempt \/ next.at < current.at

\* ReconcileStatus: what to do with an event.
ReconcileStatus(current, next, currentHead) ==
    CASE next.sha # currentHead -> "stale"
      [] next.sha = currentHead /\ current = NoStatus -> IF next.state = "queued" THEN "apply" ELSE "error"
      [] next.sha = currentHead /\ current # NoStatus ->
            IF Older(current, next) THEN "stale"
            ELSE IF next.attempt > current.attempt THEN IF next.state = "queued" THEN "apply" ELSE "error"
            ELSE IF next.state = current.state THEN "duplicate"
            ELSE IF LifecycleCanTransition(current.state, next.state) THEN "apply" ELSE "error"

-----------------------------------------------------------------------------
(* The configured publisher. *)

\* buildPublisher of works-api: the app when both its settings are there, else the token.
buildPublisher(e) ==
    IF e.app \in {"set", "malformed"} THEN IF e.app = "malformed" THEN "none" ELSE "check-run"
    ELSE IF e.token THEN "status" ELSE "none"

\* selectPublisher of works-publisher without --kind: a malformed app falls back to the token.
selectPublisher(e) ==
    IF e.app = "set" THEN "check-run" ELSE IF e.token THEN "status" ELSE "none"

PublicationInit ==
    /\ head \in Commit /\ heads = 0
    /\ emitted = {} /\ running = NoStatus /\ accepted = NoStatus /\ trail = <<>>
    /\ status = [c \in Commit |-> NoStatus]
    /\ env \in [token : BOOLEAN, app : {"unset", "set", "malformed"}]
    /\ outcome = [w \in EndedWork |-> NoStatus]
    /\ posting = {} /\ workStatus = NoStatus

HookKept == UNCHANGED <<env, outcome, posting, workStatus>>

Emit(e) ==
    /\ emitted' = emitted \cup {e}
    /\ running' = e
    /\ UNCHANGED <<head, heads, accepted, trail, status>> /\ HookKept

\* The Work goes on within its attempt.
MoveRun(to) ==
    /\ running # NoStatus
    /\ LifecycleCanTransition(running.state, to)
    /\ Emit([running EXCEPT !.state = to, !.at = @ + 1])

\* A retry of an ended attempt, or a run for a new head, is a new attempt.
BeginAttempt ==
    /\ IF running = NoStatus THEN TRUE
       ELSE (running.state \in Terminal \/ running.sha # head) /\ running.attempt < MaxAttempt
    /\ Emit([attempt |-> IF running = NoStatus THEN 1 ELSE running.attempt + 1, sha |-> head, state |-> "queued",
             at |-> IF running = NoStatus THEN 1 ELSE running.at + 1])

Push(c) ==
    /\ heads < MaxHeads /\ c # head
    /\ head' = c /\ heads' = heads + 1
    /\ UNCHANGED <<emitted, running, accepted, trail, status>> /\ HookKept

\* An event arrives, perhaps again and perhaps late; what is applied is posted (PublishLifecycle).
PublishLifecycle(e) ==
    /\ ReconcileStatus(accepted, e, head) = "apply"
    /\ accepted' = e
    /\ trail' = Append(trail, e)
    /\ status' = [status EXCEPT ![e.sha] = [conclusion |-> GitHubStatusState(e.state), attempt |-> e.attempt]]
    /\ UNCHANGED <<head, heads, emitted, running>> /\ HookKept

-----------------------------------------------------------------------------
(* The hook. *)

ReconcilerKept == UNCHANGED <<head, heads, emitted, running, accepted, trail, status, env>>

Conclusion(state) == IF state = "SUCCEEDED" THEN "success" ELSE "failure"

\* A completion ends a Work, or finds it ended already: its outcome goes out in a goroutine.
maybePublishOnTerminal(w, state) ==
    /\ outcome[w] \in {NoStatus, state}
    /\ outcome' = [outcome EXCEPT ![w] = state]
    /\ posting' = IF buildPublisher(env) = "none" THEN posting
                  ELSE posting \cup {[work |-> w, conclusion |-> Conclusion(state)]}
    /\ ReconcilerKept /\ UNCHANGED workStatus

\* The goroutine's one POST, which may fail; there is no retry.
Publish(p, delivered) ==
    /\ posting' = posting \ {p}
    /\ workStatus' = IF delivered THEN p ELSE workStatus
    /\ ReconcilerKept /\ UNCHANGED outcome

\* An operator publishes the outcome of an ended Work again with works-publisher.
Republish(w) ==
    /\ outcome[w] # NoStatus
    /\ selectPublisher(env) # "none"
    /\ workStatus' = [work |-> w, conclusion |-> IF outcome[w] = "SUCCEEDED" THEN "success" ELSE "failure"]
    /\ ReconcilerKept /\ UNCHANGED <<outcome, posting>>

ReconcilerNext ==
    \/ \E to \in LifecycleState : MoveRun(to)
    \/ BeginAttempt
    \/ \E c \in Commit : Push(c)
    \/ \E e \in emitted : PublishLifecycle(e)

HookNext ==
    \/ \E w \in EndedWork : \/ \E s \in {"SUCCEEDED", "FAILED", "CANCELLED"} : maybePublishOnTerminal(w, s)
                            \/ Republish(w)
    \/ \E p \in posting, delivered \in BOOLEAN : Publish(p, delivered)

ReconcilerSpec == PublicationInit /\ [][ReconcilerNext]_publicationVars
HookSpec == PublicationInit /\ [][HookNext]_publicationVars

-----------------------------------------------------------------------------
(* What a commit's status is worth. *)

\* The accepted events of one attempt are a lawful course from queued on, in its order,
\* and attempts are accepted in theirs: nothing late or repeated gets in between.
TrailIsLawful ==
    \A i \in 1..Len(trail) :
        LET e == trail[i]
        IN  IF i = 1 \/ trail[IF i = 1 THEN 1 ELSE i - 1].attempt < e.attempt THEN e.state = "queued"
            ELSE /\ trail[i - 1].attempt = e.attempt
                 /\ \/ trail[i - 1].state = "queued" /\ e.state \in {"running", "failure", "cancelled"}
                    \/ trail[i - 1].state = "running" /\ e.state \in Terminal

\* A conclusion on a commit is only replaced by a later attempt.
ConclusionIsFinal ==
    [][\A c \in Commit :
          status[c] # NoStatus /\ status[c].conclusion # "pending" /\ status'[c] # status[c]
              => status'[c].attempt > status[c].attempt]_publicationVars

\* A commit that shows success had a Work that succeeded on it.
SuccessIsEarned ==
    workStatus # NoStatus /\ workStatus.conclusion = "success" => outcome[workStatus.work] = "SUCCEEDED"

\* Once no event that was sent would be applied any more, the head shows the state of the attempt that runs
\* for it: of the events that were late, repeated or dropped as stale none was needed.
HeadIsReported ==
    running # NoStatus /\ running.sha = head /\ (\A e \in emitted : ReconcileStatus(accepted, e, head) # "apply")
        => status[head] = [conclusion |-> GitHubStatusState(running.state), attempt |-> running.attempt]

=============================================================================
