--------------------------- MODULE SourcePromotion ---------------------------
(***************************************************************************)
(* A candidate becomes a pull request (packages/promotion, services/       *)
(* promotion): evidence and a human decision are verified, then a staging  *)
(* branch and a pull request are ensured on GitHub.  The branch is named   *)
(* after the idempotency key and the fingerprint of the content; a POST    *)
(* whose answer is lost is settled by listing again.                       *)
(*                                                                         *)
(* All requests here use one key.  Content stands for the candidate, its   *)
(* evidence and its target, and so for the fingerprint.  GitHub is         *)
(* external: a POST takes effect or not, at once or late, and is answered  *)
(* or not; what exists is not made twice; a pull request outlives its      *)
(* branch, closed, and is still listed.                                    *)
(***************************************************************************)
EXTENDS Naturals, Sequences, FiniteSets

CONSTANTS PContent, PRequest, Decision

ASSUME PromotionAssumption == PRequest \subseteq Nat

VARIABLES branches,   \* GitHub: the contents that have a staging branch
          pulls,      \* GitHub: the pull requests, [content, open]
          deleted,    \* ghost: the contents whose branch was deleted
          late,       \* GitHub: POSTs that were given up on and have not happened yet
          decision,   \* the decision records: the content they bind, and their state
          decided,    \* ghost: the contents a human ever decided for
          preq        \* the requests; "answered" is a ghost: the contents proposed when it came

promotionVars == <<branches, pulls, deleted, late, decision, decided, preq>>

PromotionInit ==
    /\ branches = {} /\ pulls = [c \in PContent |-> <<>>] /\ deleted = {} /\ late = {}
    /\ decision \in [Decision -> [content : PContent, state : {"draft"}]]
    /\ decided = {}
    /\ \E c \in PContent : preq = [q \in PRequest |-> [pc |-> "new", content |-> c, answered |-> {}]]

PStep(q, pc) == preq' = [preq EXCEPT ![q].pc = pc]

\* A human stamps a decision, and may withdraw it.
StampDecision(d) ==
    /\ decision[d].state = "draft"
    /\ decision' = [decision EXCEPT ![d].state = "human_stamped"]
    /\ decided' = decided \cup {decision[d].content}
    /\ UNCHANGED <<branches, pulls, deleted, late, preq>>

WithdrawDecision(d) ==
    /\ decision[d].state = "human_stamped"
    /\ decision' = [decision EXCEPT ![d].state = "tombstone"]
    /\ UNCHANGED <<branches, pulls, deleted, late, decided, preq>>

\* A reviewer closes a pull request or merges it.
ClosePull(c) ==
    /\ \E i \in DOMAIN pulls[c] : pulls[c][i] = "open"
    /\ pulls' = [pulls EXCEPT ![c] = [i \in DOMAIN @ |-> "closed"]]
    /\ UNCHANGED <<branches, deleted, late, decision, decided, preq>>

\* The branch is deleted, as is usual after a merge; what is open of it is closed with it.
DeleteBranch(c) ==
    /\ c \in branches \ deleted
    /\ branches' = branches \ {c} /\ deleted' = deleted \cup {c}
    /\ pulls' = [pulls EXCEPT ![c] = [i \in DOMAIN @ |-> "closed"]]
    /\ UNCHANGED <<late, decision, decided, preq>>

\* VerifyPromotionDecision: stamped by a human, alive, and for this very content.
VerifyPromotionDecision(d, c) == decision[d].state = "human_stamped" /\ decision[d].content = c

\* Service.Propose: the evidence verifies, the decision authorises (or the request is refused).
Propose(q, c, d) ==
    /\ preq[q].pc = "new" /\ \A r \in PRequest : r < q => preq[r].pc # "new"
    /\ preq' = [preq EXCEPT ![q] =
                  [pc |-> IF VerifyPromotionDecision(d, c) THEN "refs" ELSE "failed", content |-> c,
                   answered |-> {preq[r].content : r \in {x \in PRequest : preq[x].pc = "proposed"}}]]
    /\ UNCHANGED <<branches, pulls, deleted, late, decision, decided>>

\* matchingRefs and classifyPromotionRefs: the branch itself wins over another one of the key.
ClassifyRefs(c) ==
    CASE c \in branches -> "exact"
      [] c \notin branches /\ branches # {} -> "conflict"
      [] OTHER -> "none"

\* ensureStagingRef, the first listing; it may fail, and a conflict fails the request.
ListRefs(q) ==
    /\ preq[q].pc = "refs"
    /\ \/ PStep(q, "failed")
       \/ ClassifyRefs(preq[q].content) = "exact" /\ PStep(q, "pulls")
       \/ ClassifyRefs(preq[q].content) = "none" /\ PStep(q, "postRef")
    /\ UNCHANGED <<branches, pulls, deleted, late, decision, decided>>

\* ensureStagingRef, the POST: done and answered; done or already there and not answered
\* well; given up on, to happen late or never; or refused, or done with an answer that
\* cannot be read, which ends the request.
PostRef(q) ==
    /\ preq[q].pc = "postRef"
    /\ LET c == preq[q].content
       IN \/ c \notin branches /\ branches' = branches \cup {c} /\ PStep(q, "pulls") /\ UNCHANGED late
          \/ branches' = branches \cup {c} /\ PStep(q, "refsAgain") /\ UNCHANGED late
          \/ \E more \in {{}, {<<"ref", c>>}} :
               late' = late \cup more /\ PStep(q, "refsAgain") /\ UNCHANGED branches
          \/ branches' \in {branches, branches \cup {c}} /\ PStep(q, "failed") /\ UNCHANGED late
    /\ UNCHANGED <<pulls, deleted, decision, decided>>

\* ensureStagingRef, the listing that settles it.
ListRefsAgain(q) ==
    /\ preq[q].pc = "refsAgain"
    /\ \/ PStep(q, "failed")
       \/ ClassifyRefs(preq[q].content) = "exact" /\ PStep(q, "pulls")
    /\ UNCHANGED <<branches, pulls, deleted, late, decision, decided>>

\* Faulty variant of Listed: state=open.
ListedOpen(c) == \E i \in DOMAIN pulls[c] : pulls[c][i] = "open"

\* listPulls and classifyPromotionPulls: of the branch, in any state.  The marker in the
\* body holds what the branch name is a hash of.
Listed(c) == pulls[c] # <<>>

\* ensurePullRequest, the first listing.
ListPulls(q) ==
    /\ preq[q].pc = "pulls"
    /\ PStep(q, "failed") \/ PStep(q, IF Listed(preq[q].content) THEN "proposed" ELSE "postPull")
    /\ UNCHANGED <<branches, pulls, deleted, late, decision, decided>>

\* GitHub: an open pull request of the branch is not opened twice, and none without the branch.
Opened(c) ==
    IF c \notin branches \/ \E i \in DOMAIN pulls[c] : pulls[c][i] = "open" THEN pulls
    ELSE [pulls EXCEPT ![c] = Append(@, "open")]

\* ensurePullRequest, the POST.
PostPull(q) ==
    /\ preq[q].pc = "postPull"
    /\ LET c == preq[q].content
       IN \/ Opened(c) # pulls /\ pulls' = Opened(c) /\ PStep(q, "proposed") /\ UNCHANGED late
          \/ pulls' = Opened(c) /\ PStep(q, "pullsAgain") /\ UNCHANGED late
          \/ \E more \in {{}, {<<"pull", c>>}} :
               late' = late \cup more /\ PStep(q, "pullsAgain") /\ UNCHANGED pulls
          \/ pulls' \in {pulls, Opened(c)} /\ PStep(q, "failed") /\ UNCHANGED late
    /\ UNCHANGED <<branches, deleted, decision, decided>>

\* ensurePullRequest, the listing that settles it.
ListPullsAgain(q) ==
    /\ preq[q].pc = "pullsAgain"
    /\ PStep(q, "failed") \/ (Listed(preq[q].content) /\ PStep(q, "proposed"))
    /\ UNCHANGED <<branches, pulls, deleted, late, decision, decided>>

\* GitHub: a POST that was given up on happens after all.
LateEffect(kind, c) ==
    /\ <<kind, c>> \in late /\ late' = late \ {<<kind, c>>}
    /\ IF kind = "ref" THEN branches' = branches \cup {c} /\ UNCHANGED pulls
       ELSE pulls' = Opened(c) /\ UNCHANGED branches
    /\ UNCHANGED <<deleted, decision, decided, preq>>

PromotionNext ==
    \/ \E d \in Decision : StampDecision(d) \/ WithdrawDecision(d)
    \/ \E c \in PContent : ClosePull(c) \/ DeleteBranch(c) \/ LateEffect("ref", c) \/ LateEffect("pull", c)
    \/ \E q \in PRequest :
         \/ \E c \in PContent, d \in Decision : Propose(q, c, d)
         \/ ListRefs(q) \/ PostRef(q) \/ ListRefsAgain(q)
         \/ ListPulls(q) \/ PostPull(q) \/ ListPullsAgain(q)

PromotionSpec == PromotionInit /\ [][PromotionNext]_promotionVars

-----------------------------------------------------------------------------
\* A pull request exists for a content a human decided for only, and an open one has its
\* branch, whatever was lost, retried, deleted or happened late.
PullIsDecided ==
    \A c \in PContent :
        /\ pulls[c] # <<>> => c \in decided
        /\ \A i \in DOMAIN pulls[c] : pulls[c][i] = "open" => c \in branches

\* A repetition of a request that was answered finds its pull request, open or closed, and
\* opens none; and neither it nor a request for another content makes a branch under the
\* key, unless the branches of all that was answered have been deleted: then the key is free.
RetryOpensNothing ==
    \A q \in PRequest :
        /\ preq[q].content \in preq[q].answered => preq[q].pc # "postPull"
        /\ preq[q].pc = "postRef" => preq[q].answered \subseteq deleted

(***************************************************************************)
(* Not so (the README discusses it): one key has one branch.  Two requests *)
(* that list before either posts both find the key free.                   *)
(***************************************************************************)
=============================================================================
