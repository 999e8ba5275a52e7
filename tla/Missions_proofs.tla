-------------------------- MODULE Missions_proofs ---------------------------
(***************************************************************************)
(* Proofs about missions, for any number of requests, identities, leases,  *)
(* contexts, runners and contracts: the acceptances of dispatches and who  *)
(* may verify them, and how a golden mission that crashed is finished      *)
(* without applying its effect again. The two share no variable; each has  *)
(* its own inductive invariant.                                            *)
(***************************************************************************)
EXTENDS DispatchSeal, GoldenMission, TLAPS

-----------------------------------------------------------------------------
(* Facts about sequences. *)

\* Sequences are functions on an interval.
LEMMA SeqDef ==
    ASSUME NEW S
    PROVE  Seq(S) = UNION {[1..n -> S] : n \in Nat}
  OBVIOUS

\* A sequence is a function on 1 to its length.
LEMMA LenProperties ==
    ASSUME NEW S, NEW seq \in Seq(S)
    PROVE  Len(seq) \in Nat /\ seq \in [1..Len(seq) -> S] /\ DOMAIN seq = 1..Len(seq)
  OBVIOUS

-----------------------------------------------------------------------------
(* Dispatch: an identity is sealed once, and everybody is answered with the seal. *)

\* The subject that a verdict about acceptance a of k has to name, with the subjects bound.
Expected(a, k, bound) == IF a.version = "2.0" THEN bound[k] ELSE a.expects

\* A verified record of k names an independent verifier and the subject it had to judge,
\* which for a 2.0 dispatch is bound for good.
JudgedSoundly(a, k, bound) ==
    a.verified => /\ a.verifier \notin {None, a.cause}
                  /\ a.subject # None /\ a.subject = Expected(a, k, bound)

\* What a call holds between its steps: a dispatch to insert, or a copy of the stored
\* acceptance that differs from it in what a transition may change only.
HoldsNew(c) ==
    /\ caller[c].key \in DispatchKey /\ caller[c].rec \in Acceptance
    /\ caller[c].rec.version = "1.0" /\ ~caller[c].rec.verified

HoldsCopy(c) ==
    LET k == caller[c].key
        a == caller[c].rec
    IN  /\ k \in DispatchKey /\ a \in Acceptance
        /\ acc[k] # None /\ Identity(a) = Identity(acc[k])
        /\ JudgedSoundly(a, k, subjects)

HoldsVerdict(c) ==
    /\ caller[c].verdict \in [verifier : Verifier, subject : Subject, result : {"ACCEPT", "REJECT"}]
    /\ caller[c].verdict.verifier # caller[c].rec.cause

HoldsAnswer(c) ==
    LET k == caller[c].key
    IN  k \in DispatchKey /\ acc[k] # None /\ caller[c].rec = Identity(acc[k])

CallSound(c) ==
    /\ caller[c].pc = "insert" => HoldsNew(c)
    /\ caller[c].pc \in {"verdict", "save"} => HoldsCopy(c)
    /\ caller[c].pc = "verdict" => HoldsVerdict(c)
    /\ caller[c].pc = "accepted" => HoldsAnswer(c)
    /\ caller[c].replay => caller[c].pc = "accepted"

\* What holds of a stored acceptance, whatever copies are saved over one another.
StoredSound(k) ==
    acc[k] # None =>
        /\ JudgedSoundly(acc[k], k, subjects)
        /\ acc[k].version = "2.0" =>
             /\ \E x \in contexts : x.id = acc[k].ctx /\ x.work = acc[k].work /\ x.cause = acc[k].cause
             /\ \A x \in contexts : x.id = acc[k].ctx => acc[k].place \in {None, x.worker}

SealInv ==
    /\ SealTypeOK
    /\ \A c \in Caller : CallSound(c)
    /\ \A k \in DispatchKey : StoredSound(k)

\* A step keeps what each key is bound to ...
KeepsIdentities ==
    \A k \in DispatchKey : acc[k] # None => acc'[k] # None /\ Identity(acc'[k]) = Identity(acc[k])

\* ... and the subjects that are bound.
KeepsSubjects == \A k \in DispatchKey : subjects[k] # None => subjects'[k] = subjects[k]

\* Binding another subject does not touch a record that has been verified.
LEMMA JudgedStays ==
    ASSUME NEW a, NEW k, NEW bound, NEW later, bound[k] # None => later[k] = bound[k],
           JudgedSoundly(a, k, bound)
    PROVE  JudgedSoundly(a, k, later)
BY Zenon DEF JudgedSoundly, Expected

\* A caller that does not move holds what it held.
LEMMA BystanderSound ==
    ASSUME SealInv, KeepsIdentities, KeepsSubjects,
           NEW b \in Caller, caller'[b] = caller[b]
    PROVE  CallSound(b)'
<1>1. CallSound(b) BY Zenon DEF SealInv
<1>2. caller'[b].pc = "insert" => HoldsNew(b)' BY Zenon, <1>1 DEF CallSound, HoldsNew
<1>3. caller'[b].pc \in {"verdict", "save"} => HoldsCopy(b)'
  <2> SUFFICES ASSUME caller[b].pc \in {"verdict", "save"} PROVE HoldsCopy(b)' BY Zenon
  <2>1. HoldsCopy(b) BY Zenon, <1>1 DEF CallSound
  <2>2. JudgedSoundly(caller[b].rec, caller[b].key, subjects')
    BY Zenon, <2>1, JudgedStays DEF HoldsCopy, KeepsSubjects
  <2> QED BY Zenon, <2>1, <2>2 DEF HoldsCopy, KeepsIdentities
<1>4. caller'[b].pc = "verdict" => HoldsVerdict(b)' BY Zenon, <1>1 DEF CallSound, HoldsVerdict
<1>5. caller'[b].pc = "accepted" => HoldsAnswer(b)'
  BY Zenon, <1>1 DEF CallSound, HoldsAnswer, KeepsIdentities
<1> QED BY Zenon, <1>1, <1>2, <1>3, <1>4, <1>5 DEF CallSound

\* The acceptance of a key stays sound when its identity stays, new contexts have other
\* identities, and the record that is stored by then is judged soundly.
LEMMA StoredStays ==
    ASSUME SealInv, NEW k \in DispatchKey, acc[k] # None,
           Identity(acc'[k]) = Identity(acc[k]), JudgedSoundly(acc'[k], k, subjects'),
           contexts \subseteq contexts', \A x \in contexts' \ contexts : x.id # acc[k].ctx
    PROVE  StoredSound(k)'
<1>1. StoredSound(k) BY Zenon DEF SealInv
<1>2. /\ acc'[k].version = acc[k].version /\ acc'[k].work = acc[k].work
      /\ acc'[k].cause = acc[k].cause /\ acc'[k].place = acc[k].place /\ acc'[k].ctx = acc[k].ctx
  BY Zenon DEF Identity
<1> QED BY Zenon, <1>1, <1>2 DEF StoredSound

\* A step of c preserves the invariant if it preserves the types, what c holds next is
\* sound, and so is what is stored next.
LEMMA CallerMoves ==
    ASSUME SealInv, NEW c \in Caller, SealTypeOK', KeepsIdentities, KeepsSubjects,
           \A b \in Caller \ {c} : caller'[b] = caller[b],
           CallSound(c)', \A k \in DispatchKey : StoredSound(k)'
    PROVE  SealInv'
<1>1. \A b \in Caller : CallSound(b)' BY Zenon, BystanderSound
<1> QED BY Zenon, <1>1 DEF SealInv

\* A step of c that stores nothing preserves it if what c holds next is sound.
LEMMA CallerReads ==
    ASSUME SealInv, NEW c \in Caller, NEW r, caller' = [caller EXCEPT ![c] = r],
           r.pc \in InCall \cup Answered, CallSound(c)',
           UNCHANGED <<acc, contexts, subjects, epoch, leases>>
    PROVE  SealInv' /\ KeepsIdentities
<1>1. SealTypeOK' BY Zenon DEF SealInv, SealTypeOK
<1>2. KeepsIdentities /\ KeepsSubjects BY Zenon DEF KeepsIdentities, KeepsSubjects
<1>3. \A k \in DispatchKey : StoredSound(k)' BY Zenon DEF SealInv, StoredSound
<1>4. \A b \in Caller \ {c} : caller'[b] = caller[b] BY Zenon DEF SealInv, SealTypeOK
<1> QED BY Zenon, <1>1, <1>2, <1>3, <1>4, CallerMoves

\* A call that ends without a record, whatever it has stored.
LEMMA FinishSound ==
    ASSUME SealInv, NEW c \in Caller, NEW pc \in {"ok", "refused"}, Finish(c, pc)
    PROVE  /\ DOMAIN caller' = Caller
           /\ \A b \in Caller : caller'[b].pc \in InCall \cup Answered
           /\ \A b \in Caller \ {c} : caller'[b] = caller[b]
           /\ CallSound(c)'
<1>1. /\ DOMAIN caller' = Caller /\ caller'[c] = [Idle EXCEPT !.pc = pc]
      /\ \A b \in Caller \ {c} : caller'[b] = caller[b]
  BY Zenon DEF SealInv, SealTypeOK, Finish
<1>2. caller'[c].pc = pc /\ caller'[c].replay = FALSE BY Zenon, <1>1 DEF Idle
<1>3. CallSound(c)' BY Zenon, <1>2 DEF CallSound
<1> QED BY Zenon, <1>1, <1>2, <1>3 DEF SealInv, SealTypeOK, Answered

\* An acceptance call that ends, provided that what it answers with is stored by then.
LEMMA AnswerSound ==
    ASSUME SealInv, NEW c \in Caller, NEW k \in DispatchKey, NEW replay \in BOOLEAN, NEW ok \in BOOLEAN,
           NEW a, AnswerAccept(c, k, replay, ok, a), replay => ok,
           ok => acc'[k] # None /\ Identity(a) = Identity(acc'[k])
    PROVE  /\ DOMAIN caller' = Caller
           /\ \A b \in Caller : caller'[b].pc \in InCall \cup Answered
           /\ \A b \in Caller \ {c} : caller'[b] = caller[b]
           /\ CallSound(c)'
<1>1. /\ DOMAIN caller' = Caller
      /\ \A b \in Caller \ {c} : caller'[b] = caller[b]
  BY Zenon DEF SealInv, SealTypeOK, AnswerAccept
<1>2. CASE ok
  <2>1. /\ caller'[c].pc = "accepted" /\ caller'[c].key = k
        /\ caller'[c].rec = Identity(a) /\ caller'[c].replay = replay
    BY Zenon, <1>2 DEF SealInv, SealTypeOK, AnswerAccept, Idle
  <2>2. CallSound(c)' BY Zenon, <1>2, <2>1 DEF CallSound, HoldsAnswer
  <2> QED BY Zenon, <1>1, <2>1, <2>2 DEF SealInv, SealTypeOK, Answered
<1>3. CASE ~ok
  <2>1. caller'[c].pc = "refused" /\ caller'[c].replay = replay
    BY Zenon, <1>3 DEF SealInv, SealTypeOK, AnswerAccept, Idle
  <2>2. CallSound(c)' BY Zenon, <1>3, <2>1 DEF CallSound
  <2> QED BY Zenon, <1>1, <2>1, <2>2 DEF SealInv, SealTypeOK, Answered
<1> QED BY Zenon, <1>2, <1>3

-----------------------------------------------------------------------------
\* What is stored under a key whose call goes on with it is a sound acceptance.
LEMMA StoredIsAcceptance ==
    ASSUME SealInv, NEW k \in DispatchKey, acc[k] # None
    PROVE  acc[k] \in Acceptance /\ JudgedSoundly(acc[k], k, subjects)
BY Zenon DEF SealInv, SealTypeOK, StoredSound

\* A new 1.0 acceptance.
LEMMA CandidateIsAcceptance ==
    ASSUME NEW version \in {"1.0", "2.0"}, NEW w \in WorkRef \cup {None}, NEW cause \in Cause,
           NEW e \in Epochs, NEW place \in Worker \cup {None}, NEW s \in Subject \cup {None}, NEW i \in Ctx
    PROVE  LET a == Candidate(version, w, cause, e, place, s, i)
           IN  /\ a \in Acceptance /\ a.version = version /\ a.work = w /\ a.cause = cause
               /\ a.place = place /\ a.ctx = i /\ ~a.verified /\ a # None
<1> DEFINE a == Candidate(version, w, cause, e, place, s, i)
<1>1. a \in Acceptance BY DispatchAssumption DEF Candidate, Acceptance, Outcome
<1>2. a # None BY Zenon, <1>1, DispatchAssumption
<1>3. /\ a.version = version /\ a.work = w /\ a.cause = cause
      /\ a.place = place /\ a.ctx = i /\ a.verified = FALSE
  BY Zenon DEF Candidate
<1> QED BY Zenon, <1>1, <1>2, <1>3

\* Accept answers with the winner that is stored, refuses, or goes on to insert.
LEMMA AcceptKeeps ==
    ASSUME SealInv, NEW c \in Caller, NEW k \in DispatchKey, NEW cause \in Cause, NEW e \in Epochs,
           NEW s \in Subject, Accept(c, k, cause, e, s)
    PROVE  SealInv' /\ KeepsIdentities
<1> DEFINE same == acc[k] # None /\ SameDispatch(acc[k], cause, e)
<1>0. UNCHANGED <<acc, contexts, subjects, epoch, leases>> BY Zenon DEF Accept
<1>a. KeepsIdentities /\ KeepsSubjects BY Zenon, <1>0 DEF KeepsIdentities, KeepsSubjects
<1>b. \A j \in DispatchKey : StoredSound(j)' BY Zenon, <1>0 DEF SealInv, StoredSound
<1>1. CASE acc[k] # None /\ AnswerAccept(c, k, same, same, acc[k])
  <2>1. PICK b \in BOOLEAN : b = same BY Zenon DEF SameDispatch
  <2>2. AnswerAccept(c, k, b, b, acc[k]) BY Zenon, <1>1, <2>1
  <2>3. acc'[k] # None /\ Identity(acc[k]) = Identity(acc'[k]) BY Zenon, <1>0, <1>1
  <2>4. /\ DOMAIN caller' = Caller
        /\ \A x \in Caller : caller'[x].pc \in InCall \cup Answered
        /\ \A x \in Caller \ {c} : caller'[x] = caller[x]
        /\ CallSound(c)'
    BY Zenon, <2>2, <2>3, AnswerSound
  <2>5. SealTypeOK' BY Zenon, <1>0, <2>4 DEF SealInv, SealTypeOK
  <2> QED BY Zenon, <1>a, <1>b, <2>4, <2>5, CallerMoves
<1>2. CASE acc[k] = None /\ AnswerAccept(c, k, FALSE, FALSE, None)
  <2>4. /\ DOMAIN caller' = Caller
        /\ \A x \in Caller : caller'[x].pc \in InCall \cup Answered
        /\ \A x \in Caller \ {c} : caller'[x] = caller[x]
        /\ CallSound(c)'
    BY Zenon, <1>2, AnswerSound
  <2>5. SealTypeOK' BY Zenon, <1>0, <2>4 DEF SealInv, SealTypeOK
  <2> QED BY Zenon, <1>a, <1>b, <2>4, <2>5, CallerMoves
<1>3. CASE \E i \in Fresh : GoOn(c, k, "insert", Candidate("1.0", None, cause, e, None, s, i))
  <2>1. PICK i \in Fresh : GoOn(c, k, "insert", Candidate("1.0", None, cause, e, None, s, i)) BY Zenon, <1>3
  <2> DEFINE a == Candidate("1.0", None, cause, e, None, s, i)
             r == [Idle EXCEPT !.pc = "insert", !.key = k, !.rec = a]
  <2>2. a \in Acceptance /\ a.version = "1.0" /\ ~a.verified
    BY CandidateIsAcceptance DEF Fresh
  <2> HIDE DEF a
  <2>3. caller' = [caller EXCEPT ![c] = r] BY Zenon, <2>1 DEF GoOn, a
  <2>4. r.pc = "insert" /\ r.key = k /\ r.rec = a /\ r.replay = FALSE BY Zenon DEF Idle
  <2>5. caller'[c] = r BY Zenon, <2>3 DEF SealInv, SealTypeOK
  <2> HIDE DEF r
  <2>6. CallSound(c)' BY Zenon, <2>2, <2>4, <2>5 DEF CallSound, HoldsNew
  <2> QED BY Zenon, <1>0, <2>3, <2>4, <2>6, CallerReads DEF InCall
<1> QED BY Zenon, <1>1, <1>2, <1>3 DEF Accept

\* AcceptIfAbsent stores the candidate of c, or answers with what was there first.
LEMMA AcceptIfAbsentKeeps ==
    ASSUME SealInv, NEW c \in Caller, AcceptIfAbsent(c)
    PROVE  SealInv' /\ KeepsIdentities
<1> DEFINE k == caller[c].key
           mine == caller[c].rec
<1>1. k \in DispatchKey /\ mine \in Acceptance /\ mine.version = "1.0" /\ ~mine.verified
  BY Zenon DEF AcceptIfAbsent, SealInv, CallSound, HoldsNew
<1>2. mine # None BY Zenon, <1>1, DispatchAssumption
<1>3. /\ acc' = [acc EXCEPT ![k] = IF @ = None THEN mine ELSE @]
      /\ AnswerAccept(c, k, FALSE, SameDispatch(acc'[k], mine.cause, mine.epoch), acc'[k])
      /\ UNCHANGED <<contexts, subjects, epoch, leases>>
  BY Zenon DEF AcceptIfAbsent
<1> HIDE DEF k, mine
<1>4. /\ acc' \in [DispatchKey -> Acceptance \cup {None}]
      /\ acc'[k] = IF acc[k] = None THEN mine ELSE acc[k]
      /\ \A j \in DispatchKey \ {k} : acc'[j] = acc[j]
  BY Zenon, <1>1, <1>3 DEF SealInv, SealTypeOK
<1>5. acc'[k] # None BY Zenon, <1>2, <1>4
<1>6. KeepsIdentities /\ KeepsSubjects BY Zenon, <1>3, <1>4 DEF KeepsIdentities, KeepsSubjects
<1>7. PICK b \in BOOLEAN : b = SameDispatch(acc'[k], mine.cause, mine.epoch) BY Zenon DEF SameDispatch
<1>8. AnswerAccept(c, k, FALSE, b, acc'[k]) BY Zenon, <1>3, <1>7
<1>9. /\ DOMAIN caller' = Caller
      /\ \A x \in Caller : caller'[x].pc \in InCall \cup Answered
      /\ \A x \in Caller \ {c} : caller'[x] = caller[x]
      /\ CallSound(c)'
  BY Zenon, <1>1, <1>5, <1>8, AnswerSound
<1>10. SealTypeOK' BY Zenon, <1>3, <1>4, <1>9 DEF SealInv, SealTypeOK
<1>11. ASSUME NEW j \in DispatchKey PROVE StoredSound(j)'
  <2>1. CASE acc[j] # None
    <3>1. acc'[j] = acc[j] BY Zenon, <1>4, <2>1
    <3>2. JudgedSoundly(acc'[j], j, subjects') BY Zenon, <1>3, <2>1, <3>1, StoredIsAcceptance
    <3> QED BY Zenon, <1>3, <2>1, <3>1, <3>2, StoredStays
  <2>2. CASE acc[j] = None /\ j # k BY Zenon, <1>4, <2>2 DEF StoredSound
  <2>3. CASE acc[j] = None /\ j = k
    <3>1. acc'[j] = mine BY Zenon, <1>4, <2>3
    <3> QED BY Zenon, <1>1, <3>1 DEF StoredSound, JudgedSoundly
  <2> QED BY Zenon, <2>1, <2>2, <2>3
<1> QED BY Zenon, <1>6, <1>9, <1>10, <1>11, CallerMoves

\* A row of work_execution_contexts for a lease.
LEMMA ContextIsRow ==
    ASSUME SealInv, NEW i \in Ctx, NEW prior \in Ctx \cup {None}, NEW w \in WorkRef, NEW cause \in Cause,
           NEW l \in WorkerLease
    PROVE  LET x == Context(i, prior, w, cause, l)
           IN  /\ x \in ContextRow /\ x.id = i /\ x.work = w /\ x.cause = cause
               /\ x.worker = leases[l].worker
<1>1. leases[l] \in LeaseRow BY Zenon DEF SealInv, SealTypeOK
<1>2. leases[l].worker \in Worker BY Zenon, <1>1 DEF LeaseRow
<1> QED BY Zenon, <1>2 DEF Context, ContextRow

\* A minted identity is on no acceptance and on no context.
LEMMA FreshIsNew ==
    ASSUME NEW i \in Fresh
    PROVE  /\ i \in Ctx
           /\ \A j \in DispatchKey : acc[j] # None => acc[j].ctx # i
           /\ \A x \in contexts : x.id # i
BY Z3T(60) DEF Fresh

\* AcceptV2 answers with the winner that is stored, refuses, or stores an acceptance
\* together with its context.
LEMMA AcceptV2Keeps ==
    ASSUME SealInv, NEW c \in Caller, NEW k \in DispatchKey, NEW cause \in Cause, NEW w \in WorkRef,
           NEW l \in WorkerLease, NEW place \in Worker \cup {None}, AcceptV2(c, k, cause, w, l, place)
    PROVE  SealInv' /\ KeepsIdentities
<1> DEFINE same == /\ acc[k] # None
                   /\ acc[k].version = "2.0" /\ acc[k].work = w
                   /\ acc[k].cause = cause /\ acc[k].place = place
                   /\ \E x \in contexts : x.id = acc[k].ctx /\ x.lease = l
<1>0. UNCHANGED <<subjects, epoch, leases>> BY ZenonT(60) DEF AcceptV2
<1>1. CASE acc[k] # None /\ AnswerAccept(c, k, same, same, acc[k]) /\ UNCHANGED <<acc, contexts>>
  <2>1. PICK b \in BOOLEAN : b = same BY Zenon
  <2>2. AnswerAccept(c, k, b, b, acc[k]) BY Zenon, <1>1, <2>1
  <2>3. acc'[k] # None /\ Identity(acc[k]) = Identity(acc'[k]) BY Zenon, <1>1
  <2>4. /\ DOMAIN caller' = Caller
        /\ \A x \in Caller : caller'[x].pc \in InCall \cup Answered
        /\ \A x \in Caller \ {c} : caller'[x] = caller[x]
        /\ CallSound(c)'
    BY Zenon, <2>2, <2>3, AnswerSound
  <2>5. SealTypeOK' BY Zenon, <1>0, <1>1, <2>4 DEF SealInv, SealTypeOK
  <2>6. KeepsIdentities /\ KeepsSubjects BY ZenonT(60), <1>0, <1>1 DEF KeepsIdentities, KeepsSubjects
  <2>7. \A j \in DispatchKey : StoredSound(j)' BY ZenonT(60), <1>0, <1>1 DEF SealInv, StoredSound
  <2> QED BY ZenonT(60), <2>4, <2>5, <2>6, <2>7, CallerMoves
<1>2. CASE acc[k] = None /\ AnswerAccept(c, k, FALSE, FALSE, None) /\ UNCHANGED <<acc, contexts>>
  <2>4. /\ DOMAIN caller' = Caller
        /\ \A x \in Caller : caller'[x].pc \in InCall \cup Answered
        /\ \A x \in Caller \ {c} : caller'[x] = caller[x]
        /\ CallSound(c)'
    BY Zenon, <1>2, AnswerSound
  <2>5. SealTypeOK' BY Zenon, <1>0, <1>2, <2>4 DEF SealInv, SealTypeOK
  <2>6. KeepsIdentities /\ KeepsSubjects BY Zenon, <1>0, <1>2 DEF KeepsIdentities, KeepsSubjects
  <2>7. \A j \in DispatchKey : StoredSound(j)' BY Zenon, <1>0, <1>2 DEF SealInv, StoredSound
  <2> QED BY Zenon, <2>4, <2>5, <2>6, <2>7, CallerMoves
<1>3. CASE /\ acc[k] = None /\ LeaseServes(w, l, place)
           /\ \E i \in Fresh :
                /\ acc' = [acc EXCEPT ![k] = Candidate("2.0", w, cause, 0, place, None, i)]
                /\ contexts' = contexts \cup {Context(i, None, w, cause, l)}
           /\ AnswerAccept(c, k, FALSE, TRUE, acc'[k])
  <2>1. PICK i \in Fresh :
          /\ acc' = [acc EXCEPT ![k] = Candidate("2.0", w, cause, 0, place, None, i)]
          /\ contexts' = contexts \cup {Context(i, None, w, cause, l)}
    BY Zenon, <1>3
  <2> DEFINE a == Candidate("2.0", w, cause, 0, place, None, i)
             x == Context(i, None, w, cause, l)
  <2>2. /\ i \in Ctx
        /\ \A j \in DispatchKey : acc[j] # None => acc[j].ctx # i
        /\ \A y \in contexts : y.id # i
    BY Zenon, FreshIsNew
  <2>3. /\ a \in Acceptance /\ a.version = "2.0" /\ a.work = w /\ a.cause = cause
        /\ a.place = place /\ a.ctx = i /\ ~a.verified /\ a # None
    <3>1. "2.0" \in {"1.0", "2.0"} /\ 0 \in Epochs /\ None \in Subject \cup {None}
      BY Zenon, DispatchAssumption
    <3>2. i \in Ctx
      BY Zenon, <2>2
    <3> QED
      BY <3>1, <3>2, CandidateIsAcceptance
  <2>4. /\ x \in ContextRow /\ x.id = i /\ x.work = w /\ x.cause = cause
        /\ x.worker = leases[l].worker
    BY <2>2, ContextIsRow
  <2>5. place \in {None, x.worker} BY Zenon, <1>3, <2>4 DEF LeaseServes
  <2>6. acc' = [acc EXCEPT ![k] = a] /\ contexts' = contexts \cup {x} BY Zenon, <2>1
  <2> HIDE DEF a, x
  <2>7. /\ acc' \in [DispatchKey -> Acceptance \cup {None}] /\ acc'[k] = a
        /\ \A j \in DispatchKey \ {k} : acc'[j] = acc[j]
    BY Zenon, <2>3, <2>6 DEF SealInv, SealTypeOK
  <2>8. /\ DOMAIN caller' = Caller
        /\ \A y \in Caller : caller'[y].pc \in InCall \cup Answered
        /\ \A y \in Caller \ {c} : caller'[y] = caller[y]
        /\ CallSound(c)'
    BY Zenon, <1>3, <2>3, <2>7, AnswerSound
  <2>9. SealTypeOK' BY Zenon, <1>0, <2>4, <2>6, <2>7, <2>8 DEF SealInv, SealTypeOK
  <2>10. KeepsIdentities /\ KeepsSubjects BY Zenon, <1>0, <1>3, <2>7 DEF KeepsIdentities, KeepsSubjects
  <2>11. ASSUME NEW j \in DispatchKey PROVE StoredSound(j)'
    <3>1. CASE acc[j] # None
      <4>1. acc'[j] = acc[j] BY Z3T(60), <1>3, <2>7, <3>1
      <4>2. JudgedSoundly(acc'[j], j, subjects') BY ZenonT(60), <1>0, <3>1, <4>1, StoredIsAcceptance
      <4>3. contexts \subseteq contexts' /\ \A y \in contexts' \ contexts : y.id # acc[j].ctx
        BY ZenonT(60), <2>2, <2>4, <2>6, <3>1
      <4> QED BY Zenon, <3>1, <4>1, <4>2, <4>3, StoredStays
    <3>2. CASE acc[j] = None /\ j # k BY ZenonT(60), <2>7, <3>2 DEF StoredSound
    <3>3. CASE acc[j] = None /\ j = k
      <4>1. acc'[j] = a BY Zenon, <2>7, <3>3
      <4>2. JudgedSoundly(a, j, subjects') BY Zenon, <2>3 DEF JudgedSoundly
      <4>3. x \in contexts' /\ x.id = a.ctx /\ x.work = a.work /\ x.cause = a.cause
        BY Zenon, <2>3, <2>4, <2>6
      <4>4. \A y \in contexts' : y.id = a.ctx => a.place \in {None, y.worker}
        BY Zenon, <2>2, <2>3, <2>4, <2>5, <2>6
      <4> QED BY Zenon, <4>1, <4>2, <4>3, <4>4 DEF StoredSound
    <3> QED BY Zenon, <3>1, <3>2, <3>3
  <2> QED BY Zenon, <2>8, <2>9, <2>10, <2>11, CallerMoves
<1> QED BY Zenon, <1>1, <1>2, <1>3 DEF AcceptV2

\* CreateExecutionContext adds a context whose identity nothing else has.
LEMMA CreateExecutionContextKeeps ==
    ASSUME SealInv, NEW c \in Caller, NEW prior \in Ctx \cup {None}, NEW cause \in Cause,
           NEW w \in WorkRef, NEW l \in WorkerLease, CreateExecutionContext(c, prior, cause, w, l)
    PROVE  SealInv' /\ KeepsIdentities
<1>1. PICK i \in Fresh : contexts' = contexts \cup {Context(i, prior, w, cause, l)}
  BY Zenon DEF CreateExecutionContext
<1> DEFINE x == Context(i, prior, w, cause, l)
<1>2. /\ i \in Ctx
      /\ \A j \in DispatchKey : acc[j] # None => acc[j].ctx # i
  BY Zenon, FreshIsNew
<1>3. x \in ContextRow /\ x.id = i BY Z3T(60), <1>2, ContextIsRow
<1>4. contexts' = contexts \cup {x} /\ Finish(c, "ok") /\ UNCHANGED <<acc, subjects, epoch, leases>>
  BY ZenonT(60), <1>1 DEF CreateExecutionContext
<1> HIDE DEF x
<1>5. /\ DOMAIN caller' = Caller
      /\ \A y \in Caller : caller'[y].pc \in InCall \cup Answered
      /\ \A y \in Caller \ {c} : caller'[y] = caller[y]
      /\ CallSound(c)'
  BY Zenon, <1>4, FinishSound
<1>6. SealTypeOK' BY Z3T(60), <1>3, <1>4, <1>5 DEF SealInv, SealTypeOK
<1>7. KeepsIdentities /\ KeepsSubjects BY Zenon, <1>4 DEF KeepsIdentities, KeepsSubjects
<1>8. ASSUME NEW j \in DispatchKey PROVE StoredSound(j)'
  <2>1. CASE acc[j] # None
    <3>1. JudgedSoundly(acc'[j], j, subjects') BY Zenon, <1>4, <2>1, StoredIsAcceptance
    <3>2. contexts \subseteq contexts' /\ \A y \in contexts' \ contexts : y.id # acc[j].ctx
      BY Zenon, <1>2, <1>3, <1>4, <2>1
    <3> QED BY Zenon, <1>4, <2>1, <3>1, <3>2, StoredStays
  <2>2. CASE acc[j] = None BY Zenon, <1>4, <2>2 DEF StoredSound
  <2> QED BY Z3T(60), <2>1, <2>2
<1> QED BY Zenon, <1>5, <1>6, <1>7, <1>8, CallerMoves

\* BindVerificationSubject binds a subject where none is bound.
LEMMA BindVerificationSubjectKeeps ==
    ASSUME SealInv, NEW c \in Caller, NEW k \in DispatchKey, NEW w \in WorkRef, NEW cause \in Cause,
           NEW s \in Subject, BindVerificationSubject(c, k, w, cause, s)
    PROVE  SealInv' /\ KeepsIdentities
<1>1. /\ subjects' = [subjects EXCEPT ![k] = IF @ = None THEN s ELSE @]
      /\ UNCHANGED <<acc, contexts, epoch, leases>>
  BY Zenon DEF BindVerificationSubject
<1>2. PICK pc \in {"ok", "refused"} : Finish(c, pc) BY Zenon DEF BindVerificationSubject
<1>3. /\ DOMAIN caller' = Caller
      /\ \A y \in Caller : caller'[y].pc \in InCall \cup Answered
      /\ \A y \in Caller \ {c} : caller'[y] = caller[y]
      /\ CallSound(c)'
  BY Zenon, <1>2, FinishSound
<1>4. subjects' \in [DispatchKey -> Subject \cup {None}] BY Z3T(60), <1>1 DEF SealInv, SealTypeOK
<1>5. SealTypeOK' BY Zenon, <1>1, <1>3, <1>4 DEF SealInv, SealTypeOK
<1>6. KeepsIdentities /\ KeepsSubjects
  BY Zenon, <1>1 DEF KeepsIdentities, KeepsSubjects, SealInv, SealTypeOK
<1>7. ASSUME NEW j \in DispatchKey PROVE StoredSound(j)'
  <2>1. CASE acc[j] # None
    <3>1. JudgedSoundly(acc[j], j, subjects) BY Zenon, <2>1, StoredIsAcceptance
    <3>2. JudgedSoundly(acc[j], j, subjects') BY Zenon, <1>6, <3>1, JudgedStays DEF KeepsSubjects
    <3> QED BY Zenon, <1>1, <2>1, <3>2, StoredStays
  <2>2. CASE acc[j] = None BY Zenon, <1>1, <2>2 DEF StoredSound
  <2> QED BY Z3T(60), <2>1, <2>2
<1> QED BY Zenon, <1>3, <1>5, <1>6, <1>7, CallerMoves

-----------------------------------------------------------------------------
\* A record of the same identity that is judged soundly may be stored over the other.
LEMMA StoreKeeps ==
    ASSUME SealInv, NEW c \in Caller, NEW k \in DispatchKey, acc[k] # None, NEW a \in Acceptance,
           Identity(a) = Identity(acc[k]), JudgedSoundly(a, k, subjects),
           acc' = [acc EXCEPT ![k] = a], NEW pc \in {"ok", "refused"}, Finish(c, pc),
           UNCHANGED <<contexts, subjects, epoch, leases>>
    PROVE  SealInv' /\ KeepsIdentities
<1>1. /\ DOMAIN caller' = Caller
      /\ \A y \in Caller : caller'[y].pc \in InCall \cup Answered
      /\ \A y \in Caller \ {c} : caller'[y] = caller[y]
      /\ CallSound(c)'
  BY Zenon, FinishSound
<1>2. /\ acc' \in [DispatchKey -> Acceptance \cup {None}] /\ acc'[k] = a
      /\ \A j \in DispatchKey \ {k} : acc'[j] = acc[j]
  BY Zenon DEF SealInv, SealTypeOK
<1>3. a # None BY Z3T(60), DispatchAssumption
<1>4. SealTypeOK' BY Zenon, <1>1, <1>2 DEF SealInv, SealTypeOK
<1>5. KeepsIdentities /\ KeepsSubjects BY Z3T(60), <1>2, <1>3 DEF KeepsIdentities, KeepsSubjects
<1>6. ASSUME NEW j \in DispatchKey PROVE StoredSound(j)'
  <2>1. CASE acc[j] # None /\ j # k
    <3>1. acc'[j] = acc[j] BY Zenon, <1>2, <2>1
    <3>2. JudgedSoundly(acc'[j], j, subjects') BY Zenon, <2>1, <3>1, StoredIsAcceptance
    <3> QED BY Zenon, <2>1, <3>1, <3>2, StoredStays
  <2>2. CASE acc[j] = None BY Zenon, <1>2, <2>2 DEF StoredSound
  <2>3. CASE j = k
    <3>1. Identity(acc'[j]) = Identity(acc[j]) /\ JudgedSoundly(acc'[j], j, subjects')
      BY Zenon, <1>2, <2>3
    <3> QED BY Zenon, <2>3, <3>1, StoredStays
  <2> QED BY Zenon, <2>1, <2>2, <2>3
<1> QED BY Zenon, <1>1, <1>4, <1>5, <1>6, CallerMoves

\* Spend changes what is spent, and never over the ceiling.
LEMMA SpendKeeps ==
    ASSUME SealInv, NEW c \in Caller, NEW k \in DispatchKey, NEW n \in 1..Ceiling, Spend(c, k, n)
    PROVE  SealInv' /\ KeepsIdentities
<1>1. acc[k] # None BY Zenon DEF Spend
<1>2. acc[k] \in Acceptance /\ JudgedSoundly(acc[k], k, subjects) BY Zenon, <1>1, StoredIsAcceptance
<1>3. acc[k].spent \in 0..Ceiling BY Zenon, <1>2 DEF Acceptance
<1>4. PICK m \in 0..Ceiling : m = IF Affordable(acc[k], n) THEN acc[k].spent + n ELSE acc[k].spent
  BY <1>3, DispatchAssumption DEF Affordable
<1> DEFINE a == [acc[k] EXCEPT !.spent = m]
<1>5. acc' = [acc EXCEPT ![k] = a] BY Zenon, <1>4 DEF Spend, SealInv, SealTypeOK
<1>6. a \in Acceptance BY Zenon, <1>2 DEF Acceptance
<1>7. /\ a.verified = acc[k].verified /\ a.verifier = acc[k].verifier /\ a.subject = acc[k].subject
      /\ a.version = acc[k].version /\ a.expects = acc[k].expects /\ a.cause = acc[k].cause
      /\ a.work = acc[k].work /\ a.epoch = acc[k].epoch /\ a.place = acc[k].place /\ a.ctx = acc[k].ctx
  BY Zenon, <1>2 DEF Acceptance
<1> HIDE DEF a
<1>8. Identity(a) = Identity(acc[k]) BY Zenon, <1>7 DEF Identity
<1>9. JudgedSoundly(a, k, subjects) BY Zenon, <1>2, <1>7 DEF JudgedSoundly, Expected
<1>10. PICK pc \in {"ok", "refused"} : Finish(c, pc) BY Zenon DEF Spend
<1>11. UNCHANGED <<contexts, subjects, epoch, leases>> BY Z3T(60) DEF Spend
<1> QED BY Zenon, <1>1, <1>5, <1>6, <1>8, <1>9, <1>10, <1>11, StoreKeeps

\* A call that has loaded an acceptance may hold a copy of the same identity, if it is
\* judged soundly.
LEMMA LoadKeeps ==
    ASSUME SealInv, NEW c \in Caller, NEW k \in DispatchKey, acc[k] # None, NEW a \in Acceptance,
           Identity(a) = Identity(acc[k]), JudgedSoundly(a, k, subjects),
           GoOn(c, k, "save", a), UNCHANGED <<acc, contexts, subjects, epoch, leases>>
    PROVE  SealInv' /\ KeepsIdentities
<1> DEFINE r == [Idle EXCEPT !.pc = "save", !.key = k, !.rec = a]
<1>1. caller' = [caller EXCEPT ![c] = r] BY Zenon DEF GoOn
<1>2. r.pc = "save" /\ r.key = k /\ r.rec = a /\ r.replay = FALSE BY Zenon DEF Idle
<1>3. caller'[c] = r BY Zenon, <1>1 DEF SealInv, SealTypeOK
<1> HIDE DEF r
<1>4. CallSound(c)' BY Zenon, <1>2, <1>3 DEF CallSound, HoldsCopy
<1> QED BY Zenon, <1>1, <1>2, <1>4, CallerReads DEF InCall

\* The transitions that neither judge nor change what the key is bound to.
LEMMA TransitionKeeps ==
    ASSUME SealInv, NEW c \in Caller, NEW k \in DispatchKey, acc[k] # None,
           NEW applied \in BOOLEAN, NEW revoked \in BOOLEAN, NEW outcome \in Outcome,
           Load(c, k, [acc[k] EXCEPT !.applied = applied, !.revoked = revoked, !.outcome = outcome])
    PROVE  SealInv' /\ KeepsIdentities
<1> DEFINE a == [acc[k] EXCEPT !.applied = applied, !.revoked = revoked, !.outcome = outcome]
<1>1. acc[k] \in Acceptance /\ JudgedSoundly(acc[k], k, subjects) BY Zenon, StoredIsAcceptance
<1>2. a \in Acceptance BY ZenonT(60), <1>1 DEF Acceptance
<1>3. /\ a.verified = acc[k].verified /\ a.verifier = acc[k].verifier /\ a.subject = acc[k].subject
      /\ a.version = acc[k].version /\ a.expects = acc[k].expects /\ a.cause = acc[k].cause
      /\ a.work = acc[k].work /\ a.epoch = acc[k].epoch /\ a.place = acc[k].place /\ a.ctx = acc[k].ctx
  BY Zenon, <1>1 DEF Acceptance
<1>4. GoOn(c, k, "save", a) /\ UNCHANGED <<acc, contexts, subjects, epoch, leases>> BY Zenon DEF Load
<1> HIDE DEF a
<1>5. Identity(a) = Identity(acc[k]) BY Zenon, <1>3 DEF Identity
<1>6. JudgedSoundly(a, k, subjects) BY Zenon, <1>1, <1>3 DEF JudgedSoundly, Expected
<1> QED BY Zenon, <1>2, <1>4, <1>5, <1>6, LoadKeeps

\* Revoke, ApplyEffect and Complete are such transitions.
LEMMA RevokeKeeps ==
    ASSUME SealInv, NEW c \in Caller, NEW k \in DispatchKey, Revoke(c, k)
    PROVE  SealInv' /\ KeepsIdentities
<1>1. acc[k] # None /\ Load(c, k, [acc[k] EXCEPT !.revoked = TRUE]) BY Zenon DEF Revoke
<1>2. acc[k] \in Acceptance BY Zenon, <1>1, StoredIsAcceptance
<1>3. acc[k].applied \in BOOLEAN /\ acc[k].outcome \in Outcome BY Zenon, <1>2 DEF Acceptance
<1>4. [acc[k] EXCEPT !.revoked = TRUE] =
        [acc[k] EXCEPT !.applied = acc[k].applied, !.revoked = TRUE, !.outcome = acc[k].outcome]
  BY Zenon, <1>2 DEF Acceptance
<1> QED BY ZenonT(60), <1>1, <1>3, <1>4, TransitionKeeps

\* ApplyEffect marks the effect applied, or the outcome indeterminate.
LEMMA ApplyEffectKeeps ==
    ASSUME SealInv, NEW c \in Caller, NEW k \in DispatchKey, NEW known \in BOOLEAN, ApplyEffect(c, k, known)
    PROVE  SealInv' /\ KeepsIdentities
<1>1. /\ acc[k] # None
      /\ Load(c, k, IF known THEN [acc[k] EXCEPT !.applied = TRUE]
                    ELSE [acc[k] EXCEPT !.outcome = "INDETERMINATE"])
  BY DEF ApplyEffect
<1>2. acc[k] \in Acceptance BY Zenon, <1>1, StoredIsAcceptance
<1>3. acc[k].applied \in BOOLEAN /\ acc[k].revoked \in BOOLEAN /\ acc[k].outcome \in Outcome
  BY Zenon, <1>2 DEF Acceptance
<1>4. CASE known
  <2>1. [acc[k] EXCEPT !.applied = TRUE] =
          [acc[k] EXCEPT !.applied = TRUE, !.revoked = acc[k].revoked, !.outcome = acc[k].outcome]
    BY Zenon, <1>2 DEF Acceptance
  <2> QED BY ZenonT(60), <1>1, <1>3, <1>4, <2>1, TransitionKeeps
<1>5. CASE ~known
  <2>1. [acc[k] EXCEPT !.outcome = "INDETERMINATE"] =
          [acc[k] EXCEPT !.applied = acc[k].applied, !.revoked = acc[k].revoked,
                         !.outcome = "INDETERMINATE"]
    BY Zenon, <1>2 DEF Acceptance
  <2>2. "INDETERMINATE" \in Outcome BY DEF Outcome
  <2> QED BY Zenon, <1>1, <1>3, <1>5, <2>1, <2>2, TransitionKeeps
<1> QED BY Zenon, <1>4, <1>5

\* Complete records the outcome.
LEMMA CompleteKeeps ==
    ASSUME SealInv, NEW c \in Caller, NEW k \in DispatchKey, NEW outcome \in {"SUCCEEDED", "FAILED"},
           Complete(c, k, outcome)
    PROVE  SealInv' /\ KeepsIdentities
<1>1. acc[k] # None /\ Load(c, k, [acc[k] EXCEPT !.outcome = outcome]) BY Zenon DEF Complete
<1>2. acc[k] \in Acceptance BY Zenon, <1>1, StoredIsAcceptance
<1>3. acc[k].applied \in BOOLEAN /\ acc[k].revoked \in BOOLEAN BY Zenon, <1>2 DEF Acceptance
<1>4. [acc[k] EXCEPT !.outcome = outcome] =
        [acc[k] EXCEPT !.applied = acc[k].applied, !.revoked = acc[k].revoked, !.outcome = outcome]
  BY Zenon, <1>2 DEF Acceptance
<1>5. outcome \in Outcome BY Zenon DEF Outcome
<1> QED BY Zenon, <1>1, <1>3, <1>4, <1>5, TransitionKeeps

\* RecordVerdict loads the acceptance for a verifier that is not its executor.
LEMMA RecordVerdictKeeps ==
    ASSUME SealInv, NEW c \in Caller, NEW k \in DispatchKey, NEW v \in Verifier, NEW s \in Subject,
           NEW result \in {"ACCEPT", "REJECT"}, RecordVerdict(c, k, v, s, result)
    PROVE  SealInv' /\ KeepsIdentities
<1> DEFINE verdict == [verifier |-> v, subject |-> s, result |-> result]
           r == [Idle EXCEPT !.pc = "verdict", !.key = k, !.rec = acc[k], !.verdict = verdict]
<1>1. /\ acc[k] # None /\ v # acc[k].cause
      /\ caller' = [caller EXCEPT ![c] = r]
      /\ UNCHANGED <<acc, contexts, subjects, epoch, leases>>
  BY Zenon DEF RecordVerdict
<1>2. acc[k] \in Acceptance /\ JudgedSoundly(acc[k], k, subjects) BY Zenon, <1>1, StoredIsAcceptance
<1>3. /\ verdict \in [verifier : Verifier, subject : Subject, result : {"ACCEPT", "REJECT"}]
      /\ verdict.verifier = v
  BY Zenon
<1> HIDE DEF verdict
<1>4. /\ r.pc = "verdict" /\ r.key = k /\ r.rec = acc[k] /\ r.replay = FALSE /\ r.verdict = verdict
  BY Zenon DEF Idle
<1>5. caller'[c] = r BY Zenon, <1>1 DEF SealInv, SealTypeOK
<1> HIDE DEF r
<1>6. HoldsCopy(c)' BY Zenon, <1>1, <1>2, <1>4, <1>5 DEF HoldsCopy
<1>7. HoldsVerdict(c)' BY Z3T(60), <1>1, <1>3, <1>4, <1>5 DEF HoldsVerdict
<1>8. CallSound(c)' BY Zenon, <1>4, <1>5, <1>6, <1>7 DEF CallSound
<1> QED BY Zenon, <1>1, <1>4, <1>8, CallerReads DEF InCall

\* JudgeSubject compares the subject with the one that is bound, and judges the copy.
LEMMA JudgeSubjectKeeps ==
    ASSUME SealInv, NEW c \in Caller, JudgeSubject(c)
    PROVE  SealInv' /\ KeepsIdentities
<1> DEFINE a == caller[c].rec
           k == caller[c].key
           v == caller[c].verdict
<1>0. UNCHANGED <<acc, contexts, subjects, epoch, leases>> BY Zenon DEF JudgeSubject
<1>1. HoldsCopy(c) /\ HoldsVerdict(c) BY Z3T(60) DEF JudgeSubject, SealInv, CallSound
<1>2. /\ k \in DispatchKey /\ a \in Acceptance /\ acc[k] # None /\ Identity(a) = Identity(acc[k])
      /\ v.verifier \in Verifier /\ v.subject \in Subject /\ v.verifier # a.cause
  BY Zenon, <1>1 DEF HoldsCopy, HoldsVerdict
<1>3. PICK b \in BOOLEAN : b = (v.result = "ACCEPT") BY Zenon
<1>4. CASE /\ v.subject = Expected(a, k, subjects)
           /\ GoOn(c, k, "save", [a EXCEPT !.verified = b, !.verifier = v.verifier, !.subject = v.subject])
  <2> DEFINE verifier == v.verifier
             subject == v.subject
             j == [a EXCEPT !.verified = b, !.verifier = verifier, !.subject = subject]
  <2>0. verifier \in Verifier /\ subject \in Subject /\ verifier # a.cause BY Zenon, <1>2
  <2>1. subject = Expected(a, k, subjects) /\ GoOn(c, k, "save", j) BY Zenon, <1>4
  <2> HIDE DEF a, k, v, verifier, subject
  <2>2. j \in Acceptance BY Zenon, <1>2, <2>0 DEF Acceptance
  <2>3. /\ j.verifier = verifier /\ j.subject = subject
        /\ j.version = a.version /\ j.expects = a.expects /\ j.cause = a.cause
        /\ j.work = a.work /\ j.epoch = a.epoch /\ j.place = a.place /\ j.ctx = a.ctx
    BY Zenon, <1>2 DEF Acceptance
  <2> HIDE DEF j
  <2>4. Identity(j) = Identity(acc[k]) BY Zenon, <1>2, <2>3 DEF Identity
  <2>5. JudgedSoundly(j, k, subjects)
    BY Zenon, <2>0, <2>1, <2>3, DispatchAssumption DEF JudgedSoundly, Expected
  <2> QED BY Zenon, <1>0, <1>2, <2>1, <2>2, <2>4, <2>5, LoadKeeps
<1>5. CASE Finish(c, "refused")
  <2>1. caller' = [caller EXCEPT ![c] = [Idle EXCEPT !.pc = "refused"]] BY Zenon, <1>5 DEF Finish
  <2>2. CallSound(c)' BY Zenon, <1>5, FinishSound
  <2>3. [Idle EXCEPT !.pc = "refused"].pc \in InCall \cup Answered BY Zenon DEF Idle, Answered
  <2> QED BY Zenon, <1>0, <2>1, <2>2, <2>3, CallerReads
<1> QED BY Zenon, <1>3, <1>4, <1>5 DEF JudgeSubject, Expected

\* Save stores the copy of c over whatever is stored by then.
LEMMA SaveAcceptanceKeeps ==
    ASSUME SealInv, NEW c \in Caller, SaveAcceptance(c)
    PROVE  SealInv' /\ KeepsIdentities
<1>1. HoldsCopy(c) BY Zenon DEF SaveAcceptance, SealInv, CallSound
<1>2. /\ acc' = [acc EXCEPT ![caller[c].key] = caller[c].rec] /\ Finish(c, "ok")
      /\ UNCHANGED <<contexts, subjects, epoch, leases>>
  BY Zenon DEF SaveAcceptance
<1> QED BY Zenon, <1>1, <1>2, StoreKeeps DEF HoldsCopy

\* The authority and the worker leases move on beneath the callers.
LEMMA SurroundingsKeep ==
    ASSUME SealInv,
           (\E e \in Epochs : AdvanceEpoch(e)) \/ (\E l \in WorkerLease : EndLease(l)) \/ UNCHANGED sealVars
    PROVE  SealInv' /\ KeepsIdentities
<1>1. /\ UNCHANGED <<acc, contexts, subjects, caller>>
      /\ epoch' \in Epochs /\ leases' \in [WorkerLease -> LeaseRow]
  <2>1. ASSUME NEW e \in Epochs, AdvanceEpoch(e) PROVE <1>1
    BY Zenon, <2>1 DEF AdvanceEpoch, SealInv, SealTypeOK
  <2>2. ASSUME NEW l \in WorkerLease, EndLease(l) PROVE <1>1
    <3>1. leases \in [WorkerLease -> LeaseRow] /\ leases[l] \in LeaseRow BY Zenon DEF SealInv, SealTypeOK
    <3>2. leases' \in [WorkerLease -> LeaseRow] BY Zenon, <2>2, <3>1 DEF EndLease, LeaseRow
    <3> QED BY Zenon, <2>2, <3>2 DEF EndLease, SealInv, SealTypeOK
  <2>3. CASE UNCHANGED sealVars BY Zenon, <2>3 DEF sealVars, SealInv, SealTypeOK
  <2> QED BY Zenon, <2>1, <2>2, <2>3
<1>2. SealTypeOK' BY Zenon, <1>1 DEF SealInv, SealTypeOK
<1>3. KeepsIdentities /\ KeepsSubjects BY Zenon, <1>1 DEF KeepsIdentities, KeepsSubjects
<1>4. \A k \in DispatchKey : StoredSound(k)' BY Zenon, <1>1 DEF SealInv, StoredSound
<1>5. \A c \in Caller : CallSound(c)' BY Zenon, <1>1, <1>3, BystanderSound
<1> QED BY Zenon, <1>2, <1>3, <1>4, <1>5 DEF SealInv

\* Without acceptances and calls the invariant holds.
LEMMA SealInitially == SealInit => SealInv
<1> SUFFICES ASSUME SealInit PROVE SealInv BY Zenon
<1>1. leases \in [WorkerLease -> LeaseRow] BY Zenon DEF SealInit, LeaseRow
<1>2. \A c \in Caller : caller[c] = Idle BY Zenon DEF SealInit
<1>3. Idle.pc = "ok" /\ Idle.replay = FALSE BY Zenon DEF Idle
<1>4. SealTypeOK BY Zenon, <1>1, <1>2, <1>3, DispatchAssumption DEF SealInit, SealTypeOK, Answered
<1>5. \A c \in Caller : CallSound(c) BY Zenon, <1>2, <1>3 DEF CallSound
<1>6. \A k \in DispatchKey : StoredSound(k) BY Zenon DEF SealInit, StoredSound
<1> QED BY Zenon, <1>4, <1>5, <1>6 DEF SealInv

\* Every step keeps the invariant, and what each key is bound to.
LEMMA SealKept == SealInv /\ [SealNext]_sealVars => SealInv' /\ KeepsIdentities
<1> SUFFICES ASSUME SealInv, [SealNext]_sealVars PROVE SealInv' /\ KeepsIdentities BY Zenon
<1>1. ASSUME NEW c \in Caller, AcceptStep(c) PROVE SealInv' /\ KeepsIdentities
  BY Zenon, <1>1, AcceptKeeps, AcceptIfAbsentKeeps, AcceptV2Keeps, CreateExecutionContextKeeps,
     BindVerificationSubjectKeeps
  DEF AcceptStep
<1>2. ASSUME NEW c \in Caller, TransitionStep(c) PROVE SealInv' /\ KeepsIdentities
  BY Zenon, <1>2, SpendKeeps, RevokeKeeps, ApplyEffectKeeps, CompleteKeeps, RecordVerdictKeeps,
     JudgeSubjectKeeps, SaveAcceptanceKeeps
  DEF TransitionStep
<1> QED BY Zenon, <1>1, <1>2, SurroundingsKeep DEF SealNext

\* The invariant holds throughout.
LEMMA SealInvariant == SealSpec => []SealInv
<1>1. SealInv /\ [SealNext]_sealVars => SealInv' BY Zenon, SealKept
<1> QED BY SealInitially, <1>1, PTL DEF SealSpec

-----------------------------------------------------------------------------
\* A dispatch that has been accepted is read back by every repetition of it (Accept,
\* AcceptContextualIfAbsent).
THEOREM RepetitionsAreReadBack == SealSpec => []ReplayIsReadBack
<1>1. SealInv => ReplayIsReadBack BY Z3T(60) DEF SealInv, CallSound, ReplayIsReadBack
<1> QED BY <1>1, SealInvariant, PTL

\* Whoever is told that its dispatch is accepted holds the stored identity (AcceptIfAbsent).
THEOREM AnswersNameTheWinner == SealSpec => []AcceptedIsStored
<1>1. SealInv => AcceptedIsStored BY Z3T(60) DEF SealInv, CallSound, HoldsAnswer, AcceptedIsStored
<1> QED BY <1>1, SealInvariant, PTL

\* Nothing is verified by its executor, or over another subject than it had to be (RecordVerdict).
THEOREM VerdictsAreIndependent == SealSpec => []VerifiedIndependently
<1>1. SealInv => VerifiedIndependently
  BY Zenon DEF SealInv, StoredSound, JudgedSoundly, Expected, VerifiedIndependently
<1> QED BY <1>1, SealInvariant, PTL

\* A contextual acceptance has its context, and is bound to the worker it was placed on
\* (AcceptContextualIfAbsent).
THEOREM ContextsGoWithAcceptances == SealSpec => [](ContextIsMaterialized /\ PlacedWhereLeased)
<1>1. SealInv => ContextIsMaterialized /\ PlacedWhereLeased
  BY Zenon DEF SealInv, StoredSound, ContextIsMaterialized, PlacedWhereLeased
<1> QED BY <1>1, SealInvariant, PTL

\* A key stays bound to one dispatch and one correlation identity (AcceptIfAbsent, Save).
THEOREM KeysAreBoundForGood == SealSpec => IdentityIsStable
<1>1. SealInv /\ [SealNext]_sealVars =>
        [\A k \in DispatchKey : acc[k] # None =>
            acc'[k] # None /\ Identity(acc'[k]) = Identity(acc[k])]_sealVars
  BY Zenon, SealKept DEF KeepsIdentities
<1> QED BY <1>1, SealInvariant, PTL DEF SealSpec, IdentityIsStable

-----------------------------------------------------------------------------
(* The golden missions: a completed mission has had its effect and an independent verdict. *)

\* A journal was left by an executed prefix of its mission, and one that covers works
\* stands for an effect in the log.
JournalIsBacked(j, log, ran) ==
    /\ j \in Journal /\ j.canonical \in Canonicals
    /\ j.canonical \in ran
    /\ Covers(j) => log[effectKey(j.canonical)] >= 1

\* What is recorded of a completed mission is backed too.
DoneIsBacked(d, log, ran) ==
    /\ d.mission \in Canonicals
    /\ d.decision \in {"accept", "recovered"} =>
         log[effectKey(d.mission)] >= 1 /\ d.verifier # d.runner /\ d.verifier # d.mission.principal
    /\ d.decision = "recovered" => d.mission \in ran

\* The runner's journal is backed unless it has none.
RunnerIsBacked(x, log, ran) ==
    x # NoRunner => /\ x \in Runner
                    /\ x.journal = NoJournal \/ JournalIsBacked(x.journal, log, ran)
                    /\ x.recovered => JournalIsBacked(x.journal, log, ran)

GoldenInv ==
    /\ gLog \in [GKeys -> Nat] /\ gPrefixes \in [GKeys -> Nat]
    /\ DOMAIN gRunner = GRunner
    /\ \A r \in GRunner : RunnerIsBacked(gRunner[r], gLog, gRan)
    /\ \A j \in gSaved : JournalIsBacked(j, gLog, gRan)
    /\ \A d \in gDone : DoneIsBacked(d, gLog, gRan)
    /\ EffectIsDecided
    /\ ResumeAppliesNothing

\* The log and the executed prefixes only grow.
Grows(log, ran) ==
    /\ log \in [GKeys -> Nat] /\ gRan \subseteq ran
    /\ \A k \in GKeys : log[k] >= gLog[k]

\* What was backed stays backed.
LEMMA BackedStays ==
    ASSUME GoldenInv, NEW log, NEW ran, Grows(log, ran)
    PROVE /\ \A j : JournalIsBacked(j, gLog, gRan) => JournalIsBacked(j, log, ran)
          /\ \A d : DoneIsBacked(d, gLog, gRan) => DoneIsBacked(d, log, ran)
          /\ \A x : RunnerIsBacked(x, gLog, gRan) => RunnerIsBacked(x, log, ran)
<1>1. \A c \in Canonicals : effectKey(c) \in GKeys
  BY Zenon DEF effectKey, GKeys
<1>2. \A c \in Canonicals : /\ c \in gRan => c \in ran
                            /\ gLog[effectKey(c)] >= 1 => log[effectKey(c)] >= 1
  <2> TAKE c \in Canonicals
  <2>1. gLog[effectKey(c)] \in Nat /\ log[effectKey(c)] \in Nat /\ log[effectKey(c)] >= gLog[effectKey(c)]
    BY Zenon, <1>1 DEF GoldenInv, Grows
  <2> QED
    BY <2>1 DEF Grows
<1>3. \A j : JournalIsBacked(j, gLog, gRan) => JournalIsBacked(j, log, ran)
  BY Zenon, <1>2 DEF JournalIsBacked
<1>4. \A d : DoneIsBacked(d, gLog, gRan) => DoneIsBacked(d, log, ran)
  BY Zenon, <1>2 DEF DoneIsBacked
<1>5. \A x : RunnerIsBacked(x, gLog, gRan) => RunnerIsBacked(x, log, ran)
  BY Zenon, <1>3 DEF RunnerIsBacked
<1> QED
  BY Zenon, <1>3, <1>4, <1>5

\* One more application of an effect.
LEMMA ApplyGrows ==
    ASSUME GoldenInv, NEW k \in GKeys, Apply(k)
    PROVE /\ gLog' \in [GKeys -> Nat] /\ gLog'[k] >= 1 /\ gLog'[k] = gLog[k] + 1
          /\ \A l \in GKeys : gLog'[l] >= gLog[l] /\ (l # k => gLog'[l] = gLog[l])
<1>1. gLog' = [gLog EXCEPT ![k] = gLog[k] + 1] /\ gLog \in [GKeys -> Nat]
  BY Zenon DEF Apply, GoldenInv
<1>2. gLog' \in [GKeys -> Nat] /\ gLog'[k] = gLog[k] + 1 /\ \A l \in GKeys : gLog[l] \in Nat /\ (l # k => gLog'[l] = gLog[l])
  BY <1>1
<1> QED
  BY <1>2

\* The outcomes of a mission without a verdict.
LEMMA UnverifiedOutcome ==
    ASSUME NEW m
    PROVE /\ Unverified(m).decision \in {"reject", "refuse", "revoked"}
          /\ Unverified(m).applies => Unverified(m).decision = "revoked" /\ m.branch = "revocation"
<1> DEFINE b == hasStage(m.stages, "works")
<1>1. b \in BOOLEAN
  BY Zenon DEF hasStage
<1>2. \/ Unverified(m) \in {Reject, Outcome_("refuse", FALSE)}
      \/ Unverified(m) = Outcome_("revoked", b) /\ m.branch = "revocation"
  BY Zenon DEF Unverified, runRefusal, runRevocation
<1> HIDE DEF b
<1>3. Reject.decision = "reject" /\ Reject.applies = FALSE
  BY Zenon DEF Reject
<1>4. /\ Outcome_("refuse", FALSE).decision = "refuse" /\ Outcome_("refuse", FALSE).applies = FALSE
      /\ Outcome_("revoked", b).decision = "revoked"
  BY Zenon DEF Outcome_
<1> QED
  BY Zenon, <1>2, <1>3, <1>4

\* The outcomes of a mission with one.
LEMMA VerifiedOutcome ==
    ASSUME NEW r, NEW m, NEW v, m.branch \in allBranches
    PROVE /\ Verified(r, m, v).applies => Verified(r, m, v).decision \in {"accept", "recovered", "revoked"}
          /\ Verified(r, m, v).decision = "accept" => Verified(r, m, v).applies /\ Independent(r, m, v)
          /\ Verified(r, m, v).decision = "recovered" =>
               /\ Independent(r, m, v) /\ r.recovered /\ BoundTo(r.journal, m)
               /\ Verified(r, m, v).applies \/ Covers(r.journal)
          /\ Verified(r, m, v).applies => ~(m.branch = "crash-recovery" /\ Covers(r.journal))
<1> DEFINE b == ~PreCrashApplied(r.journal)
           out == Verified(r, m, v)
<1>1. b \in BOOLEAN /\ (b <=> ~Covers(r.journal))
  BY Zenon DEF PreCrashApplied, Covers
<1>2. \/ out = Reject
      \/ out = Unverified(m)
      \/ out = Outcome_("accept", TRUE) /\ Independent(r, m, v) /\ m.branch = "success"
      \/ out = Outcome_("recovered", b) /\ Independent(r, m, v) /\ r.recovered /\ BoundTo(r.journal, m)
  <2>1. CASE m.subject # v.subject \/ ~Independent(r, m, v) \/ v.key # m.canonical.key \/ ~CheckChain(m.canonical, m.stages)
    BY Zenon, <2>1 DEF Verified
  <2>2. CASE ~(m.subject # v.subject \/ ~Independent(r, m, v) \/ v.key # m.canonical.key \/ ~CheckChain(m.canonical, m.stages))
    <3>1. CASE m.branch \in {"refusal", "revocation"}
      BY Zenon, <2>2, <3>1 DEF Verified
    <3>2. CASE m.branch = "success"
      BY Zenon, <2>2, <3>2 DEF Verified, runSuccess
    <3>3. CASE m.branch = "crash-recovery"
      BY Zenon, <2>2, <3>3 DEF Verified, runCrashRecovery
    <3>4. CASE m.branch = "verifier-failure"
      BY Zenon, <2>2, <3>4 DEF Verified
    <3> QED
      BY Zenon, <3>1, <3>2, <3>3, <3>4 DEF allBranches
  <2> QED
    BY Zenon, <2>1, <2>2
<1> HIDE DEF b, out
<1>3. Reject.decision = "reject" /\ Reject.applies = FALSE
  BY Zenon DEF Reject
<1>4. /\ Outcome_("accept", TRUE).decision = "accept" /\ Outcome_("accept", TRUE).applies = TRUE
      /\ Outcome_("recovered", b).decision = "recovered" /\ Outcome_("recovered", b).applies = b
  BY Zenon DEF Outcome_
<1>5. /\ out.applies => out.decision \in {"accept", "recovered", "revoked"}
      /\ out.decision = "accept" => out.applies /\ Independent(r, m, v)
      /\ out.decision = "recovered" =>
           /\ Independent(r, m, v) /\ r.recovered /\ BoundTo(r.journal, m)
           /\ out.applies \/ Covers(r.journal)
      /\ out.applies => ~(m.branch = "crash-recovery" /\ Covers(r.journal))
  <2>1. CASE out = Reject
    BY Zenon, <2>1, <1>3
  <2>2. CASE out = Unverified(m)
    BY Zenon, <2>2, UnverifiedOutcome
  <2>3. CASE out = Outcome_("accept", TRUE) /\ Independent(r, m, v) /\ m.branch = "success"
    BY Zenon, <2>3, <1>4
  <2>4. CASE out = Outcome_("recovered", b) /\ Independent(r, m, v) /\ r.recovered /\ BoundTo(r.journal, m)
    BY Zenon, <2>4, <1>1, <1>4
  <2> QED
    BY Zenon, <1>2, <2>1, <2>2, <2>3, <2>4
<1> QED
  BY Zenon, <1>5 DEF out


\* What an outcome must show to be settled.
OutcomeIsSound(out, r, m, v) ==
    /\ out.applies => out.decision \in {"accept", "recovered", "revoked"}
    /\ out.decision \in {"accept", "recovered"} =>
         Independent(gRunner[r], m, v) /\ (out.applies \/ gLog[effectKey(m.canonical)] >= 1)
    /\ out.decision = "recovered" => m.canonical \in gRan
    /\ out.applies => ~(m.branch = "crash-recovery" /\ Covers(gRunner[r].journal))

\* Settling it.
LEMMA OutcomeSettles ==
    ASSUME GoldenInv, NEW r \in GRunner, NEW m \in GMission, NEW v, NEW out,
           OutcomeIsSound(out, r, m, v), Settle_(r, m, v, out)
    PROVE GoldenInv'
<1> DEFINE k == effectKey(m.canonical)
           d == [mission |-> m.canonical, decision |-> out.decision, verifier |-> v.principal,
                 runner |-> gRunner[r].principal]
<1>1. m.canonical \in Canonicals /\ k \in GKeys
  BY Zenon DEF Canonicals, GKeys, effectKey
<1>2. UNCHANGED <<gRunner, gSaved, gRan, gPrefixes>>
  BY Zenon DEF Settle_
<1>3. /\ gLog' \in [GKeys -> Nat]
      /\ \A l \in GKeys : gLog'[l] >= gLog[l] /\ (l # k => gLog'[l] = gLog[l])
      /\ out.applies => gLog'[k] >= 1
      /\ ~out.applies => gLog' = gLog
  <2>1. CASE out.applies
    <3>1. Apply(k)
      BY Zenon, <2>1 DEF Settle_
    <3> QED
      BY Zenon, <1>1, <2>1, <3>1, ApplyGrows
  <2>2. CASE ~out.applies
    <3>1. gLog' = gLog /\ gLog \in [GKeys -> Nat]
      BY Zenon, <2>2 DEF Settle_, GoldenInv
    <3> QED
      BY <2>2, <3>1
  <2> QED
    BY Zenon, <2>1, <2>2
<1>4. Grows(gLog', gRan')
  BY Zenon, <1>2, <1>3 DEF Grows
<1>5. /\ \A j : JournalIsBacked(j, gLog, gRan) => JournalIsBacked(j, gLog', gRan')
      /\ \A x : DoneIsBacked(x, gLog, gRan) => DoneIsBacked(x, gLog', gRan')
      /\ \A x : RunnerIsBacked(x, gLog, gRan) => RunnerIsBacked(x, gLog', gRan')
  BY Zenon, <1>4, BackedStays
<1>6. gDone' = IF out.decision \in {"accept", "recovered", "revoked"} THEN gDone \cup {d} ELSE gDone
  BY Zenon DEF Settle_
<1>7. /\ d.mission = m.canonical /\ d.decision = out.decision /\ d.verifier = v.principal
      /\ d.runner = gRunner[r].principal
  BY Zenon
<1> HIDE DEF d
<1>8. DoneIsBacked(d, gLog', gRan')
  <2>1. out.decision \in {"accept", "recovered"} => gLog'[k] >= 1
    <3>1. gLog[k] \in Nat /\ gLog'[k] \in Nat /\ gLog'[k] >= gLog[k]
      BY Zenon, <1>1, <1>3 DEF GoldenInv
    <3> QED
      BY Zenon, <1>3, <3>1 DEF OutcomeIsSound
  <2>2. out.decision \in {"accept", "recovered"} => v.principal # gRunner[r].principal /\ v.principal # m.canonical.principal
    BY Zenon DEF OutcomeIsSound, Independent
  <2>3. out.decision = "recovered" => m.canonical \in gRan'
    BY Zenon, <1>2 DEF OutcomeIsSound
  <2> QED
    BY Zenon, <1>1, <1>7, <2>1, <2>2, <2>3 DEF DoneIsBacked
<1>9. EffectIsDecided'
  <2> SUFFICES ASSUME NEW l \in GKeys, gLog'[l] >= 1
               PROVE \/ \E c \in gRan' : effectKey(c) = l
                     \/ \E x \in gDone' : effectKey(x.mission) = l
    BY Zenon DEF EffectIsDecided
  <2>1. CASE l = k /\ out.applies
    <3>1. d \in gDone' /\ effectKey(d.mission) = l
      BY Zenon, <1>6, <1>7, <2>1 DEF OutcomeIsSound
    <3> QED
      BY Zenon, <3>1
  <2>2. CASE ~(l = k /\ out.applies)
    <3>1. gLog[l] >= 1 /\ gDone \subseteq gDone'
      BY Zenon, <1>3, <1>6, <2>2
    <3> QED
      BY Zenon, <1>2, <3>1 DEF GoldenInv, EffectIsDecided
  <2> QED
    BY Zenon, <2>1, <2>2
<1>10. \A x \in gDone' : DoneIsBacked(x, gLog', gRan')
  BY Zenon, <1>5, <1>6, <1>8 DEF GoldenInv
<1>11. ResumeAppliesNothing'
  <2>1. gOpen \subseteq gOpen' /\ (out.applies => k \in gOpen')
    BY Zenon DEF Settle_, OutcomeIsSound
  <2>2. \A l \in GKeys \ gOpen' : gLog'[l] = gLog[l]
    BY Zenon, <1>3, <2>1
  <2> QED
    BY Zenon, <1>2, <2>1, <2>2 DEF GoldenInv, ResumeAppliesNothing
<1>12. DOMAIN gRunner' = GRunner /\ \A q \in GRunner : RunnerIsBacked(gRunner'[q], gLog', gRan')
  BY Zenon, <1>2, <1>5 DEF GoldenInv
<1>13. \A j \in gSaved' : JournalIsBacked(j, gLog', gRan')
  BY Zenon, <1>2, <1>5 DEF GoldenInv
<1> QED
  BY Zenon, <1>2, <1>3, <1>9, <1>10, <1>12, <1>13, <1>11 DEF GoldenInv

\* A call without a verdict.
LEMMA RunKeeps ==
    ASSUME GoldenInv, NEW r \in GRunner, NEW m \in GMission, Run(r, m)
    PROVE GoldenInv'
<1>1. Settle_(r, m, NoVerdict, Unverified(m))
  BY Zenon DEF Run
<1>2. OutcomeIsSound(Unverified(m), r, m, NoVerdict)
  BY Zenon, UnverifiedOutcome DEF OutcomeIsSound
<1> QED
  BY Zenon, <1>1, <1>2, OutcomeSettles

\* A call with one.
LEMMA RunWithVerificationKeeps ==
    ASSUME GoldenInv, NEW r \in GRunner, NEW m \in GMission, NEW v, RunWithVerification(r, m, v)
    PROVE GoldenInv'
<1> DEFINE x == gRunner[r]
           out == Verified(x, m, v)
<1>1. Settle_(r, m, v, out) /\ m.branch \in allBranches /\ x # NoRunner
  BY Zenon DEF RunWithVerification
<1>2. RunnerIsBacked(x, gLog, gRan)
  BY Zenon DEF GoldenInv
<1>3. /\ out.applies => out.decision \in {"accept", "recovered", "revoked"}
      /\ out.decision = "accept" => out.applies /\ Independent(x, m, v)
      /\ out.decision = "recovered" =>
           Independent(x, m, v) /\ x.recovered /\ BoundTo(x.journal, m) /\ (out.applies \/ Covers(x.journal))
      /\ out.applies => ~(m.branch = "crash-recovery" /\ Covers(x.journal))
  BY Zenon, <1>1, VerifiedOutcome
<1> HIDE DEF out
<1>4. ASSUME out.decision = "recovered"
      PROVE m.canonical \in gRan /\ (out.applies \/ gLog[effectKey(m.canonical)] >= 1)
  <2>1. JournalIsBacked(x.journal, gLog, gRan) /\ x.journal.canonical = m.canonical
    BY Zenon, <1>1, <1>2, <1>3, <1>4 DEF RunnerIsBacked, BoundTo
  <2> QED
    BY Zenon, <1>3, <1>4, <2>1 DEF JournalIsBacked
<1>5. OutcomeIsSound(out, r, m, v)
  BY Zenon, <1>3, <1>4 DEF OutcomeIsSound
<1> QED
  BY Zenon, <1>1, <1>5, OutcomeSettles

\* A step that only changes a runner.
LEMMA RunnerChanges ==
    ASSUME GoldenInv, NEW r \in GRunner, NEW x, RunnerIsBacked(x, gLog, gRan),
           gRunner' = [gRunner EXCEPT ![r] = x], UNCHANGED <<gLog, gSaved, gDone, gRan, gPrefixes>>,
           gOpen \subseteq gOpen'
    PROVE GoldenInv'
<1>1. DOMAIN gRunner' = GRunner /\ \A q \in GRunner : RunnerIsBacked(gRunner'[q], gLog, gRan)
  BY Zenon DEF GoldenInv
<1> QED
  BY Zenon, <1>1 DEF GoldenInv, EffectIsDecided, ResumeAppliesNothing

\* A new runner, without a journal.
LEMMA NewRunnerKeeps ==
    ASSUME GoldenInv, NEW r \in GRunner, NEW p \in GPrincipal, NewRunner(r, p)
    PROVE GoldenInv'
<1> DEFINE x == [principal |-> p, journal |-> NoJournal, recovered |-> FALSE]
<1>1. NoJournal \in Journal
  BY DEF NoJournal, Journal
<1>2. x \in Runner /\ x.journal = NoJournal /\ x.recovered = FALSE
  BY Zenon, <1>1 DEF Runner
<1>3. gRunner' = [gRunner EXCEPT ![r] = x] /\ UNCHANGED <<gLog, gSaved, gDone, gRan, gPrefixes>> /\ gOpen \subseteq gOpen'
  BY Zenon DEF NewRunner
<1> HIDE DEF x
<1>4. RunnerIsBacked(x, gLog, gRan)
  BY Zenon, <1>2 DEF RunnerIsBacked
<1> QED
  BY Zenon, <1>3, <1>4, RunnerChanges

\* A recovered one: the beginning of a backed journal is backed.
LEMMA RecoverKeeps ==
    ASSUME GoldenInv, NEW r \in GRunner, NEW p \in GPrincipal, NEW j \in gSaved, NEW n \in DOMAIN j.stages,
           Recover(r, p, j, n)
    PROVE GoldenInv'
<1> DEFINE kept == [j EXCEPT !.stages = SubSeq(j.stages, 1, n)]
           x == [principal |-> p, journal |-> kept, recovered |-> TRUE]
<1>1. JournalIsBacked(j, gLog, gRan)
  BY Zenon DEF GoldenInv
<1>2. j \in Journal /\ j.stages \in Seq(STRING)
  BY Zenon, <1>1 DEF JournalIsBacked, Journal
<1>3. n \in 1..Len(j.stages) /\ Len(j.stages) \in Nat /\ DOMAIN j.stages = 1..Len(j.stages)
  BY Zenon, <1>2, LenProperties
<1>4. /\ SubSeq(j.stages, 1, n) \in Seq(STRING) /\ Len(SubSeq(j.stages, 1, n)) = n
      /\ \A i \in 1..n : SubSeq(j.stages, 1, n)[i] = j.stages[i]
  <2>1. \A i \in 1..n : j.stages[i] \in STRING
    BY <1>2, <1>3
  <2>2. SubSeq(j.stages, 1, n) = [i \in 1..n |-> j.stages[i]]
    BY <1>2, <1>3
  <2>3. [i \in 1..n |-> j.stages[i]] \in [1..n -> STRING]
    BY Zenon, <2>1
  <2> QED
    BY <1>2, <1>3, <2>2, <2>3, SeqDef, LenProperties
<1>5. DOMAIN SubSeq(j.stages, 1, n) = 1..n
  BY Zenon, <1>4, LenProperties
<1>6. kept \in Journal /\ kept.canonical = j.canonical /\ kept.stages = SubSeq(j.stages, 1, n)
  BY ZenonT(60), <1>2, <1>4 DEF Journal
<1>7. gRunner' = [gRunner EXCEPT ![r] = x] /\ UNCHANGED <<gLog, gSaved, gDone, gRan, gPrefixes>> /\ gOpen \subseteq gOpen'
  BY Zenon DEF Recover
<1> HIDE DEF kept
<1>8. Covers(kept) => Covers(j)
  BY <1>3, <1>4, <1>5, <1>6 DEF Covers
<1>9. JournalIsBacked(kept, gLog, gRan)
  BY Zenon, <1>1, <1>6, <1>8 DEF JournalIsBacked
<1>10. x \in Runner /\ x.journal = kept
  BY Zenon, <1>6 DEF Runner
<1> HIDE DEF x
<1>11. RunnerIsBacked(x, gLog, gRan)
  BY Zenon, <1>9, <1>10 DEF RunnerIsBacked
<1> QED
  BY Zenon, <1>7, <1>11, RunnerChanges


\* The beginning of a sequence.
LEMMA Beginning ==
    ASSUME NEW S, NEW s \in Seq(S), NEW n \in DOMAIN s
    PROVE n \in Nat /\ DOMAIN SubSeq(s, 1, n) = 1..n /\ \A i \in 1..n : i \in DOMAIN s /\ SubSeq(s, 1, n)[i] = s[i]
<1>1. n \in 1..Len(s) /\ Len(s) \in Nat /\ DOMAIN s = 1..Len(s)
  BY Zenon, LenProperties
<1>2. SubSeq(s, 1, n) = [i \in 1..n |-> s[i]]
  BY <1>1
<1> QED
  BY <1>1, <1>2

\* An executed prefix: its effect is in the log when it reached works, and its journal says so.
LEMMA RunPrefixKeeps ==
    ASSUME GoldenInv, NEW r \in GRunner, NEW m \in GMission, NEW at \in DOMAIN m.stages, NEW kept \in BOOLEAN,
           RunPrefix(r, m, at, kept)
    PROVE GoldenInv'
<1> DEFINE done == SubSeq(m.stages, 1, at)
           j == [canonical |-> m.canonical, stages |-> stageNames(done)]
           k == effectKey(m.canonical)
           x == [gRunner[r] EXCEPT !.journal = j]
<1>1. m.canonical \in Canonicals /\ k \in GKeys
  BY Zenon DEF Canonicals, GKeys, effectKey
<1>2. /\ gRunner' = [gRunner EXCEPT ![r] = x]
      /\ gRunner[r] # NoRunner
      /\ IF hasStage(done, "works") THEN Apply(k) ELSE gLog' = gLog
      /\ gSaved' \subseteq gSaved \cup {j}
      /\ gRan' = gRan \cup {m.canonical} /\ gPrefixes' = [gPrefixes EXCEPT ![k] = gPrefixes[k] + 1]
      /\ gDone' = gDone
      /\ gOpen' = IF hasStage(done, "works") THEN gOpen ELSE gOpen \cup {k}
  BY Zenon DEF RunPrefix
<1>3. /\ at \in Nat /\ DOMAIN done = 1..at
      /\ \A i \in 1..at : done[i].name \in STRING
  <2>1. m.stages \in Seq([name : STRING, ids : {"same", "other", "undecided"}])
    BY Zenon, GoldenAssumption
  <2>2. at \in Nat /\ DOMAIN done = 1..at /\ \A i \in 1..at : i \in DOMAIN m.stages /\ done[i] = m.stages[i]
    BY Zenon, <2>1, Beginning
  <2>3. \A i \in DOMAIN m.stages : m.stages[i] \in [name : STRING, ids : {"same", "other", "undecided"}]
    <3> DEFINE St == [name : STRING, ids : {"same", "other", "undecided"}]
    <3>1. m.stages \in Seq(St)
      BY Zenon, <2>1
    <3> HIDE DEF St
    <3>2. \A i \in DOMAIN m.stages : m.stages[i] \in St
      BY Zenon, <3>1, LenProperties
    <3> QED
      BY Zenon, <3>2 DEF St
  <2> HIDE DEF done
  <2> QED
    BY Zenon, <2>2, <2>3
<1> HIDE DEF done
<1>4. stageNames(done) \in Seq(STRING) /\ DOMAIN stageNames(done) = DOMAIN done
      /\ \A i \in DOMAIN done : stageNames(done)[i] = done[i].name
  <2>1. stageNames(done) \in [1..at -> STRING]
    BY Zenon, <1>3 DEF stageNames
  <2>2. stageNames(done) \in Seq(STRING)
    BY <1>3, <2>1, SeqDef
  <2> QED
    BY Zenon, <2>2 DEF stageNames
<1>5. j \in Journal /\ j.canonical = m.canonical /\ j.stages = stageNames(done)
  BY Zenon, <1>1, <1>4 DEF Journal
<1> HIDE DEF j
<1>6. Covers(j) => hasStage(done, "works")
  BY Zenon, <1>4, <1>5 DEF Covers, hasStage
<1>7. /\ gLog' \in [GKeys -> Nat]
      /\ \A l \in GKeys : gLog'[l] >= gLog[l] /\ (l # k => gLog'[l] = gLog[l])
      /\ hasStage(done, "works") => gLog'[k] >= 1 /\ gLog'[k] = gLog[k] + 1
      /\ ~hasStage(done, "works") => gLog' = gLog
  <2>1. CASE hasStage(done, "works")
    BY Zenon, <1>1, <1>2, <2>1, ApplyGrows
  <2>2. CASE ~hasStage(done, "works")
    <3>1. gLog' = gLog /\ gLog \in [GKeys -> Nat]
      BY Zenon, <1>2, <2>2 DEF GoldenInv
    <3> QED
      BY <2>2, <3>1
  <2> QED
    BY Zenon, <2>1, <2>2
<1>8. /\ gPrefixes' \in [GKeys -> Nat] /\ gPrefixes'[k] = gPrefixes[k] + 1
      /\ \A l \in GKeys : l # k => gPrefixes'[l] = gPrefixes[l]
  BY <1>1, <1>2 DEF GoldenInv
<1>9. Grows(gLog', gRan')
  BY Zenon, <1>2, <1>7 DEF Grows
<1>10. /\ \A i : JournalIsBacked(i, gLog, gRan) => JournalIsBacked(i, gLog', gRan')
       /\ \A d : DoneIsBacked(d, gLog, gRan) => DoneIsBacked(d, gLog', gRan')
       /\ \A y : RunnerIsBacked(y, gLog, gRan) => RunnerIsBacked(y, gLog', gRan')
  BY Zenon, <1>9, BackedStays
<1>11. JournalIsBacked(j, gLog', gRan')
  BY Zenon, <1>1, <1>2, <1>5, <1>6, <1>7 DEF JournalIsBacked
<1>12. x \in Runner /\ x.journal = j
  <2>1. gRunner[r] \in Runner
    BY Zenon, <1>2 DEF GoldenInv, RunnerIsBacked
  <2> QED
    BY Zenon, <1>5, <2>1 DEF Runner
<1> HIDE DEF x
<1>13. DOMAIN gRunner' = GRunner /\ \A q \in GRunner : RunnerIsBacked(gRunner'[q], gLog', gRan')
  <2>1. RunnerIsBacked(x, gLog', gRan')
    BY Zenon, <1>11, <1>12 DEF RunnerIsBacked
  <2>2. DOMAIN gRunner' = GRunner /\ gRunner'[r] = x /\ \A q \in GRunner : q # r => gRunner'[q] = gRunner[q]
    BY Zenon, <1>2 DEF GoldenInv
  <2> QED
    BY Zenon, <1>10, <2>1, <2>2 DEF GoldenInv
<1>14. EffectIsDecided'
  <2> SUFFICES ASSUME NEW l \in GKeys, gLog'[l] >= 1
               PROVE \/ \E c \in gRan' : effectKey(c) = l
                     \/ \E d \in gDone' : effectKey(d.mission) = l
    BY Zenon DEF EffectIsDecided
  <2>1. CASE l = k
    BY Zenon, <1>2, <2>1
  <2>2. CASE l # k
    <3>1. gLog[l] >= 1
      BY Zenon, <1>7, <2>2
    <3> QED
      BY Zenon, <1>2, <3>1 DEF GoldenInv, EffectIsDecided
  <2> QED
    BY Zenon, <2>1, <2>2
<1>15. ResumeAppliesNothing'
  <2> SUFFICES ASSUME NEW l \in GKeys \ gOpen' PROVE gLog'[l] = gPrefixes'[l]
    BY Zenon DEF ResumeAppliesNothing
  <2>1. l \in GKeys \ gOpen /\ gLog[l] = gPrefixes[l]
    BY Zenon, <1>2 DEF GoldenInv, ResumeAppliesNothing
  <2>2. CASE l = k
    BY Zenon, <1>2, <1>7, <1>8, <2>1, <2>2
  <2>3. CASE l # k
    BY Zenon, <1>7, <1>8, <2>1, <2>3
  <2> QED
    BY Zenon, <2>2, <2>3
<1>16. \A i \in gSaved' : JournalIsBacked(i, gLog', gRan')
  BY Zenon, <1>2, <1>10, <1>11 DEF GoldenInv
<1>17. \A d \in gDone' : DoneIsBacked(d, gLog', gRan')
  BY ZenonT(60), <1>2, <1>10 DEF GoldenInv
<1> QED
  BY Zenon, <1>7, <1>8, <1>13, <1>14, <1>16, <1>17, <1>15 DEF GoldenInv

\* Every step of the runners keeps it.
LEMMA GoldenKept == GoldenInv /\ [GoldenNext]_goldenVars => GoldenInv'
<1> SUFFICES ASSUME GoldenInv, [GoldenNext]_goldenVars PROVE GoldenInv'
  BY Zenon
<1>1. CASE UNCHANGED goldenVars
  BY Zenon, <1>1 DEF goldenVars, GoldenInv, EffectIsDecided, ResumeAppliesNothing
<1>2. ASSUME NEW r \in GRunner, Crash(r) PROVE GoldenInv'
  <2>1. RunnerIsBacked(NoRunner, gLog, gRan)
    BY Zenon DEF RunnerIsBacked
  <2>2. gRunner' = [gRunner EXCEPT ![r] = NoRunner] /\ UNCHANGED <<gLog, gSaved, gDone, gRan, gPrefixes>> /\ gOpen \subseteq gOpen'
    BY Zenon, <1>2 DEF Crash
  <2> QED
    BY Zenon, <2>1, <2>2, RunnerChanges
<1>3. ASSUME NEW r \in GRunner, NEW p \in GPrincipal, NewRunner(r, p) PROVE GoldenInv'
  BY Zenon, <1>3, NewRunnerKeeps
<1>4. ASSUME NEW r \in GRunner, NEW p \in GPrincipal, NEW j \in gSaved, NEW n \in DOMAIN j.stages, Recover(r, p, j, n)
      PROVE GoldenInv'
  BY Zenon, <1>4, RecoverKeeps
<1>5. ASSUME NEW r \in GRunner, NEW m \in GMission, Run(r, m) PROVE GoldenInv'
  BY Zenon, <1>5, RunKeeps
<1>6. ASSUME NEW r \in GRunner, NEW m \in GMission, NEW v \in GVerification, RunWithVerification(r, m, v) PROVE GoldenInv'
  BY Zenon, <1>6, RunWithVerificationKeeps
<1>7. ASSUME NEW r \in GRunner, NEW m \in GMission, NEW at \in DOMAIN m.stages, NEW kept \in BOOLEAN, RunPrefix(r, m, at, kept)
      PROVE GoldenInv'
  BY Zenon, <1>7, RunPrefixKeeps
<1> QED
  BY Zenon, <1>1, <1>2, <1>3, <1>4, <1>5, <1>6, <1>7 DEF GoldenNext

\* It holds in every state.
LEMMA GoldenInvariant == GoldenSpec => []GoldenInv
<1>1. GoldenInit => GoldenInv
  BY DEF GoldenInit, GoldenInv, RunnerIsBacked, EffectIsDecided, ResumeAppliesNothing
<1> QED
  BY <1>1, GoldenKept, PTL DEF GoldenSpec

\* A mission that was accepted or recovered has had its effect, also when only a journal
\* tells of it; a recovered one ran its own prefix; and nobody completed one on the word of
\* its runner or its own principal (runSuccess, runCrashRecovery, RunWithVerification).
THEOREM CompletionsAreBacked ==
    GoldenSpec => [](CompletedHasItsEffect /\ RecoveredRanItsPrefix /\ VerdictIsIndependent)
<1>1. GoldenInv => CompletedHasItsEffect /\ RecoveredRanItsPrefix /\ VerdictIsIndependent
  BY Zenon DEF GoldenInv, DoneIsBacked, Completed, CompletedHasItsEffect, RecoveredRanItsPrefix, VerdictIsIndependent
<1> QED
  BY <1>1, GoldenInvariant, PTL

\* An effect in the log has an executed prefix or a decision behind it: rejected and refused
\* calls leave none (Run, RunWithVerification, RunPrefix).
THEOREM EffectsAreDecided == GoldenSpec => []EffectIsDecided
<1>1. GoldenInv => EffectIsDecided
  BY Zenon DEF GoldenInv
<1> QED
  BY <1>1, GoldenInvariant, PTL

\* While only executed prefixes that reached works applied an action's effect, and no kept
\* journal lost its works entry, it was applied as often as prefixes were executed: a resume
\* adds nothing (runCrashRecovery).
THEOREM ResumesApplyNothing == GoldenSpec => []ResumeAppliesNothing
<1>1. GoldenInv => ResumeAppliesNothing
  BY Zenon DEF GoldenInv
<1> QED
  BY <1>1, GoldenInvariant, PTL

=============================================================================
