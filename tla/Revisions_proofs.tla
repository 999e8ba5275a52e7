-------------------------- MODULE Revisions_proofs --------------------------
(***************************************************************************)
(* Proofs about what is kept in revisions, for every set of paths,         *)
(* contents, requests, sources and trust roots: the revisions of the       *)
(* brain, and the generations of the economic sources with the roots that  *)
(* sign them. The two share no variable; each has its own inductive        *)
(* invariant.                                                              *)
(***************************************************************************)
EXTENDS Brain, EconomicSources, TLAPS

-----------------------------------------------------------------------------
(* Facts about sequences. *)

\* Sequences are functions on an interval.
LEMMA SeqDef ==
    ASSUME NEW S
    PROVE  Seq(S) = UNION {[1..n -> S] : n \in Nat}
  OBVIOUS

\* A sequence is a function on 1 to its length.
LEMMA LenProperties ==
    ASSUME NEW S, NEW seq \in Seq(S)
    PROVE  Len(seq) \in Nat /\ seq \in [1..Len(seq) -> S] /\ DOMAIN seq = 1..Len(seq)
  OBVIOUS

\* What a sequence holds.
LEMMA ElementOfSeq ==
    ASSUME NEW S, NEW seq \in Seq(S), NEW n \in 1..Len(seq)
    PROVE  seq[n] \in S
  OBVIOUS

\* The empty sequence is the one of length 0.
LEMMA EmptySeq ==
    ASSUME NEW S
    PROVE  /\ << >> \in Seq(S) /\ Len(<< >>) = 0
           /\ \A seq \in Seq(S) : seq # << >> => Len(seq) \in Nat \ {0}
  OBVIOUS

\* What Append makes of a sequence.
LEMMA AppendProperties ==
    ASSUME NEW S, NEW seq \in Seq(S), NEW elt \in S
    PROVE  /\ Append(seq, elt) \in Seq(S) /\ Append(seq, elt) # << >>
           /\ Len(Append(seq, elt)) = Len(seq) + 1
           /\ \A i \in 1..Len(seq) : Append(seq, elt)[i] = seq[i]
           /\ Append(seq, elt)[Len(seq) + 1] = elt
  OBVIOUS

\* A sequence with one element replaced.
LEMMA ExceptSeq ==
    ASSUME NEW S, NEW seq \in Seq(S), NEW i \in 1..Len(seq), NEW e \in S
    PROVE  /\ [seq EXCEPT ![i] = e] \in Seq(S) /\ Len([seq EXCEPT ![i] = e]) = Len(seq)
           /\ \A j \in 1..Len(seq) : [seq EXCEPT ![i] = e][j] = IF j = i THEN e ELSE seq[j]
  OBVIOUS

-----------------------------------------------------------------------------
(* The brain: what a writer was answered stands, and law is made by a human. *)

\* The rows and the requests, and the shape of the state.
BrainRow ==
    [class : Class, content : Content \cup {NoContent}, auth : BOOLEAN, stamp : Human \cup {NoHuman},
     tomb : BOOLEAN, expires : Nat, by : Nat]

BrainRequest ==
    [pc : {"new", "refused", "allocate", "insert", "stamp", "written", "failed"},
     kind : {"create", "promote", "tombstone"}, path : Path, row : BrainRow \cup {NoRow}, human : Human \cup {NoHuman}, rev : Nat]

BrainShape ==
    /\ rows \in [Path -> Seq(BrainRow)] /\ breq \in [BRequest -> BrainRequest]
    /\ bnow \in Nat /\ governed \in BOOLEAN

\* Law is made by a human, of knowledge that lives.
StampedByHuman(r) == r.auth => r.stamp \in Human /\ r.class # "ephemeral" /\ ~r.tomb

\* What request q, of this kind and human, was answered with.
IsAnswer(r, q, kind, human) == IF kind = "promote" THEN r.auth /\ r.stamp = human ELSE r.by = q

\* A request carries the row it will write; the revision it allocated is free or taken, but
\* not beyond the next one; what it was answered with is there.
WriterStands(q) ==
    LET x == breq[q]
        l == rows[x.path]
    IN  /\ governed => x.pc = "new"
        /\ x.pc \in {"allocate", "insert"} =>
             x.row \in BrainRow /\ StampedByHuman(x.row) /\ IsAnswer(x.row, q, x.kind, x.human)
        /\ x.pc = "insert" => x.rev >= 1 /\ x.rev <= Len(l) + 1
        /\ x.pc = "stamp" => x.kind = "promote" /\ x.human \in Human /\ Len(l) >= 1
        /\ x.pc = "written" => x.rev \in 1..Len(l) /\ IsAnswer(l[x.rev], q, x.kind, x.human)

\* The law of one lineage.
Lawful(l) ==
    \A i \in 1..Len(l) :
        /\ l[1].class = "immutable" => Len(l) = 1
        /\ l[i].tomb => i = Len(l) /\ l[i].class = "mutable_with_revision"
        /\ l[i].class = l[1].class

\* The inductive invariant: the law holds, and every request in flight can still be answered
\* truly.
BrainInv ==
    /\ BrainShape /\ AuthorityIsHuman
    /\ \A q \in BRequest : WriterStands(q)
    /\ governed => \A p \in Path : Lawful(rows[p])

\* A lineage m after a write of lineage l: nothing is lost, and the only change is the
\* stamp of an immutable object.
Continues(l, m) ==
    /\ Len(m) >= Len(l)
    /\ \A i \in 1..Len(l) :
         \/ m[i] = l[i]
         \/ /\ i = 1 /\ l[1].class = "immutable" /\ ~l[1].auth
            /\ m[1] = [l[1] EXCEPT !.auth = TRUE, !.stamp = m[1].stamp]

\* So does every lineage in this step.
RowsContinue == \A p \in Path : Continues(rows[p], rows'[p])

\* An answer stays what it was when the lineage goes on.
LEMMA AnswerStays ==
    ASSUME NEW l \in Seq(BrainRow), NEW m \in Seq(BrainRow), Continues(l, m), NEW i \in 1..Len(l),
           NEW q, NEW kind, NEW human, IsAnswer(l[i], q, kind, human)
    PROVE  IsAnswer(m[i], q, kind, human)
<1>1. l[i] \in BrainRow
  BY Zenon, ElementOfSeq
<1>2. CASE m[i] = l[i]
  BY Zenon, <1>2
<1>3. CASE i = 1 /\ ~l[1].auth /\ m[1] = [l[1] EXCEPT !.auth = TRUE, !.stamp = m[1].stamp]
  <2>1. m[i].by = l[i].by
    BY Zenon, <1>1, <1>3 DEF BrainRow
  <2> QED
    BY Zenon, <1>3, <2>1 DEF IsAnswer
<1> QED
  BY Zenon, <1>2, <1>3 DEF Continues

\* The requests a step leaves alone still stand.
LEMMA WritersStay ==
    ASSUME BrainInv, BrainShape', RowsContinue, governed' = governed, NEW q \in BRequest, breq'[q] = breq[q]
    PROVE  WriterStands(q)'
<1> DEFINE x == breq[q]
           l == rows[x.path]
           m == rows'[x.path]
<1>1. x \in BrainRequest /\ l \in Seq(BrainRow) /\ m \in Seq(BrainRow) /\ Continues(l, m) /\ x = breq'[q]
  BY Zenon DEF BrainInv, BrainShape, BrainRequest, RowsContinue
<1>2. Len(l) \in Nat /\ Len(m) \in Nat /\ Len(m) >= Len(l) /\ x.rev \in Nat
  BY Zenon, <1>1, LenProperties DEF Continues, BrainRequest
<1>3. /\ governed => x.pc = "new"
      /\ x.pc \in {"allocate", "insert"} =>
           x.row \in BrainRow /\ StampedByHuman(x.row) /\ IsAnswer(x.row, q, x.kind, x.human)
      /\ x.pc = "insert" => x.rev >= 1 /\ x.rev <= Len(l) + 1
      /\ x.pc = "stamp" => x.kind = "promote" /\ x.human \in Human /\ Len(l) >= 1
      /\ x.pc = "written" => x.rev \in 1..Len(l) /\ IsAnswer(l[x.rev], q, x.kind, x.human)
  BY Zenon DEF BrainInv, WriterStands
<1> HIDE DEF x, l, m
<1>4. /\ x.pc = "insert" => x.rev >= 1 /\ x.rev <= Len(m) + 1
      /\ x.pc = "stamp" => x.kind = "promote" /\ x.human \in Human /\ Len(m) >= 1
  BY <1>2, <1>3
<1>5. x.pc = "written" => x.rev \in 1..Len(m) /\ IsAnswer(m[x.rev], q, x.kind, x.human)
  <2> SUFFICES ASSUME x.pc = "written"
               PROVE  x.rev \in 1..Len(m) /\ IsAnswer(m[x.rev], q, x.kind, x.human)
    BY Zenon
  <2>1. x.rev \in 1..Len(l) /\ IsAnswer(l[x.rev], q, x.kind, x.human)
    BY Zenon, <1>3
  <2>2. IsAnswer(m[x.rev], q, x.kind, x.human)
    BY Zenon, <1>1, <2>1, AnswerStays
  <2> QED
    BY <1>2, <2>1, <2>2
<1> QED
  BY Zenon, <1>1, <1>3, <1>4, <1>5 DEF WriterStands, x, m

\* A request that moves on.
LEMMA OneWriterMoves ==
    ASSUME BrainInv, BrainShape', AuthorityIsHuman', RowsContinue, ~governed, governed' = governed,
           NEW q \in BRequest, WriterStands(q)', \A r \in BRequest \ {q} : breq'[r] = breq[r]
    PROVE  BrainInv'
<1>1. \A r \in BRequest \ {q} : WriterStands(r)'
  BY Zenon, WritersStay
<1> QED
  BY Zenon, <1>1 DEF BrainInv

\* A lineage that is left alone continues, and so does one with one more row.
LEMMA Continuation ==
    ASSUME NEW l \in Seq(BrainRow)
    PROVE  /\ Continues(l, l)
           /\ \A r \in BrainRow : /\ Append(l, r) \in Seq(BrainRow) /\ Continues(l, Append(l, r))
                                  /\ Len(Append(l, r)) = Len(l) + 1 /\ Append(l, r)[Len(l) + 1] = r
                                  /\ \A i \in 1..Len(l) : Append(l, r)[i] = l[i]
<1>1. Len(l) \in Nat
  BY Zenon, LenProperties
<1>2. ASSUME NEW r \in BrainRow
      PROVE  /\ Append(l, r) \in Seq(BrainRow) /\ Len(Append(l, r)) = Len(l) + 1
             /\ Append(l, r)[Len(l) + 1] = r /\ \A i \in 1..Len(l) : Append(l, r)[i] = l[i]
  BY AppendProperties
<1> QED
  BY <1>1, <1>2 DEF Continues

-----------------------------------------------------------------------------
\* The law table, the rows it makes, and the shape of what a request writes.
LEMMA MadeRows ==
    ASSUME BrainShape, NEW class \in Class, NEW content \in Content \cup {NoContent}, NEW e \in Nat
    PROVE  /\ Row(class, content, e) \in BrainRow /\ Expires(class) \in Nat
           /\ LET r == Row(class, content, e)
              IN ~r.auth /\ ~r.tomb /\ r.class = class /\ r.content = content
<1>1. Expires(class) \in Nat
  BY BrainAssumption DEF Expires, BrainShape
<1> QED
  BY Zenon, <1>1 DEF Row, BrainRow

\* The latest row of a path that has one.
LEMMA LatestIsARow ==
    ASSUME BrainShape, NEW p \in Path, rows[p] # <<>>
    PROVE  Len(rows[p]) \in Nat \ {0} /\ Latest(p) \in BrainRow /\ Len(rows[p]) \in 1..Len(rows[p])
<1>1. rows[p] \in Seq(BrainRow)
  BY Zenon DEF BrainShape
<1>2. Len(rows[p]) \in Nat /\ Len(rows[p]) # 0
  BY Zenon, <1>1, LenProperties, EmptySeq
<1>3. Len(rows[p]) \in 1..Len(rows[p])
  BY <1>2
<1> QED
  BY Zenon, <1>1, <1>2, <1>3, ElementOfSeq DEF Latest

\* The law of a path, after a step that makes its lineage m.
LEMMA LawMoves ==
    ASSUME BrainInv, NEW p \in Path, NEW m \in Seq(BrainRow), LawWrite(p, m),
           Continues(rows[p], m), Lawful(m), \A i \in 1..Len(m) : StampedByHuman(m[i])
    PROVE  BrainInv' /\ RowsContinue
<1>1. rows' = [rows EXCEPT ![p] = m] /\ governed /\ UNCHANGED <<breq, bnow, governed>>
  BY Zenon DEF LawWrite
<1>2. BrainShape /\ BrainShape'
  BY Zenon, <1>1 DEF BrainInv, BrainShape
<1>3. rows'[p] = m /\ \A r \in Path \ {p} : rows'[r] = rows[r]
  BY Zenon, <1>1, <1>2 DEF BrainShape
<1>4. RowsContinue
  <2> SUFFICES ASSUME NEW r \in Path PROVE Continues(rows[r], rows'[r])
    BY Zenon DEF RowsContinue
  <2>1. CASE r = p
    BY Zenon, <1>3, <2>1
  <2>2. CASE r # p
    BY Zenon, <1>2, <1>3, <2>2, Continuation DEF BrainShape
  <2> QED
    BY Zenon, <2>1, <2>2
<1>5. AuthorityIsHuman'
  BY ZenonT(60), <1>3 DEF BrainInv, AuthorityIsHuman, StampedByHuman
<1>6. \A r \in Path : Lawful(rows'[r])
  BY Zenon, <1>1, <1>3 DEF BrainInv
<1>7. \A q \in BRequest : WriterStands(q)'
  BY Zenon, <1>1, <1>2, <1>4, WritersStay
<1> QED
  BY Zenon, <1>1, <1>2, <1>4, <1>5, <1>6, <1>7 DEF BrainInv, Lawful

\* A revision that follows a row of its class that is no tombstone and not immutable
\* keeps the lineage lawful.
LEMMA LawfulRevision ==
    ASSUME NEW l \in Seq(BrainRow), Lawful(l), l # <<>>, NEW r \in BrainRow,
           l[Len(l)].class # "immutable", ~l[Len(l)].tomb, r.class = l[Len(l)].class,
           r.tomb => r.class = "mutable_with_revision"
    PROVE  Lawful(Append(l, r))
<1> DEFINE m == Append(l, r)
<1>1. Len(l) \in Nat /\ Len(l) # 0
  BY Zenon, LenProperties, EmptySeq
<1>2. Len(m) = Len(l) + 1 /\ m[Len(l) + 1] = r /\ \A i \in 1..Len(l) : m[i] = l[i]
  BY Zenon, Continuation
<1>3. l[Len(l)].class = l[1].class /\ m[1] = l[1] /\ m[1].class # "immutable"
  BY <1>1, <1>2 DEF Lawful
<1> HIDE DEF m
<1> SUFFICES ASSUME NEW i \in 1..Len(m)
             PROVE  /\ m[i].tomb => i = Len(m) /\ m[i].class = "mutable_with_revision"
                    /\ m[i].class = m[1].class
  BY Zenon, <1>3 DEF Lawful, m
<1>4. CASE i = Len(l) + 1
  BY Zenon, <1>2, <1>3, <1>4
<1>5. CASE i # Len(l) + 1
  <2>1. i \in 1..Len(l) /\ m[i] = l[i]
    BY <1>1, <1>2, <1>5
  <2>2. ~l[i].tomb
    BY Zenon, <1>1, <2>1 DEF Lawful
  <2> QED
    BY Zenon, <1>3, <2>1, <2>2 DEF Lawful
<1> QED
  BY Zenon, <1>4, <1>5

\* A revision the package appends.
LEMMA RevisionByLaw ==
    ASSUME BrainInv, NEW p \in Path, NEW r \in BrainRow, rows[p] # <<>>, MayRevise(Latest(p)),
           r.class = Latest(p).class, StampedByHuman(r), r.tomb => r.class = "mutable_with_revision",
           LawWrite(p, Append(rows[p], r))
    PROVE  BrainInv' /\ RowsContinue
<1> DEFINE l == rows[p]
           m == Append(l, r)
<1>1. l \in Seq(BrainRow) /\ Lawful(l) /\ Latest(p) = l[Len(l)] /\ Latest(p) \in BrainRow /\ Len(l) \in 1..Len(l)
  BY Zenon, LatestIsARow DEF BrainInv, BrainShape, Latest, LawWrite
<1>2. ~Latest(p).tomb /\ Latest(p).class # "immutable"
  <2>1. Latest(p).tomb => Latest(p).class = "mutable_with_revision"
    BY Zenon, <1>1 DEF Lawful
  <2> QED
    BY Zenon, <2>1 DEF MayRevise
<1>3. Lawful(m)
  BY Zenon, <1>1, <1>2, LawfulRevision
<1>4. /\ m \in Seq(BrainRow) /\ Continues(l, m) /\ Len(m) = Len(l) + 1 /\ m[Len(l) + 1] = r
      /\ \A i \in 1..Len(l) : m[i] = l[i]
  BY Zenon, <1>1, Continuation
<1>5. \A i \in 1..Len(l) : StampedByHuman(l[i])
  BY Zenon DEF BrainInv, AuthorityIsHuman, StampedByHuman
<1>6. \A i \in 1..Len(m) : StampedByHuman(m[i])
  <2> SUFFICES ASSUME NEW i \in 1..Len(m) PROVE StampedByHuman(m[i])
    BY Zenon
  <2>1. i = Len(l) + 1 \/ i \in 1..Len(l)
    BY <1>1, <1>4, LenProperties
  <2> QED
    BY Zenon, <1>4, <1>5, <2>1
<1>7. LawWrite(p, m)
  BY Zenon
<1> HIDE DEF m
<1> QED
  BY Zenon, <1>3, <1>4, <1>6, <1>7, LawMoves DEF l

\* A lineage of one row.
LEMMA OneRow ==
    ASSUME NEW r \in BrainRow
    PROVE  /\ <<r>> \in Seq(BrainRow) /\ Len(<<r>>) = 1 /\ <<r>>[1] = r /\ (~r.tomb => Lawful(<<r>>))
           /\ Continues(<<>>, <<r>>)
           /\ StampedByHuman(r) => \A i \in 1..Len(<<r>>) : StampedByHuman(<<r>>[i])
<1>1. <<r>> \in Seq(BrainRow) /\ Len(<<r>>) = 1 /\ <<r>>[1] = r
  OBVIOUS
<1>2. ~r.tomb => Lawful(<<r>>)
  BY <1>1 DEF Lawful
<1>3. Continues(<<>>, <<r>>)
  BY <1>1 DEF Continues
<1> QED
  BY <1>1, <1>2, <1>3

\* The package keeps the law.
LEMMA LawKept ==
    ASSUME BrainInv, LawStep
    PROVE  BrainInv' /\ RowsContinue
<1>1. PICK p \in Path :
        \/ \E class \in Class, content \in Content : NewObject(p, class, content)
        \/ \E content \in Content : Revise(p, content)
        \/ \E h \in Human : PromoteToAuthoritative(p, h)
        \/ Tombstone(p)
  BY Zenon DEF LawStep
<1>2. BrainShape /\ rows[p] \in Seq(BrainRow)
  BY Zenon DEF BrainInv, BrainShape
<1>3. ASSUME NEW class \in Class, NEW content \in Content, NewObject(p, class, content)
      PROVE  BrainInv' /\ RowsContinue
  <2> DEFINE r == Row(class, content, Expires(class))
  <2>1. r \in BrainRow /\ ~r.auth /\ ~r.tomb
    BY Zenon, <1>2, MadeRows
  <2>2. rows[p] = <<>> /\ LawWrite(p, <<r>>)
    BY Zenon, <1>3 DEF NewObject
  <2> HIDE DEF r
  <2> QED
    BY Zenon, <2>1, <2>2, OneRow, LawMoves DEF StampedByHuman
<1>4. ASSUME NEW content \in Content, Revise(p, content)
      PROVE  BrainInv' /\ RowsContinue
  <2> DEFINE r == NextRevision(Latest(p), content)
  <2>1. rows[p] # <<>> /\ MayRevise(Latest(p)) /\ LawWrite(p, Append(rows[p], r))
    BY Zenon, <1>4 DEF Revise
  <2>2. Latest(p) \in BrainRow
    BY Zenon, <1>2, <2>1, LatestIsARow
  <2>3. r \in BrainRow /\ ~r.auth /\ ~r.tomb /\ r.class = Latest(p).class
    BY Zenon, <2>2 DEF NextRevision, Row, BrainRow
  <2> HIDE DEF r
  <2> QED
    BY Zenon, <2>1, <2>3, RevisionByLaw DEF StampedByHuman
<1>5. ASSUME NEW h \in Human, PromoteToAuthoritative(p, h)
      PROVE  BrainInv' /\ RowsContinue
  <2> DEFINE o == Latest(p)
  <2>1. rows[p] # <<>> /\ o.class # "ephemeral" /\ ~o.tomb
    BY Zenon, <1>5 DEF PromoteToAuthoritative
  <2>2. o \in BrainRow /\ Len(rows[p]) \in 1..Len(rows[p]) /\ Len(rows[p]) \in Nat \ {0}
    BY Zenon, <1>2, <2>1, LatestIsARow
  <2>3. CASE o.class = "immutable"
    <3> DEFINE r == [o EXCEPT !.auth = TRUE, !.stamp = h]
    <3>1. ~o.auth /\ LawWrite(p, <<r>>)
      BY Zenon, <1>5, <2>3 DEF PromoteToAuthoritative
    <3>2. /\ r \in BrainRow /\ r.auth /\ r.stamp \in Human /\ r.class = "immutable" /\ ~r.tomb
          /\ r = [o EXCEPT !.auth = TRUE, !.stamp = r.stamp]
      BY Zenon, <2>1, <2>2, <2>3 DEF BrainRow
    <3>3. Len(rows[p]) = 1 /\ o = rows[p][1]
      <4>1. Lawful(rows[p])
        BY Zenon, <3>1 DEF LawWrite, BrainInv
      <4>2. o = rows[p][Len(rows[p])] /\ rows[p][1].class = o.class
        BY Zenon, <2>2, <4>1 DEF Lawful, Latest
      <4> QED
        BY Zenon, <2>2, <2>3, <4>1, <4>2 DEF Lawful
    <3> HIDE DEF r, o
    <3>4. Continues(rows[p], <<r>>)
      BY <2>3, <3>1, <3>2, <3>3 DEF Continues
    <3> QED
      BY Zenon, <3>1, <3>2, <3>4, OneRow, LawMoves DEF StampedByHuman
  <2>4. CASE o.class # "immutable"
    <3> DEFINE r == [NextRevision(o, o.content) EXCEPT !.auth = TRUE, !.stamp = h]
    <3>1. MayRevise(o) /\ LawWrite(p, Append(rows[p], r))
      BY Zenon, <1>5, <2>4 DEF PromoteToAuthoritative
    <3>2. r \in BrainRow /\ r.stamp \in Human /\ r.class = o.class /\ ~r.tomb
      BY Zenon, <2>2 DEF BrainRow, NextRevision, Row
    <3> HIDE DEF r
    <3> QED
      BY Zenon, <2>1, <3>1, <3>2, RevisionByLaw DEF StampedByHuman
  <2> QED
    BY Zenon, <2>3, <2>4
<1>6. ASSUME Tombstone(p)
      PROVE  BrainInv' /\ RowsContinue
  <2> DEFINE o == Latest(p)
             r == [NextRevision(o, o.content) EXCEPT !.tomb = TRUE]
  <2>1. rows[p] # <<>> /\ o.class = "mutable_with_revision" /\ MayRevise(o) /\ LawWrite(p, Append(rows[p], r))
    BY Zenon, <1>6 DEF Tombstone
  <2>2. o \in BrainRow
    BY Zenon, <1>2, <2>1, LatestIsARow
  <2>3. r \in BrainRow /\ ~r.auth /\ r.class = o.class
    BY ZenonT(60), <2>2 DEF NextRevision, Row, BrainRow
  <2> HIDE DEF r
  <2> QED
    BY Zenon, <2>1, <2>3, RevisionByLaw DEF StampedByHuman
<1> QED
  BY Zenon, <1>1, <1>3, <1>4, <1>5, <1>6

-----------------------------------------------------------------------------
\* A request that arrives, and moves to pc with what it will write.
LEMMA Arrives ==
    ASSUME BrainInv, NEW q \in BRequest, Arrived(q), NEW x \in BrainRequest, UNCHANGED rows, ServiceUnchanged,
           breq' = [breq EXCEPT ![q] = x], x.pc \in {"refused", "allocate", "stamp"},
           x.pc = "allocate" => x.row \in BrainRow /\ StampedByHuman(x.row) /\ IsAnswer(x.row, q, x.kind, x.human),
           x.pc = "stamp" => x.kind = "promote" /\ x.human \in Human /\ Len(rows[x.path]) >= 1
    PROVE  BrainInv' /\ RowsContinue
<1>1. BrainShape /\ BrainShape' /\ UNCHANGED <<rows, governed>>
  BY Zenon DEF BrainInv, BrainShape, ServiceUnchanged
<1>2. RowsContinue
  BY Zenon, <1>1, Continuation DEF RowsContinue, BrainShape
<1>3. breq'[q] = x /\ \A r \in BRequest \ {q} : breq'[r] = breq[r]
  BY Zenon, <1>1 DEF BrainShape
<1>4. WriterStands(q)'
  BY Zenon, <1>1, <1>3 DEF WriterStands, Arrived
<1> QED
  BY ZenonT(60), <1>1, <1>2, <1>3, <1>4, OneWriterMoves DEF BrainInv, AuthorityIsHuman, Arrived

\* The handlers read the lineage and decide what to write.
LEMMA HandlersKept ==
    ASSUME BrainInv, NEW q \in BRequest, NEW p \in Path,
           \/ \E class \in Class, content \in Content : BrainCreateObject(q, p, class, content)
           \/ \E h \in Human : BrainPromoteObject(q, p, h)
           \/ BrainTombstoneObject(q, p)
    PROVE  BrainInv' /\ RowsContinue
<1>1. BrainShape /\ q \in Nat /\ rows[p] \in Seq(BrainRow)
  BY Zenon, BrainAssumption DEF BrainInv, BrainShape
<1>2. ASSUME NEW class \in Class, NEW content \in Content, BrainCreateObject(q, p, class, content)
      PROVE  BrainInv' /\ RowsContinue
  <2>1. PICK pc \in {"refused", "allocate"} :
          breq' = [breq EXCEPT ![q] = [pc |-> pc, kind |-> "create", path |-> p,
                       row |-> [Row(class, content, Expires(class)) EXCEPT !.by = q], human |-> NoHuman, rev |-> 0]]
    BY Zenon, <1>2 DEF BrainCreateObject
  <2> DEFINE r == [Row(class, content, Expires(class)) EXCEPT !.by = q]
             x == [pc |-> pc, kind |-> "create", path |-> p, row |-> r, human |-> NoHuman, rev |-> 0]
  <2>2. Expires(class) \in Nat
    BY <1>1, BrainAssumption DEF Expires, BrainShape
  <2>3. r \in BrainRow /\ ~r.auth /\ r.by = q
    BY Zenon, <1>1, <2>2 DEF Row, BrainRow
  <2> HIDE DEF r
  <2>4. x \in BrainRequest /\ x.pc = pc /\ x.row = r /\ x.kind = "create"
    BY Zenon, <2>3 DEF BrainRequest
  <2>5. breq' = [breq EXCEPT ![q] = x]
    BY Zenon, <2>1 DEF r
  <2>6. Arrived(q) /\ UNCHANGED rows /\ ServiceUnchanged
    BY Zenon, <1>2 DEF BrainCreateObject
  <2> HIDE DEF x
  <2>7. StampedByHuman(x.row) /\ IsAnswer(x.row, q, x.kind, x.human)
    BY Zenon, <2>3, <2>4 DEF StampedByHuman, IsAnswer
  <2> QED
    BY Zenon, <2>3, <2>4, <2>5, <2>6, <2>7, Arrives
<1>3. ASSUME NEW h \in Human, BrainPromoteObject(q, p, h)
      PROVE  BrainInv' /\ RowsContinue
  <2> DEFINE o == Latest(p)
             r == [Row(o.class, o.content, 0) EXCEPT !.auth = TRUE, !.stamp = h, !.by = q]
  <2>0. Arrived(q) /\ rows[p] # <<>> /\ UNCHANGED rows /\ ServiceUnchanged
    BY Zenon, <1>3 DEF BrainPromoteObject
  <2>1. PICK pc \in {"refused", "stamp", "allocate"} :
          /\ pc # "refused" => o.class # "ephemeral"
          /\ breq' = [breq EXCEPT ![q] = [pc |-> pc, kind |-> "promote", path |-> p, row |-> r,
                                           human |-> h, rev |-> 0]]
    BY ZenonT(60), <1>3, Zenon DEF BrainPromoteObject, Promotable
  <2> DEFINE x == [pc |-> pc, kind |-> "promote", path |-> p, row |-> r, human |-> h, rev |-> 0]
  <2>2. o \in BrainRow /\ Len(rows[p]) >= 1
    BY <1>1, <2>0, LatestIsARow
  <2>3. r \in BrainRow /\ r.auth /\ r.stamp = h /\ ~r.tomb /\ r.class = o.class
    BY Zenon, <1>1, <2>2 DEF Row, BrainRow
  <2> HIDE DEF r, o
  <2>4. x \in BrainRequest /\ x.pc = pc /\ x.row = r /\ x.kind = "promote" /\ x.human = h /\ x.path = p
    BY Zenon, <2>3 DEF BrainRequest
  <2>5. breq' = [breq EXCEPT ![q] = x]
    BY Zenon, <2>1
  <2> HIDE DEF x
  <2>6. pc # "refused" => StampedByHuman(x.row) /\ IsAnswer(x.row, q, x.kind, x.human)
    BY Zenon, <2>1, <2>3, <2>4 DEF StampedByHuman, IsAnswer
  <2>7. /\ x.pc \in {"refused", "allocate", "stamp"}
        /\ x.pc = "allocate" => x.row \in BrainRow /\ StampedByHuman(x.row) /\ IsAnswer(x.row, q, x.kind, x.human)
        /\ x.pc = "stamp" => x.kind = "promote" /\ x.human \in Human /\ Len(rows[x.path]) >= 1
    BY Zenon, <2>1, <2>2, <2>3, <2>4, <2>6
  <2> QED
    BY Zenon, <2>0, <2>4, <2>5, <2>7, Arrives
<1>4. ASSUME BrainTombstoneObject(q, p)
      PROVE  BrainInv' /\ RowsContinue
  <2>0. rows[p] # <<>> => Latest(p).class \in Class
    BY Zenon, <1>1, LatestIsARow DEF BrainRow
  <2> DEFINE class == IF rows[p] = <<>> THEN "mutable_with_revision" ELSE Latest(p).class
             r == [Row(class, NoContent, 0) EXCEPT !.tomb = TRUE, !.by = q]
             x == [pc |-> "allocate", kind |-> "tombstone", path |-> p, row |-> r, human |-> NoHuman, rev |-> 0]
  <2>1. Arrived(q) /\ UNCHANGED rows /\ ServiceUnchanged /\ breq' = [breq EXCEPT ![q] = x]
    BY Zenon, <1>4 DEF BrainTombstoneObject
  <2>2. class \in Class
    BY Zenon, <2>0 DEF Class
  <2> HIDE DEF class
  <2>3. r \in BrainRow /\ ~r.auth /\ r.by = q
    BY Zenon, <1>1, <2>2 DEF Row, BrainRow
  <2> HIDE DEF r
  <2>4. x \in BrainRequest /\ x.pc = "allocate" /\ x.row = r /\ x.kind = "tombstone"
    BY Zenon, <2>3 DEF BrainRequest
  <2> HIDE DEF x
  <2>5. StampedByHuman(x.row) /\ IsAnswer(x.row, q, x.kind, x.human)
    BY Zenon, <2>3, <2>4 DEF StampedByHuman, IsAnswer
  <2> QED
    BY Zenon, <2>1, <2>3, <2>4, <2>5, Arrives
<1> QED
  BY Zenon, <1>2, <1>3, <1>4

\* The revision is allocated on the lineage as it stands.
LEMMA AllocationKept ==
    ASSUME BrainInv, NEW q \in BRequest, AllocateRevision(q)
    PROVE  BrainInv' /\ RowsContinue
<1> DEFINE x == breq[q]
           l == rows[x.path]
           y == [x EXCEPT !.pc = "insert", !.rev = Len(l) + 1]
<1>1. x.pc = "allocate" /\ breq' = [breq EXCEPT ![q] = y] /\ UNCHANGED rows /\ ServiceUnchanged
  BY Zenon DEF AllocateRevision
<1>2. BrainShape /\ x \in BrainRequest /\ l \in Seq(BrainRow) /\ Len(l) \in Nat
  BY Zenon, LenProperties DEF BrainInv, BrainShape, BrainRequest
<1>3. ~governed /\ x.row \in BrainRow /\ StampedByHuman(x.row) /\ IsAnswer(x.row, q, x.kind, x.human)
  BY Zenon, <1>1 DEF BrainInv, WriterStands
<1>4. /\ y \in BrainRequest /\ y.pc = "insert" /\ y.rev = Len(l) + 1
      /\ y.row = x.row /\ y.kind = x.kind /\ y.human = x.human /\ y.path = x.path
  <2>1. Len(l) + 1 \in Nat
    BY <1>2
  <2> HIDE DEF x, l
  <2> QED
    BY ZenonT(60), <1>2, <2>1 DEF BrainRequest
<1> HIDE DEF y
<1>5. breq'[q] = y /\ \A r \in BRequest \ {q} : breq'[r] = breq[r]
  BY Zenon, <1>1, <1>2 DEF BrainShape
<1>6. BrainShape' /\ governed' = governed
  BY Zenon, <1>1, <1>2, <1>4 DEF BrainShape, ServiceUnchanged
<1>7. RowsContinue
  BY Zenon, <1>1, <1>2, Continuation DEF RowsContinue, BrainShape
<1>8. WriterStands(q)'
  BY <1>1, <1>2, <1>3, <1>4, <1>5, <1>6 DEF WriterStands
<1>9. AuthorityIsHuman'
  BY Zenon, <1>1 DEF BrainInv, AuthorityIsHuman
<1> QED
  BY Zenon, <1>3, <1>5, <1>6, <1>7, <1>8, <1>9, OneWriterMoves

\* The insert writes the revision that was allocated, or fails because it is taken.
LEMMA PutKept ==
    ASSUME BrainInv, NEW q \in BRequest, PutBrainObject(q)
    PROVE  BrainInv' /\ RowsContinue
<1> DEFINE x == breq[q]
           p == x.path
           l == rows[p]
           m == Append(l, x.row)
<1>1. x.pc = "insert" /\ UNCHANGED <<bnow, governed>>
  BY Zenon DEF PutBrainObject, ServiceUnchanged
<1>2. BrainShape /\ x \in BrainRequest /\ p \in Path /\ l \in Seq(BrainRow) /\ Len(l) \in Nat
  BY Zenon, LenProperties DEF BrainInv, BrainShape, BrainRequest
<1>3. /\ ~governed /\ x.row \in BrainRow /\ StampedByHuman(x.row) /\ IsAnswer(x.row, q, x.kind, x.human)
      /\ x.rev >= 1 /\ x.rev <= Len(l) + 1 /\ x.rev \in Nat
  BY Zenon, <1>1, <1>2 DEF BrainInv, WriterStands, BrainRequest
<1>4. \A i \in 1..Len(l) : StampedByHuman(l[i])
  BY Zenon, <1>2 DEF BrainInv, AuthorityIsHuman, StampedByHuman
<1>5. CASE x.rev <= Len(l)
  <2> DEFINE y == [x EXCEPT !.pc = "failed"]
  <2>1. breq' = [breq EXCEPT ![q] = y] /\ UNCHANGED rows
    BY Zenon, <1>5 DEF PutBrainObject, Step
  <2>2. y \in BrainRequest /\ y.pc = "failed"
    BY Zenon, <1>2 DEF BrainRequest
  <2> HIDE DEF y
  <2>3. BrainShape' /\ breq'[q] = y /\ \A r \in BRequest \ {q} : breq'[r] = breq[r]
    BY Zenon, <1>1, <1>2, <2>1, <2>2 DEF BrainShape
  <2>4. RowsContinue /\ AuthorityIsHuman'
    BY Zenon, <1>2, <2>1, Continuation DEF RowsContinue, BrainShape, BrainInv, AuthorityIsHuman
  <2>5. WriterStands(q)'
    BY Zenon, <1>1, <1>3, <2>2, <2>3 DEF WriterStands
  <2> QED
    BY Zenon, <1>1, <1>3, <2>3, <2>4, <2>5, OneWriterMoves
<1>6. CASE ~(x.rev <= Len(l))
  <2> DEFINE y == [x EXCEPT !.pc = "written"]
  <2>1. breq' = [breq EXCEPT ![q] = y] /\ rows' = [rows EXCEPT ![p] = m]
    BY Zenon, <1>6 DEF PutBrainObject, Step
  <2>2. /\ y \in BrainRequest /\ y.pc = "written" /\ y.path = p /\ y.kind = x.kind
        /\ y.human = x.human /\ y.rev = x.rev
    BY Zenon, <1>2 DEF BrainRequest
  <2>3. /\ m \in Seq(BrainRow) /\ Continues(l, m) /\ Len(m) = Len(l) + 1 /\ m[Len(l) + 1] = x.row
        /\ \A i \in 1..Len(l) : m[i] = l[i]
    BY Zenon, <1>2, <1>3, Continuation
  <2> HIDE DEF y, m
  <2>4. BrainShape' /\ breq'[q] = y /\ \A r \in BRequest \ {q} : breq'[r] = breq[r]
    BY Zenon, <1>1, <1>2, <2>1, <2>2, <2>3 DEF BrainShape
  <2>5. rows'[p] = m /\ \A r \in Path \ {p} : rows'[r] = rows[r]
    BY Zenon, <1>2, <2>1 DEF BrainShape
  <2>6. RowsContinue
    BY Zenon, <1>2, <2>3, <2>5, Continuation DEF RowsContinue, BrainShape
  <2>7. \A i \in 1..Len(m) : StampedByHuman(m[i])
    <3> SUFFICES ASSUME NEW i \in 1..Len(m) PROVE StampedByHuman(m[i])
      BY Zenon
    <3>1. i = Len(l) + 1 \/ i \in 1..Len(l)
      BY <1>2, <2>3
    <3> QED
      BY Zenon, <1>3, <1>4, <2>3, <3>1
  <2>8. AuthorityIsHuman'
    BY <2>5, <2>7 DEF BrainInv, AuthorityIsHuman, StampedByHuman
  <2>9. x.rev = Len(l) + 1 /\ x.rev \in 1..Len(m)
    BY <1>2, <1>3, <1>6, <2>3
  <2>10. IsAnswer(m[y.rev], q, y.kind, y.human)
    BY Zenon, <1>3, <2>2, <2>3, <2>9
  <2>11. WriterStands(q)'
    BY ZenonT(60), <1>1, <1>3, <2>2, <2>4, <2>5, <2>9, <2>10 DEF WriterStands
  <2> QED
    BY Zenon, <1>1, <1>3, <2>4, <2>6, <2>8, <2>11, OneWriterMoves
<1> QED
  BY Zenon, <1>5, <1>6

\* The stamp is put once, and the requests that were answered keep what they have.
LEMMA StampKept ==
    ASSUME BrainInv, NEW q \in BRequest, StampBrainPromotion(q)
    PROVE  BrainInv' /\ RowsContinue
<1> DEFINE x == breq[q]
           p == x.path
           l == rows[p]
<1>1. x.pc = "stamp" /\ UNCHANGED <<bnow, governed>>
  BY Zenon DEF StampBrainPromotion, ServiceUnchanged
<1>2. BrainShape /\ x \in BrainRequest /\ p \in Path /\ l \in Seq(BrainRow) /\ Len(l) \in Nat
  BY Zenon, LenProperties DEF BrainInv, BrainShape, BrainRequest
<1>3. ~governed /\ x.kind = "promote" /\ x.human \in Human /\ Len(l) >= 1
  BY Zenon, <1>1 DEF BrainInv, WriterStands
<1>4. 1 \in 1..Len(l) /\ l[1] \in BrainRow /\ \A i \in 1..Len(l) : StampedByHuman(l[i])
  <2>1. 1 \in 1..Len(l) /\ l[1] \in BrainRow
    BY <1>2, <1>3, ElementOfSeq
  <2> QED
    BY Zenon, <1>2, <2>1 DEF BrainInv, AuthorityIsHuman, StampedByHuman
<1>5. CASE ~Stampable(l[1])
  <2> DEFINE y == [x EXCEPT !.pc = "failed"]
  <2>1. breq' = [breq EXCEPT ![q] = y] /\ UNCHANGED rows
    BY Zenon, <1>5 DEF StampBrainPromotion, Step
  <2>2. y \in BrainRequest /\ y.pc = "failed"
    BY Zenon, <1>2 DEF BrainRequest
  <2> HIDE DEF y
  <2>3. BrainShape' /\ breq'[q] = y /\ \A r \in BRequest \ {q} : breq'[r] = breq[r]
    BY Zenon, <1>1, <1>2, <2>1, <2>2 DEF BrainShape
  <2>4. RowsContinue /\ AuthorityIsHuman'
    BY Zenon, <1>2, <2>1, Continuation DEF RowsContinue, BrainShape, BrainInv, AuthorityIsHuman
  <2>5. WriterStands(q)'
    BY Zenon, <1>1, <1>3, <2>2, <2>3 DEF WriterStands
  <2> QED
    BY Zenon, <1>1, <1>3, <2>3, <2>4, <2>5, OneWriterMoves
<1>6. CASE Stampable(l[1])
  <2> DEFINE y == [x EXCEPT !.pc = "written", !.rev = 1]
             r == [l[1] EXCEPT !.auth = TRUE, !.stamp = x.human]
             m == [l EXCEPT ![1] = r]
  <2>1. breq' = [breq EXCEPT ![q] = y] /\ rows' = [rows EXCEPT ![p] = m]
    BY Zenon, <1>6 DEF StampBrainPromotion
  <2>2. /\ y \in BrainRequest /\ y.pc = "written" /\ y.path = p /\ y.kind = x.kind
        /\ y.human = x.human /\ y.rev = 1
    BY Zenon, <1>2 DEF BrainRequest
  <2>3. /\ r \in BrainRow /\ r.auth /\ r.stamp = x.human /\ r.class = "immutable" /\ ~r.tomb
        /\ r = [l[1] EXCEPT !.auth = TRUE, !.stamp = r.stamp]
    BY ZenonT(60), <1>3, <1>4, <1>6 DEF BrainRow, Stampable
  <2> HIDE DEF y, r
  <2>4. m \in Seq(BrainRow) /\ Len(m) = Len(l)
    BY <1>2, <1>4, <2>3, ExceptSeq
  <2>4a. m[1] = r /\ \A i \in 1..Len(l) : i # 1 => m[i] = l[i]
    BY Zenon, <1>2, <1>4, LenProperties
  <2> HIDE DEF m
  <2>5. Continues(l, m)
    <3>1. l[1].class = "immutable" /\ ~l[1].auth /\ m[1] = [l[1] EXCEPT !.auth = TRUE, !.stamp = m[1].stamp]
      BY ZenonT(60), <1>6, <2>3, <2>4a DEF Stampable
    <3> HIDE DEF l
    <3> QED
      BY <1>2, <2>4, <2>4a, <3>1 DEF Continues
  <2>6. BrainShape' /\ breq'[q] = y /\ \A s \in BRequest \ {q} : breq'[s] = breq[s]
    BY Zenon, <1>1, <1>2, <2>1, <2>2, <2>4 DEF BrainShape
  <2>7. rows'[p] = m /\ \A s \in Path \ {p} : rows'[s] = rows[s]
    BY Zenon, <1>2, <2>1 DEF BrainShape
  <2>8. RowsContinue
    BY Zenon, <1>2, <2>5, <2>7, Continuation DEF RowsContinue, BrainShape
  <2>9. \A i \in 1..Len(m) : StampedByHuman(m[i])
    <3>1. StampedByHuman(r)
      BY Zenon, <1>3, <2>3 DEF StampedByHuman
    <3> QED
      BY Zenon, <1>4, <2>4, <2>4a, <3>1
  <2>10. AuthorityIsHuman'
    BY ZenonT(60), <2>7, <2>9 DEF BrainInv, AuthorityIsHuman, StampedByHuman
  <2>11. IsAnswer(m[y.rev], q, y.kind, y.human) /\ y.rev \in 1..Len(m)
    BY Zenon, <1>3, <1>4, <2>2, <2>3, <2>4, <2>4a DEF IsAnswer
  <2>12. WriterStands(q)'
    BY Zenon, <1>1, <1>3, <2>2, <2>6, <2>7, <2>11 DEF WriterStands
  <2> QED
    BY Zenon, <1>1, <1>3, <2>6, <2>8, <2>10, <2>12, OneWriterMoves
<1> QED
  BY Zenon, <1>5, <1>6

\* The other steps leave the rows and the requests alone.
LEMMA BrainKept ==
    ASSUME BrainInv, [BrainNext]_brainVars
    PROVE  BrainInv' /\ RowsContinue
<1>1. CASE LawStep
  BY Zenon, <1>1, LawKept
<1>2. CASE \E q \in BRequest : ObjectStep(q)
  BY Zenon, <1>2, HandlersKept, AllocationKept, PutKept, StampKept DEF ObjectStep
<1>3. CASE MountStep \/ BrainTick \/ UNCHANGED brainVars
  <2>1. UNCHANGED <<rows, breq, governed>> /\ (bnow' = bnow \/ bnow' = bnow + 1)
    BY Zenon, <1>3 DEF MountStep, BrainTick, brainVars, CreateBrainMount, RevokeBrainMount, BrainListMounts, MountUnchanged
  <2>2. BrainShape'
    BY <2>1 DEF BrainInv, BrainShape
  <2>3. RowsContinue
    BY Zenon, <2>1, Continuation DEF RowsContinue, BrainInv, BrainShape
  <2>4. \A q \in BRequest : WriterStands(q)'
    BY Zenon, <2>1, <2>2, <2>3, WritersStay
  <2> QED
    BY <2>1, <2>2, <2>3, <2>4 DEF BrainInv, AuthorityIsHuman, Lawful
<1> QED
  BY Zenon, <1>1, <1>2, <1>3 DEF BrainNext

\* Nothing is written at first.
LEMMA BrainInitially == BrainInit => BrainInv
<1> SUFFICES ASSUME BrainInit PROVE BrainInv
  BY Zenon
<1>1. NewRequest \in BrainRequest /\ NewRequest.pc = "new"
  BY Zenon, BrainAssumption DEF NewRequest, BrainRequest
<1>2. BrainShape
  BY <1>1 DEF BrainInit, BrainShape
<1>3. \A p \in Path : rows[p] = <<>> /\ Len(rows[p]) = 0
  BY Zenon DEF BrainInit
<1>4. AuthorityIsHuman /\ \A p \in Path : Lawful(rows[p])
  BY <1>3 DEF AuthorityIsHuman, Lawful
<1>5. \A q \in BRequest : breq[q].pc = "new"
  BY Zenon, <1>1 DEF BrainInit
<1>6. \A q \in BRequest : WriterStands(q)
  BY Zenon, <1>5 DEF WriterStands
<1> QED
  BY Zenon, <1>2, <1>4, <1>6 DEF BrainInv

\* The invariant holds throughout.
LEMMA BrainInvariant == BrainSpec => []BrainInv
<1>1. BrainInv /\ [BrainNext]_brainVars => BrainInv'
  BY Zenon, BrainKept
<1> QED
  BY BrainInitially, <1>1, PTL DEF BrainSpec

\* What a writer was answered stands, whoever raced with it.
THEOREM AnsweredWritesStand == BrainSpec => []AnsweredWriteStands
<1>1. BrainInv => AnsweredWriteStands
  BY Zenon DEF BrainInv, WriterStands, AnsweredWriteStands, IsAnswer
<1> QED
  BY BrainInvariant, <1>1, PTL

\* Law is made by a human only, and of knowledge that lives.
THEOREM LawIsHuman == BrainSpec => []AuthorityIsHuman
<1>1. BrainInv => AuthorityIsHuman
  BY Zenon DEF BrainInv
<1> QED
  BY BrainInvariant, <1>1, PTL

\* What goes through the package keeps the law of a lineage.
THEOREM PackageKeepsTheLaw == BrainSpec => []LineageIsLawful
<1>1. BrainInv => LineageIsLawful
  BY Zenon DEF BrainInv, Lawful, LineageIsLawful
<1> QED
  BY BrainInvariant, <1>1, PTL

\* No write changes or removes a revision, except the one stamp.
THEOREM RevisionsAreAppended == BrainSpec => AppendOnly
<1>1. BrainInv /\ [BrainNext]_brainVars => RowsContinue
  BY Zenon, BrainKept
<1>2. RowsContinue =>
        \A p \in Path :
         /\ Len(rows'[p]) >= Len(rows[p])
         /\ \A i \in 1..Len(rows[p]) :
              \/ rows'[p][i] = rows[p][i]
              \/ /\ i = 1 /\ rows[p][1].class = "immutable" /\ ~rows[p][1].auth
                 /\ rows'[p][1] = [rows[p][1] EXCEPT !.auth = TRUE, !.stamp = rows'[p][1].stamp]
  BY Zenon DEF RowsContinue, Continues
<1> QED
  BY BrainInvariant, <1>1, <1>2, PTL DEF BrainSpec, AppendOnly

\* A mount whose revocation was answered is in no later listing.
THEOREM RevokedMountsAreHidden == BrainSpec => RevokedMountIsHidden
<1> DEFINE MountInv == DOMAIN bmounts = MountIds /\ \A i \in unmounted : bmounts[i] = "revoked"
<1>1. BrainInit => MountInv
  BY Zenon DEF BrainInit
<1>2. MountInv /\ [BrainNext]_brainVars => MountInv' /\ (shown' # shown => shown' \cap unmounted = {})
  <2> SUFFICES ASSUME MountInv, [BrainNext]_brainVars
               PROVE  MountInv' /\ (shown' # shown => shown' \cap unmounted = {})
    BY Zenon
  <2>1. CASE UNCHANGED <<bmounts, shown, unmounted>>
    BY Zenon, <2>1
  <2>2. ASSUME NEW i \in MountIds, CreateBrainMount(i)
        PROVE  MountInv' /\ (shown' # shown => shown' \cap unmounted = {})
    BY <2>2 DEF CreateBrainMount
  <2>3. ASSUME NEW i \in MountIds, RevokeBrainMount(i)
        PROVE  MountInv' /\ (shown' # shown => shown' \cap unmounted = {})
    BY <2>3 DEF RevokeBrainMount
  <2>4. CASE BrainListMounts
    BY Zenon, <2>4 DEF BrainListMounts, ListBrainMounts
  <2>5. \/ UNCHANGED <<bmounts, shown, unmounted>> \/ BrainListMounts
        \/ \E i \in MountIds : CreateBrainMount(i) \/ RevokeBrainMount(i)
    <3>1. CASE LawStep
      BY ZenonT(60), <3>1 DEF LawStep, NewObject, Revise, PromoteToAuthoritative, Tombstone, LawWrite
    <3>2. CASE \E q \in BRequest : ObjectStep(q)
      <4>1. ServiceUnchanged
        BY ZenonT(60), <3>2 DEF ObjectStep, BrainCreateObject, BrainPromoteObject, BrainTombstoneObject,
                                AllocateRevision, PutBrainObject, StampBrainPromotion
      <4> QED
        BY <4>1 DEF ServiceUnchanged
    <3> QED
      BY <3>1, <3>2 DEF BrainNext, MountStep, BrainTick, brainVars
  <2> QED
    BY Zenon, <2>1, <2>2, <2>3, <2>4, <2>5
<1> QED
  BY <1>1, <1>2, PTL DEF BrainSpec, RevokedMountIsHidden

-----------------------------------------------------------------------------
(* The economic sources: one content per generation, and a chained history. *)

(* The generations of a source. *)

Advance ==
    [pc : {"new", "write", "refused", "replay", "advanced", "concurrent"}, next : SourceState \cup {NoState},
     read : SourceRow \cup {NoState}, auth : {NoAuth}]

\* A writer's state follows the row it read, and that row is the present one unless its
\* revision is not.
WriterFollows(d, row) ==
    d.pc = "write" =>
        /\ d.next \in SourceState
        /\ d.read # NoState =>
             /\ d.next.gen > d.read.gen /\ d.next.at >= d.read.at /\ d.next.kind = d.read.kind
             /\ row # NoState /\ d.read.rev <= row.rev /\ (d.read.rev = row.rev => d.read = row)

\* What was answered as taken in is the row, or older and of an earlier generation.
RowCovers(row, a) ==
    /\ a \in SourceState /\ row # NoState
    /\ a.gen <= row.gen /\ a.at <= row.at /\ a.kind = row.kind
    /\ a.gen = row.gen => a = Said(row)

GenerationsInv ==
    /\ source \in SourceRow \cup {NoState}
    /\ ereq \in [ERequest -> Advance]
    /\ \A q \in ERequest : WriterFollows(ereq[q], source)
    /\ \A a \in acceptedState : RowCovers(source, a)
    /\ GenerationHasOneContent

\* A request that is answered wants nothing any more.
LEMMA AnsweredAdvance ==
    ASSUME GenerationsInv, NEW q \in ERequest,
           NEW a \in {"refused", "replay", "advanced", "concurrent"}, Answer(q, a),
           NEW row, \A r \in ERequest : WriterFollows(ereq[r], row)
    PROVE ereq' \in [ERequest -> Advance] /\ \A r \in ERequest : WriterFollows(ereq'[r], row)
<1> DEFINE d == [Untouched EXCEPT !.pc = a]
<1>1. d \in Advance /\ d.pc = a
  BY Zenon DEF Untouched, Advance
<1>2. ereq' = [ereq EXCEPT ![q] = d]
  BY Zenon DEF Answer
<1> HIDE DEF d
<1>3. ereq' \in [ERequest -> Advance] /\ ereq'[q] = d /\ \A r \in ERequest : r # q => ereq'[r] = ereq[r]
  BY Zenon, <1>1, <1>2 DEF GenerationsInv
<1>4. WriterFollows(d, row)
  BY Zenon, <1>1 DEF WriterFollows
<1> QED
  BY Zenon, <1>3, <1>4

\* The read of an advance.
LEMMA BeginAdvanceKeeps ==
    ASSUME GenerationsInv, NEW q \in ERequest, NEW next \in SourceState, BeginAdvance(q, next)
    PROVE GenerationsInv'
<1>1. source' = source
  BY Zenon DEF BeginAdvance
<1> DEFINE Follow == ereq' \in [ERequest -> Advance] /\ \A r \in ERequest : WriterFollows(ereq'[r], source)
<1>2. Follow
  <2>1. ASSUME NEW a \in {"refused", "replay", "advanced", "concurrent"}, Answer(q, a) PROVE Follow
    BY Zenon, <2>1, AnsweredAdvance DEF GenerationsInv
  <2>2. ASSUME NEW d, d \in Advance, WriterFollows(d, source), ereq' = [ereq EXCEPT ![q] = d] PROVE Follow
    <3>1. ereq' \in [ERequest -> Advance] /\ ereq'[q] = d /\ \A r \in ERequest : r # q => ereq'[r] = ereq[r]
      BY Zenon, <2>2 DEF GenerationsInv
    <3> QED
      BY Zenon, <2>2, <3>1 DEF GenerationsInv
  <2>3. CASE source = NoState
    <3> DEFINE d == [pc |-> "write", next |-> next, read |-> NoState, auth |-> NoAuth]
    <3>1. d \in Advance /\ WriterFollows(d, source) /\ ereq' = [ereq EXCEPT ![q] = d]
      BY Zenon, <2>3 DEF Advance, WriterFollows, BeginAdvance
    <3> QED
      BY Zenon, <2>2, <3>1
  <2>4. CASE source # NoState /\ ~Regresses(next, source) /\ ~Breaks(next, source) /\ ~Replays(next, source)
    <3> DEFINE d == [pc |-> "write", next |-> next, read |-> source, auth |-> NoAuth]
    <3>1. source \in SourceRow /\ source.gen \in Nat /\ next.gen \in Nat /\ source.at \in Nat /\ next.at \in Nat /\ source.rev \in Nat
      BY <2>4, SourcesAssumption DEF GenerationsInv, SourceRow, SourceState
    <3>2. next.gen > source.gen
      BY <2>4, <3>1 DEF Regresses, Replays
    <3>3. next.at >= source.at /\ next.kind = source.kind
      BY <2>4, <3>1, <3>2 DEF Breaks
    <3>4. d \in Advance /\ d.pc = "write" /\ d.next = next /\ d.read = source
      BY Zenon, <3>1 DEF Advance
    <3>5. ereq' = [ereq EXCEPT ![q] = d]
      BY Zenon, <2>4 DEF BeginAdvance
    <3> HIDE DEF d
    <3>6. WriterFollows(d, source)
      BY <3>1, <3>2, <3>3, <3>4, <2>4 DEF WriterFollows
    <3> QED
      BY Zenon, <2>2, <3>4, <3>5, <3>6
  <2>5. CASE source # NoState /\ (Regresses(next, source) \/ Breaks(next, source))
    BY Zenon, <2>1, <2>5 DEF BeginAdvance
  <2>6. CASE source # NoState /\ ~(Regresses(next, source) \/ Breaks(next, source)) /\ Replays(next, source)
    BY Zenon, <2>1, <2>6 DEF BeginAdvance
  <2> QED
    BY Zenon, <2>3, <2>4, <2>5, <2>6
<1>3. CASE source # NoState /\ Replays(next, source)
  <2>1. acceptedState' = acceptedState \cup {next}
    BY Zenon, <1>3 DEF BeginAdvance
  <2>2. source \in SourceRow
    BY Zenon, <1>3 DEF GenerationsInv
  <2>3. Said(source) = next
    BY Zenon, <1>3 DEF Replays
  <2>4. next.gen = source.gen /\ next.at = source.at /\ next.kind = source.kind /\ source.at \in Nat /\ source.gen \in Nat
    BY <2>2, <2>3, SourcesAssumption DEF SourceRow, Said
  <2>5. RowCovers(source, next)
    BY <1>3, <2>3, <2>4 DEF RowCovers
  <2>6. \A a \in acceptedState' : RowCovers(source, a)
    BY Zenon, <2>1, <2>5 DEF GenerationsInv
  <2>7. \A a \in acceptedState : /\ a.gen = next.gen => a = next
                                 /\ a.gen < next.gen => a.at <= next.at /\ a.kind = next.kind
                                 /\ ~(next.gen < a.gen)
    <3> TAKE a \in acceptedState
    <3>1. RowCovers(source, a)
      BY Zenon DEF GenerationsInv
    <3>2. a.gen \in Nat
      BY <3>1 DEF RowCovers, SourceState
    <3> QED
      BY <2>3, <2>4, <3>1, <3>2 DEF RowCovers
  <2>8. next.gen \in Nat
    BY SourcesAssumption DEF SourceState
  <2>9. GenerationHasOneContent'
    BY <2>1, <2>7, <2>8 DEF GenerationsInv, GenerationHasOneContent
  <2> QED
    BY Zenon, <1>1, <1>2, <2>6, <2>9 DEF GenerationsInv
<1>4. CASE ~(source # NoState /\ Replays(next, source))
  <2>1. acceptedState' = acceptedState
    BY Zenon, <1>4 DEF BeginAdvance
  <2> QED
    BY Zenon, <1>1, <1>2, <2>1 DEF GenerationsInv, GenerationHasOneContent
<1> QED
  BY Zenon, <1>3, <1>4

\* The write of an advance: it takes effect only on the row that was read.
LEMMA WriteAdvanceKeeps ==
    ASSUME GenerationsInv, NEW q \in ERequest, WriteAdvance(q)
    PROVE GenerationsInv'
<1> DEFINE d == ereq[q]
           rev == IF d.read = NoState THEN 1 ELSE d.read.rev + 1
           row == [gen |-> d.next.gen, what |-> d.next.what, kind |-> d.next.kind, at |-> d.next.at, rev |-> rev]
<1>1. d \in Advance /\ d.pc = "write" /\ WriterFollows(d, source)
  BY Zenon DEF GenerationsInv, WriteAdvance
<1>2. d.next \in SourceState /\ d.read \in SourceRow \cup {NoState}
  BY Zenon, <1>1 DEF WriterFollows, Advance
<1>3. CASE ~SourceIsAsRead(q)
  <2>1. Answer(q, "concurrent") /\ source' = source /\ acceptedState' = acceptedState
    BY Zenon, <1>3 DEF WriteAdvance
  <2>2. ereq' \in [ERequest -> Advance] /\ \A r \in ERequest : WriterFollows(ereq'[r], source)
    BY Zenon, <2>1, AnsweredAdvance DEF GenerationsInv
  <2> QED
    BY Zenon, <2>1, <2>2 DEF GenerationsInv, GenerationHasOneContent
<1>4. CASE SourceIsAsRead(q)
  <2>1. source' = row /\ acceptedState' = acceptedState \cup {d.next} /\ Answer(q, "advanced")
    BY Zenon, <1>4 DEF WriteAdvance
  <2>2. d.read # NoState => d.read \in SourceRow /\ source = d.read
    BY Zenon, <1>1, <1>2, <1>4 DEF SourceIsAsRead, WriterFollows
  <2>3. d.read = NoState => source = NoState
    BY Zenon, <1>4 DEF SourceIsAsRead
  <2>4. rev \in Nat
    BY <2>2 DEF SourceRow
  <2>5. /\ row \in SourceRow /\ row.rev = rev /\ Said(row) = d.next /\ row.gen = d.next.gen
        /\ row.at = d.next.at /\ row.kind = d.next.kind
    BY Zenon, <1>2, <2>4 DEF SourceRow, SourceState, Said
  <2>6. row # NoState
    BY Zenon, <2>5, SourcesAssumption
  <2>7. source # NoState => /\ source \in SourceRow /\ source.gen \in Nat /\ source.at \in Nat /\ source.rev \in Nat
                            /\ d.next.gen > source.gen /\ d.next.at >= source.at /\ d.next.kind = source.kind
                            /\ rev = source.rev + 1
    BY <1>1, <2>2, <2>3, SourcesAssumption DEF WriterFollows, SourceRow
  <2>8. d.next.gen \in Nat /\ d.next.at \in Nat
    BY <1>2, SourcesAssumption DEF SourceState
  <2> HIDE DEF row, rev
  <2>9. \A r \in ERequest : WriterFollows(ereq[r], row)
    <3> TAKE r \in ERequest
    <3>1. WriterFollows(ereq[r], source) /\ ereq[r] \in Advance
      BY Zenon DEF GenerationsInv
    <3>2. ereq[r].read # NoState => ereq[r].read.rev \in Nat
      BY Zenon, <3>1 DEF Advance, SourceRow
    <3>3. ereq[r].pc = "write" /\ ereq[r].read # NoState =>
            row # NoState /\ ereq[r].read.rev <= row.rev /\ ereq[r].read.rev # row.rev
      BY <2>4, <2>5, <2>6, <2>7, <3>1, <3>2 DEF WriterFollows
    <3> QED
      BY Zenon, <3>1, <3>3 DEF WriterFollows
  <2>10. ereq' \in [ERequest -> Advance] /\ \A r \in ERequest : WriterFollows(ereq'[r], row)
    BY Zenon, <2>1, <2>9, AnsweredAdvance
  <2>11. \A a \in acceptedState : /\ a.gen \in Nat /\ a.gen < d.next.gen /\ a.at <= d.next.at /\ a.kind = d.next.kind
                                  /\ a \in SourceState
    <3> TAKE a \in acceptedState
    <3>1. RowCovers(source, a)
      BY Zenon DEF GenerationsInv
    <3>2. a.gen \in Nat /\ a.at \in Nat /\ a \in SourceState
      BY <3>1 DEF RowCovers, SourceState
    <3> QED
      BY <2>7, <2>8, <3>1, <3>2 DEF RowCovers
  <2>12. RowCovers(row, d.next)
    BY <1>2, <2>5, <2>6, <2>8 DEF RowCovers
  <2>13. \A a \in acceptedState' : RowCovers(row, a)
    <3> TAKE a \in acceptedState'
    <3>1. CASE a = d.next
      BY Zenon, <2>12, <3>1
    <3>2. CASE a \in acceptedState
      <4>1. a.gen \in Nat /\ a.gen < row.gen /\ a.at <= row.at /\ a.kind = row.kind /\ a \in SourceState
        BY Zenon, <2>5, <2>11, <3>2
      <4> QED
        BY <2>5, <2>6, <2>8, <4>1 DEF RowCovers
    <3> QED
      BY Zenon, <2>1, <3>1, <3>2
  <2>14. GenerationHasOneContent'
    BY <2>1, <2>8, <2>11 DEF GenerationHasOneContent, GenerationsInv
  <2> QED
    BY Zenon, <2>1, <2>5, <2>10, <2>13, <2>14 DEF GenerationsInv
<1> QED
  BY Zenon, <1>3, <1>4

\* A generation of a source has one content, however many advances race.
THEOREM GenerationsAreSingle == GenerationsSpec => []GenerationHasOneContent
<1>1. SourcesInit => GenerationsInv
  <2> SUFFICES ASSUME SourcesInit PROVE GenerationsInv
    BY Zenon
  <2>1. Untouched \in Advance /\ Untouched.pc = "new"
    BY Zenon DEF Untouched, Advance
  <2> QED
    BY Zenon, <2>1 DEF SourcesInit, GenerationsInv, WriterFollows, GenerationHasOneContent
<1>2. GenerationsInv /\ [GenerationsNext]_sourceVars => GenerationsInv'
  <2> SUFFICES ASSUME GenerationsInv, [GenerationsNext]_sourceVars PROVE GenerationsInv'
    BY Zenon
  <2>1. CASE UNCHANGED sourceVars
    BY Zenon, <2>1 DEF sourceVars, GenerationsInv, GenerationHasOneContent
  <2> QED
    BY Zenon, <2>1, BeginAdvanceKeeps, WriteAdvanceKeeps DEF GenerationsNext
<1>3. GenerationsInv => GenerationHasOneContent
  BY Zenon DEF GenerationsInv
<1> QED
  BY <1>1, <1>2, <1>3, PTL DEF GenerationsSpec

(* The trust root and its history. *)

RootAdvance ==
    [pc : {"new", "writeRoot", "refused", "replay", "advanced", "concurrent"}, next : RootState \cup {NoState},
     read : RootRow \cup {NoState}, auth : Grant \cup {NoAuth}]

\* What RootMayMove leaves of its checks when time goes on: an authorization may elapse.
MovesLawfully(cur, next, auth) ==
    /\ next.gen = cur.gen + 1 /\ next.floor >= cur.floor
    /\ ~(cur.status = "REVOKED" /\ next.key = cur.key /\ next.status = "ACTIVE")
    /\ next.key # cur.key => auth \in Grant /\ auth.prior = Named(cur) /\ auth.next = Named(next)

\* A writer moves lawfully from the state it read, which is in the history at its revision.
WriterIsLawful(d, h) ==
    d.pc = "writeRoot" =>
        /\ d.next \in RootState
        /\ d.read # NoState =>
             /\ MovesLawfully(d.read, d.next, d.auth)
             /\ d.read.rev \in 1..Len(h) /\ h[d.read.rev].state = d.read

\* An event is linked to the one before it, and records a lawful move.
EventIsLinked(h, i) ==
    LET e == h[i]
        before == h[i - 1]
    IN  /\ e.seq = i /\ e.hash = EventHash(e) /\ e.gen = e.state.gen
        /\ e.state \in RootRow /\ e.state.gen = h[1].state.gen + i - 1
        /\ e.decision = "ROTATED" <=> e.auth # NoAuth
        /\ e.prev = IF i = 1 THEN Genesis ELSE before.hash
        /\ i = 1 => e.auth = NoAuth
        /\ i > 1 =>
             /\ e.state.floor >= before.state.floor
             /\ before.state.status = "REVOKED" /\ e.state.status = "ACTIVE" => e.decision = "ROTATED"
             /\ e.auth # NoAuth => e.auth.prior = Named(before.state) /\ e.auth.next = Named(e.state)

RootsInv ==
    /\ root \in RootRow \cup {NoState}
    /\ grants \subseteq Grant
    /\ ereq \in [ERequest -> RootAdvance]
    /\ IF root = NoState THEN history = <<>>
       ELSE history # <<>> /\ root.rev = Len(history) /\ history[Len(history)].state = root
    /\ \A i \in 1..Len(history) : EventIsLinked(history, i)
    /\ \A q \in ERequest : WriterIsLawful(ereq[q], history)

\* A request that is answered wants nothing any more.
LEMMA AnsweredRootAdvance ==
    ASSUME RootsInv, NEW q \in ERequest,
           NEW a \in {"refused", "replay", "advanced", "concurrent"}, Answer(q, a),
           NEW h, \A r \in ERequest : WriterIsLawful(ereq[r], h)
    PROVE ereq' \in [ERequest -> RootAdvance] /\ \A r \in ERequest : WriterIsLawful(ereq'[r], h)
<1> DEFINE d == [Untouched EXCEPT !.pc = a]
<1>1. d \in RootAdvance /\ d.pc = a
  BY Zenon DEF Untouched, RootAdvance
<1>2. ereq' = [ereq EXCEPT ![q] = d]
  BY Zenon DEF Answer
<1> HIDE DEF d
<1>3. ereq' \in [ERequest -> RootAdvance] /\ ereq'[q] = d /\ \A r \in ERequest : r # q => ereq'[r] = ereq[r]
  BY Zenon, <1>1, <1>2 DEF RootsInv
<1>4. WriterIsLawful(d, h)
  BY Zenon, <1>1 DEF WriterIsLawful
<1> QED
  BY Zenon, <1>3, <1>4

\* The read of an advance of the root.
LEMMA BeginRootAdvanceKeeps ==
    ASSUME RootsInv, NEW q \in ERequest, NEW next \in RootState, NEW auth \in grants \cup {NoAuth},
           BeginRootAdvance(q, next, auth)
    PROVE RootsInv'
<1>1. root' = root /\ history' = history /\ grants' = grants
  BY Zenon DEF BeginRootAdvance
<1> DEFINE WritersKept == ereq' \in [ERequest -> RootAdvance] /\ \A r \in ERequest : WriterIsLawful(ereq'[r], history)
<1>2. WritersKept
  <2>1. ASSUME NEW a \in {"refused", "replay", "advanced", "concurrent"}, Answer(q, a) PROVE WritersKept
    BY Zenon, <2>1, AnsweredRootAdvance DEF RootsInv
  <2>2. ASSUME NEW d, d \in RootAdvance, WriterIsLawful(d, history), ereq' = [ereq EXCEPT ![q] = d] PROVE WritersKept
    <3>1. ereq' \in [ERequest -> RootAdvance] /\ ereq'[q] = d /\ \A r \in ERequest : r # q => ereq'[r] = ereq[r]
      BY Zenon, <2>2 DEF RootsInv
    <3> QED
      BY Zenon, <2>2, <3>1 DEF RootsInv
  <2>3. auth \in Grant \cup {NoAuth}
    BY Zenon DEF RootsInv
  <2>4. CASE root = NoState
    <3> DEFINE d == [pc |-> "writeRoot", next |-> next, read |-> NoState, auth |-> auth]
    <3>1. d \in RootAdvance /\ d.read = NoState /\ d.next = next /\ ereq' = [ereq EXCEPT ![q] = d]
      BY Zenon, <2>3, <2>4 DEF RootAdvance, BeginRootAdvance
    <3> HIDE DEF d
    <3>2. WriterIsLawful(d, history)
      BY Zenon, <3>1 DEF WriterIsLawful
    <3> QED
      BY Zenon, <2>2, <3>1, <3>2
  <2>5. CASE /\ root # NoState /\ ~(next.gen = root.gen /\ SaidOfRoot(root) = next)
             /\ RootMayMove(root, next, auth)
    <3> DEFINE d == [pc |-> "writeRoot", next |-> next, read |-> root, auth |-> auth]
    <3>1. root \in RootRow
      BY Zenon, <2>5 DEF RootsInv
    <3>2. /\ d \in RootAdvance /\ d.read = root /\ d.next = next /\ d.auth = auth
          /\ ereq' = [ereq EXCEPT ![q] = d]
      BY Zenon, <2>3, <2>5, <3>1 DEF RootAdvance, BeginRootAdvance
    <3> HIDE DEF d
    <3>3. MovesLawfully(root, next, auth)
      BY Zenon, <2>3, <2>5 DEF RootMayMove, RotationAuthorized, MovesLawfully
    <3>4. history # <<>> /\ root.rev = Len(history) /\ history[Len(history)].state = root /\ root.rev \in Nat \ {0}
      BY Zenon, <2>5, <3>1 DEF RootsInv, RootRow
    <3>5. root.rev \in 1..Len(history)
      BY <3>1, <3>4 DEF RootRow
    <3>6. WriterIsLawful(d, history)
      BY Zenon, <3>2, <3>3, <3>4, <3>5 DEF WriterIsLawful
    <3> QED
      BY Zenon, <2>2, <3>2, <3>6
  <2>6. CASE root # NoState /\ next.gen = root.gen /\ SaidOfRoot(root) = next
    <3>1. root.gen \in Nat
      BY <2>6, SourcesAssumption DEF RootsInv, RootRow
    <3>2. ~RootMayMove(root, next, auth)
      BY <2>6, <3>1 DEF RootMayMove
    <3>3. Answer(q, "replay")
      BY Zenon, <2>6, <3>2 DEF BeginRootAdvance
    <3> QED
      BY Zenon, <2>1, <3>3
  <2>7. CASE /\ root # NoState /\ ~(next.gen = root.gen /\ SaidOfRoot(root) = next)
             /\ ~RootMayMove(root, next, auth)
    BY Zenon, <2>1, <2>7 DEF BeginRootAdvance
  <2> QED
    BY Zenon, <2>4, <2>5, <2>6, <2>7
<1> QED
  BY Zenon, <1>1, <1>2 DEF RootsInv


\* The history is a sequence.
HistorySeq == \E S : history \in Seq(S)

\* One more event: the chain grows by a link, and what was in it stays.
LEMMA HistoryGrows ==
    ASSUME HistorySeq, NEW e, history' = Append(history, e)
    PROVE /\ Len(history') = Len(history) + 1 /\ Len(history) \in Nat /\ history' # <<>>
          /\ \A i \in 1..Len(history) : history'[i] = history[i]
          /\ history'[Len(history) + 1] = e
          /\ HistorySeq'
<1>1. PICK S : history \in Seq(S)
  BY Zenon DEF HistorySeq
<1>2. Len(history) \in Nat /\ history \in [1..Len(history) -> S]
  BY Zenon, <1>1, LenProperties
<1>3. history \in [1..Len(history) -> S \cup {e}]
  BY Zenon, <1>2
<1>4. history \in Seq(S \cup {e})
  BY Zenon, <1>2, <1>3, SeqDef
<1>5. /\ history' \in Seq(S \cup {e}) /\ Len(history') = Len(history) + 1 /\ history'[Len(history) + 1] = e
      /\ \A i \in 1..Len(history) : history'[i] = history[i]
  BY <1>4, AppendProperties
<1>6. history' # <<>>
  BY <1>2, <1>5, EmptySeq
<1> QED
  BY Zenon, <1>2, <1>5, <1>6 DEF HistorySeq

\* The event that is appended.
LEMMA EventIsAppended ==
    ASSUME NEW state, NEW decision, NEW auth
    PROVE \E e : /\ AppendTrustRootEvent(state, decision, auth) = Append(history, e)
                 /\ e.seq = state.rev /\ e.gen = state.gen /\ e.decision = decision /\ e.state = state
                 /\ e.auth = auth /\ e.prev = LastHash /\ e.hash = EventHash(e)
<1> DEFINE last == LastHash
           e0 == [seq |-> state.rev, gen |-> state.gen, decision |-> decision, state |-> state, auth |-> auth,
                  prev |-> last]
           e == [seq |-> e0.seq, gen |-> e0.gen, decision |-> e0.decision, state |-> e0.state,
                 auth |-> e0.auth, prev |-> e0.prev, hash |-> EventHash(e0)]
<1>1. AppendTrustRootEvent(state, decision, auth) = Append(history, e)
  BY Zenon DEF AppendTrustRootEvent
<1> HIDE DEF last
<1>2. /\ e0.seq = state.rev /\ e0.gen = state.gen /\ e0.decision = decision /\ e0.state = state
      /\ e0.auth = auth /\ e0.prev = last
  BY Zenon
<1> HIDE DEF e0
<1>3. /\ e.seq = e0.seq /\ e.gen = e0.gen /\ e.decision = e0.decision /\ e.state = e0.state
      /\ e.auth = e0.auth /\ e.prev = e0.prev /\ e.hash = EventHash(e0)
  BY Zenon
<1> HIDE DEF e
<1>4. EventHash(e) = EventHash(e0)
  BY Zenon, <1>3 DEF EventHash
<1> QED
  BY Zenon, <1>1, <1>2, <1>3, <1>4 DEF last

\* The write of the root, and its event.
LEMMA WriteRootKeeps ==
    ASSUME RootsInv, HistorySeq, NEW q \in ERequest, WriteRoot(q)
    PROVE RootsInv' /\ HistorySeq'
<1> DEFINE d == ereq[q]
           state == [key |-> d.next.key, gen |-> d.next.gen, floor |-> d.next.floor, status |-> d.next.status,
                     rev |-> IF d.read = NoState THEN 1 ELSE d.read.rev + 1]
           decision == IF d.read = NoState THEN "ADVANCED"
                       ELSE IF d.next.key = d.read.key THEN "ADVANCED_POLICY" ELSE "ROTATED"
           auth == IF decision = "ROTATED" THEN d.auth ELSE NoAuth
<1>1. d \in RootAdvance /\ d.pc = "writeRoot" /\ WriterIsLawful(d, history)
  BY Zenon DEF RootsInv, WriteRoot
<1>2. d.next \in RootState /\ d.read \in RootRow \cup {NoState} /\ grants' = grants
  BY ZenonT(60), <1>1 DEF WriterIsLawful, RootAdvance, WriteRoot
<1>3. CASE ~(RootIsAsRead(q) /\ state.rev = Len(history) + 1)
  <2>1. Answer(q, "concurrent") /\ root' = root /\ history' = history
    BY Zenon, <1>3 DEF WriteRoot
  <2>2. ereq' \in [ERequest -> RootAdvance] /\ \A r \in ERequest : WriterIsLawful(ereq'[r], history)
    BY Zenon, <2>1, AnsweredRootAdvance DEF RootsInv
  <2> QED
    BY Zenon, <1>2, <2>1, <2>2 DEF RootsInv, HistorySeq
<1>4. CASE RootIsAsRead(q) /\ state.rev = Len(history) + 1
  <2> DEFINE n == Len(history)
  <2>1. /\ root' = state /\ Answer(q, "advanced")
        /\ history' = AppendTrustRootEvent(state, decision, auth)
    BY ZenonT(60), <1>4 DEF WriteRoot
  <2>2. state \in RootRow /\ state.rev = n + 1
    <3> DEFINE rev == IF d.read = NoState THEN 1 ELSE d.read.rev + 1
    <3>1. rev \in Nat \ {0}
      BY <1>2 DEF RootRow
    <3>2. d.next.key \in TrustKey /\ d.next.gen \in 1..MaxGeneration /\ d.next.floor \in 1..MaxFloor /\ d.next.status \in {"ACTIVE", "REVOKED"}
      BY Zenon, <1>2 DEF RootState
    <3> HIDE DEF rev
    <3>3. state \in RootRow
      BY Zenon, <3>1, <3>2 DEF RootRow, rev
    <3> QED
      BY Zenon, <1>4, <3>3
  <2>3. /\ state.key = d.next.key /\ state.gen = d.next.gen /\ state.floor = d.next.floor
        /\ state.status = d.next.status
    BY Zenon
  <2>4. d.read # NoState => /\ d.read \in RootRow /\ root # NoState /\ d.read.rev = n /\ n >= 1 /\ root = d.read
                            /\ history[n].state = root /\ MovesLawfully(d.read, d.next, d.auth)
    <3> SUFFICES ASSUME d.read # NoState
                 PROVE  /\ d.read \in RootRow /\ root # NoState /\ d.read.rev = n /\ n >= 1 /\ root = d.read
                        /\ history[n].state = root /\ MovesLawfully(d.read, d.next, d.auth)
      BY Zenon
    <3>1. MovesLawfully(d.read, d.next, d.auth) /\ d.read.rev \in 1..n /\ history[d.read.rev].state = d.read
      BY Zenon, <1>1 DEF WriterIsLawful
    <3>2. root # NoState /\ root.rev = d.read.rev
      BY Zenon, <1>4 DEF RootIsAsRead
    <3>3. root.rev = n /\ history[n].state = root
      BY Zenon, <3>2 DEF RootsInv
    <3>4. d.read \in RootRow
      BY Zenon, <1>2
    <3>5. root = d.read /\ d.read.rev = n
      BY Zenon, <3>1, <3>2, <3>3
    <3>6. n \in Nat /\ n >= 1
      BY <3>1, <3>5
    <3> QED
      BY Zenon, <3>1, <3>2, <3>3, <3>4, <3>5, <3>6
  <2>5. d.read = NoState => root = NoState /\ history = <<>> /\ n = 0
    BY Zenon, <1>4, EmptySeq DEF RootIsAsRead, RootsInv
  <2>6. auth # NoAuth <=> decision = "ROTATED"
    BY Zenon, <2>4, SourcesAssumption DEF MovesLawfully
  <2>7. decision = "ROTATED" => d.read # NoState /\ d.next.key # d.read.key /\ auth = d.auth
    BY Zenon
  <2>8. d.read # NoState /\ d.next.key # d.read.key => decision = "ROTATED"
    BY Zenon
  <2> HIDE DEF state, decision, auth
  <2>9. PICK e : /\ history' = Append(history, e)
                 /\ e.seq = state.rev /\ e.gen = state.gen /\ e.decision = decision /\ e.state = state
                 /\ e.auth = auth /\ e.prev = LastHash /\ e.hash = EventHash(e)
    BY <2>1, EventIsAppended
  <2>10. e.hash = EventHash(e)
    BY Zenon, <2>9
  <2>11. Named(state) = Named(d.next)
    BY Zenon, <2>3 DEF Named
  <2>12. /\ Len(history') = n + 1 /\ n \in Nat /\ history' # <<>>
         /\ \A i \in 1..n : history'[i] = history[i]
         /\ history'[n + 1] = e
         /\ HistorySeq'
    BY Zenon, <2>9, HistoryGrows
  <2>13. EventIsLinked(history', n + 1)
    <3>1. CASE d.read = NoState
      <4>1. n = 0 /\ history'[1] = e /\ LastHash = Genesis
        BY <2>5, <2>12, <3>1 DEF LastHash
      <4>2. decision # "ROTATED" /\ auth = NoAuth
        BY Zenon, <2>6, <2>7, <3>1
      <4>3. e.state \in RootRow /\ e.state.gen = e.state.gen + 1 - 1
        BY SMTT(60), <2>9, <2>2, SourcesAssumption DEF RootRow
      <4> QED
        BY <2>9, <2>10, <2>2, <4>1, <4>2, <4>3 DEF EventIsLinked
    <3>2. CASE d.read # NoState
      <4>1. /\ n >= 1 /\ history'[n] = history[n] /\ history[n].state = d.read /\ n \in 1..n /\ 1 \in 1..n
            /\ n + 1 > 1 /\ (n + 1) - 1 = n /\ n + 1 # 1 /\ history'[1] = history[1]
        BY <2>4, <2>12, <3>2
      <4>2. LastHash = history[n].hash
        BY Zenon, <4>1, <2>4, <3>2 DEF LastHash, RootsInv
      <4>3. EventIsLinked(history, n) /\ EventIsLinked(history, 1)
        BY ZenonT(60), <4>1 DEF RootsInv
      <4>4. state.gen = d.read.gen + 1 /\ state.floor >= d.read.floor /\ d.read.gen \in Nat
        BY <2>3, <2>4, <3>2, SourcesAssumption DEF MovesLawfully, RootRow
      <4>5. d.read.gen = history[1].state.gen + n - 1 /\ history[1].state.gen \in Nat
        <5>1. history[n].state.gen = history[1].state.gen + n - 1
          BY Zenon, <4>3 DEF EventIsLinked
        <5>2. history[1].state \in RootRow
          BY Zenon, <4>3 DEF EventIsLinked
        <5> QED
          BY <4>1, <5>1, <5>2, SourcesAssumption DEF RootRow
      <4>6. state.gen = history[1].state.gen + (n + 1) - 1
        <5> DEFINE g == history[1].state.gen
        <5>1. n \in Nat /\ g \in Nat /\ state.gen = (g + n - 1) + 1
          BY Zenon, <2>12, <4>4, <4>5
        <5> HIDE DEF g, n
        <5>2. state.gen = g + (n + 1) - 1
          BY <5>1
        <5> QED
          BY Zenon, <5>2 DEF g
      <4>7. d.read.status = "REVOKED" /\ state.status = "ACTIVE" => decision = "ROTATED"
        BY Zenon, <2>3, <2>4, <2>8, <3>2 DEF MovesLawfully
      <4>8. auth # NoAuth => auth.prior = Named(d.read) /\ auth.next = Named(state)
        BY Zenon, <2>4, <2>6, <2>7, <2>11 DEF MovesLawfully
      <4> QED
        BY SMTT(60), <2>9, <2>10, <2>2, <2>6, <2>12, <4>1, <4>2, <4>4, <4>6, <4>7, <4>8 DEF EventIsLinked
    <3> QED
      BY Zenon, <3>1, <3>2
  <2>14. \A i \in 1..Len(history') : EventIsLinked(history', i)
    <3> TAKE i \in 1..Len(history')
    <3>1. CASE i = n + 1
      BY Zenon, <2>13, <3>1
    <3>2. CASE i # n + 1
      <4>1. i \in 1..n /\ 1 \in 1..n /\ (i > 1 => i - 1 \in 1..n) /\ (i = 1 \/ i > 1)
        BY <2>12, <3>2
      <4>2. history'[i] = history[i] /\ history'[1] = history[1] /\ (i > 1 => history'[i - 1] = history[i - 1])
        BY Zenon, <2>12, <4>1
      <4>3. EventIsLinked(history, i)
        BY Zenon, <4>1 DEF RootsInv
      <4> QED
        BY Zenon, <4>1, <4>2, <4>3 DEF EventIsLinked
    <3> QED
      BY Zenon, <3>1, <3>2
  <2>15. \A r \in ERequest : WriterIsLawful(ereq[r], history')
    <3> TAKE r \in ERequest
    <3>1. WriterIsLawful(ereq[r], history)
      BY Zenon DEF RootsInv
    <3> QED
      BY <2>12, <3>1 DEF WriterIsLawful
  <2>16. ereq' \in [ERequest -> RootAdvance] /\ \A r \in ERequest : WriterIsLawful(ereq'[r], history')
    BY Zenon, <2>1, <2>15, AnsweredRootAdvance
  <2>17. state # NoState
    BY Zenon, <2>2, SourcesAssumption
  <2>18. history'[Len(history')].state = state /\ state.rev = Len(history')
    BY Zenon, <2>9, <2>2, <2>12
  <2> QED
    BY Zenon, <1>2, <2>1, <2>2, <2>12, <2>14, <2>16, <2>17, <2>18 DEF RootsInv
<1> QED
  BY Zenon, <1>3, <1>4


\* What governance authorizes names two states of the root.
LEMMA AuthorizeKeeps ==
    ASSUME RootsInv, NEW next \in RootState, Authorize(next)
    PROVE RootsInv'
<1> DEFINE g == [prior |-> Named(root), next |-> Named(next)]
<1>1. root \in RootRow
  BY Zenon DEF RootsInv, Authorize
<1>2. Named(root) \in NamedRoot /\ Named(next) \in NamedRoot
  BY Zenon, <1>1 DEF Named, NamedRoot, RootRow, RootState
<1>3. g \in Grant
  BY Zenon, <1>2 DEF Grant
<1>4. grants' = grants \cup {g} /\ root' = root /\ history' = history /\ ereq' = ereq
  BY Zenon DEF Authorize
<1> HIDE DEF g
<1> QED
  BY Zenon, <1>3, <1>4 DEF RootsInv

RootsIndInv == RootsInv /\ HistorySeq

\* Every step of the trust roots keeps it.
LEMMA RootsKept == RootsIndInv /\ [TrustRootsNext]_sourceVars => RootsIndInv'
<1> SUFFICES ASSUME RootsIndInv, [TrustRootsNext]_sourceVars PROVE RootsIndInv'
  BY Zenon
<1>1. HistorySeq /\ (history' = history => HistorySeq')
  BY Zenon DEF RootsIndInv, HistorySeq
<1>2. RootsInv
  BY Zenon DEF RootsIndInv
<1>3. CASE UNCHANGED sourceVars
  BY Zenon, <1>1, <1>2, <1>3 DEF sourceVars, RootsInv, RootsIndInv
<1>4. ASSUME NEW q \in ERequest, WriteRoot(q) PROVE RootsIndInv'
  BY Zenon, <1>1, <1>2, <1>4, WriteRootKeeps DEF RootsIndInv
<1>5. ASSUME NEW q \in ERequest, NEW s \in RootState, NEW a \in grants \cup {NoAuth}, BeginRootAdvance(q, s, a)
      PROVE RootsIndInv'
  <2>1. history' = history
    BY Zenon, <1>5 DEF BeginRootAdvance
  <2> QED
    BY Zenon, <1>1, <1>2, <1>5, <2>1, BeginRootAdvanceKeeps DEF RootsIndInv
<1>6. ASSUME NEW s \in RootState, Authorize(s) PROVE RootsIndInv'
  <2>1. history' = history
    BY Zenon, <1>6 DEF Authorize
  <2> QED
    BY Zenon, <1>1, <1>2, <1>6, <2>1, AuthorizeKeeps DEF RootsIndInv
<1>7. ASSUME NEW g \in grants, ExpireGrant(g) PROVE RootsIndInv'
  BY Zenon, <1>1, <1>2, <1>7 DEF ExpireGrant, RootsIndInv, RootsInv
<1> QED
  BY Zenon, <1>3, <1>4, <1>5, <1>6, <1>7 DEF TrustRootsNext

\* It holds in every state.
LEMMA RootsInvariant == TrustRootsSpec => []RootsIndInv
<1>1. SourcesInit => RootsIndInv
  <2> SUFFICES ASSUME SourcesInit PROVE RootsIndInv
    BY Zenon
  <2>1. Untouched \in RootAdvance /\ Untouched.pc = "new"
    BY Zenon DEF Untouched, RootAdvance
  <2>2. history = <<>> /\ Len(history) = 0 /\ HistorySeq
    BY Zenon, EmptySeq DEF SourcesInit, HistorySeq
  <2>3. 1..Len(history) = {}
    BY <2>2
  <2>4. \A q \in ERequest : ereq[q] = Untouched
    BY Zenon DEF SourcesInit
  <2> QED
    BY Zenon, <2>1, <2>2, <2>3, <2>4 DEF SourcesInit, RootsInv, RootsIndInv, WriterIsLawful
<1> QED
  BY <1>1, RootsKept, PTL DEF TrustRootsSpec

\* The events are at the positions from one on.
LEMMA EventPositions ==
    ASSUME RootsIndInv
    PROVE Len(history) \in Nat /\ DOMAIN history = 1..Len(history)
<1>1. PICK S : history \in Seq(S)
  BY Zenon DEF RootsIndInv, HistorySeq
<1> QED
  BY Zenon, <1>1, LenProperties

\* What is known of one event.
LEMMA EventFacts ==
    ASSUME RootsIndInv, NEW i \in DOMAIN history
    PROVE /\ i \in 1..Len(history) /\ 1 \in DOMAIN history /\ (i > 1 => i - 1 \in DOMAIN history)
          /\ history[i].gen = history[i].state.gen /\ history[i].gen \in Nat
          /\ history[i].gen = history[1].state.gen + i - 1
          /\ history[i].auth # NoAuth =>
               /\ i > 1 /\ history[i].auth.next = Named(history[i].state)
               /\ history[i].auth.prior = Named(history[i - 1].state)
<1>1. i \in 1..Len(history) /\ Len(history) \in Nat /\ DOMAIN history = 1..Len(history)
  BY Zenon, EventPositions
<1>2. 1 \in DOMAIN history /\ (i > 1 => i - 1 \in DOMAIN history) /\ (i = 1 \/ i > 1)
  BY <1>1
<1>3. EventIsLinked(history, i)
  BY Zenon, <1>1 DEF RootsIndInv, RootsInv
<1>4. history[i].state \in RootRow
  BY Zenon, <1>3 DEF EventIsLinked
<1>5. history[i].state.gen \in Nat
  BY <1>4, SourcesAssumption DEF RootRow
<1> QED
  BY Zenon, <1>1, <1>2, <1>3, <1>5 DEF EventIsLinked

\* The history is the chain that its listing accepts, has an event for every change of the
\* root, and ends with the root as it is, however many advances race (WriteRoot).
THEOREM HistoryStaysChained == TrustRootsSpec => []HistoryIsChain
<1>1. RootsIndInv => HistoryIsChain
  <2> SUFFICES ASSUME RootsIndInv PROVE HistoryIsChain
    BY Zenon
  <2>1. RootsInv /\ DOMAIN history = 1..Len(history)
    BY Zenon, EventPositions DEF RootsIndInv
  <2>2. ListTrustRootEvents(history)
    BY Zenon, <2>1 DEF RootsInv, EventIsLinked, ListTrustRootEvents
  <2>3. ASSUME NEW i \in DOMAIN history PROVE (history[i].decision = "ROTATED") = (history[i].auth # NoAuth)
    BY Zenon, <2>1 DEF RootsInv, EventIsLinked
  <2> QED
    BY Zenon, <2>1, <2>2, <2>3 DEF HistoryIsChain, RootsInv
<1> QED
  BY <1>1, RootsInvariant, PTL

\* An authorization serves one rotation, the one it was given for: the generations of the
\* history leave none out, and an authorization names the two it lies between.
THEOREM RotationsAreAuthorizedOnce == TrustRootsSpec => []AuthorizationIsUsedOnce
<1>1. RootsIndInv => AuthorizationIsUsedOnce
  <2> SUFFICES ASSUME RootsIndInv, NEW i \in DOMAIN history, NEW j \in DOMAIN history, history[i].auth # NoAuth
               PROVE /\ history[i].auth.next = Named(history[i].state)
                     /\ history[i].auth.prior = Named(history[i - 1].state)
                     /\ i # j => history[i].auth # history[j].auth
    BY Zenon DEF AuthorizationIsUsedOnce
  <2>1. /\ i \in 1..Len(history) /\ history[i].gen = history[1].state.gen + i - 1
        /\ history[i].auth.next = Named(history[i].state) /\ history[i].auth.prior = Named(history[i - 1].state)
        /\ history[i].gen = history[i].state.gen
    BY Zenon, EventFacts
  <2>2. /\ j \in 1..Len(history) /\ history[j].gen = history[1].state.gen + j - 1
        /\ history[j].auth # NoAuth => history[j].auth.next = Named(history[j].state)
        /\ history[j].gen = history[j].state.gen
    BY Zenon, EventFacts
  <2>3. 1 \in DOMAIN history
    BY Zenon, EventFacts
  <2>4. history[1].state.gen \in Nat
    BY Zenon, <2>3, EventFacts
  <2>5. ASSUME history[i].auth = history[j].auth PROVE i = j
    <3>1. Named(history[i].state) = Named(history[j].state)
      BY Zenon, <2>1, <2>2, <2>5
    <3>2. history[i].state.gen = history[j].state.gen
      BY Zenon, <3>1 DEF Named
    <3> QED
      BY SMTT(60), <2>1, <2>2, <2>4, <3>2
  <2> QED
    BY Zenon, <2>1, <2>5
<1> QED
  BY <1>1, RootsInvariant, PTL

\* A revoked root is active again only by a rotation, the floor never falls, and no
\* generation is left out (RootMayMove, WriteRoot).
THEOREM RevokedRootsStayRevoked == TrustRootsSpec => []RevokedRootIsNotRevived
<1>1. RootsIndInv => RevokedRootIsNotRevived
  <2> SUFFICES ASSUME RootsIndInv, NEW i \in DOMAIN history, i > 1
               PROVE /\ history[i].gen = history[i - 1].gen + 1
                     /\ history[i].state.floor >= history[i - 1].state.floor
                     /\ history[i - 1].state.status = "REVOKED" /\ history[i].state.status = "ACTIVE"
                          => history[i].decision = "ROTATED"
    BY Zenon DEF RevokedRootIsNotRevived
  <2>1. i \in 1..Len(history) /\ i - 1 \in DOMAIN history /\ 1 \in DOMAIN history
    BY Zenon, EventFacts
  <2>2. EventIsLinked(history, i)
    BY Zenon, <2>1 DEF RootsIndInv, RootsInv
  <2>3. history[i].gen = history[1].state.gen + i - 1
    BY Zenon, EventFacts
  <2>4. history[i - 1].gen = history[1].state.gen + (i - 1) - 1
    BY Zenon, <2>1, EventFacts
  <2>5. history[i].gen = history[i - 1].gen + 1
    <3>1. history[1].state.gen \in Nat
      BY Zenon, <2>1, EventFacts
    <3> QED
      BY SMTT(60), <2>1, <2>3, <2>4, <3>1
  <2> QED
    BY Zenon, <2>2, <2>5 DEF EventIsLinked
<1> QED
  BY <1>1, RootsInvariant, PTL

\* For every set of requests, keys and generations: the history is a chain that ends with the
\* root, an authorization served one rotation of the root it was given against, and no
\* revoked root came back, however the advances race (BeginRootAdvance, WriteRoot).
THEOREM RacingRotationsAreLawful == TrustRootsSpec => []RotationsAreLawful
<1>1. HistoryIsChain /\ AuthorizationIsUsedOnce /\ RevokedRootIsNotRevived => RotationsAreLawful
  BY Zenon DEF RotationsAreLawful
<1> QED
  BY <1>1, HistoryStaysChained, RotationsAreAuthorizedOnce, RevokedRootsStayRevoked, PTL

=============================================================================
