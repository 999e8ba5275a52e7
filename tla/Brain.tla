-------------------------------- MODULE Brain --------------------------------
(***************************************************************************)
(* The organisation's knowledge namespace.                                 *)
(*   - The law of one lineage of revisions (packages/brain/brain.go): the  *)
(*     Law actions.                                                        *)
(*   - The service that writes and reads it (services/api/brain_handler.go,*)
(*     brain_store_backend.go, services/work/store/brain_store.go).  The   *)
(*     service does not call the package: it repeats a part of the law in  *)
(*     its handlers, and each handler is several statements.               *)
(*                                                                         *)
(* The revision of a row is its place: it is allocated as latest + 1, and  *)
(* (path, revision) is the primary key.  Content is abstract; the hash of  *)
(* a content is the content.  A request whose shape is refused (path,      *)
(* class, evidence, empty human id or note) changes nothing and is left    *)
(* out.                                                                    *)
(***************************************************************************)
EXTENDS Naturals, Sequences

CONSTANTS Path, Content, Human, BRequest,
          NoHuman,       \* an empty human_stamp
          NoContent,     \* the empty content of a tombstone
          NoRow,
          EphemeralTTL,  \* the hour an ephemeral object lives
          BMaxTime,      \* bound: the clock
          MaxRevisions,  \* bound: revisions of a path
          MountIds       \* the ids of the mounts, in the order they are minted

ASSUME BrainAssumption ==
    /\ BRequest \subseteq Nat \ {0} /\ MountIds \subseteq Nat
    /\ {EphemeralTTL, BMaxTime, MaxRevisions} \subseteq Nat
    /\ NoHuman \notin Human /\ NoContent \notin Content /\ Path # {}

VARIABLES rows,      \* brain_objects: the revisions of each path
          breq,      \* the requests in flight
          bnow,      \* the clock
          bmounts,   \* brain_mounts
          shown,     \* the mounts the last listing answered
          unmounted,     \* ghost: the mounts whose revocation was answered
          governed   \* the writers go through the package

brainVars == <<rows, breq, bnow, bmounts, shown, unmounted, governed>>

Class == {"immutable", "mutable_with_revision", "ephemeral"}

Row(class, content, expires) ==
    [class |-> class, content |-> content, auth |-> FALSE, stamp |-> NoHuman,
     tomb |-> FALSE, expires |-> expires, by |-> 0]

NewRequest == [pc |-> "new", kind |-> "create", path |-> CHOOSE p \in Path : TRUE,
               row |-> NoRow, human |-> NoHuman, rev |-> 0]

BrainInit ==
    /\ rows = [p \in Path |-> <<>>]
    /\ breq = [q \in BRequest |-> NewRequest]
    /\ bnow = 0
    /\ bmounts = [i \in MountIds |-> "none"]
    /\ shown = {} /\ unmounted = {}
    /\ governed \in BOOLEAN

Latest(p) == rows[p][Len(rows[p])]

\* An ephemeral object lives until its expiry.
Expires(class) == IF class = "ephemeral" THEN bnow + EphemeralTTL ELSE 0

-----------------------------------------------------------------------------
(***************************************************************************)
(* The law of the package.                                                 *)
(***************************************************************************)

LawWrite(p, lineage) ==
    /\ governed /\ Len(lineage) <= MaxRevisions
    /\ rows' = [rows EXCEPT ![p] = lineage]
    /\ UNCHANGED <<breq, bnow, bmounts, shown, unmounted, governed>>

\* NewObject: the first revision is never authoritative.
NewObject(p, class, content) ==
    /\ rows[p] = <<>>
    /\ LawWrite(p, <<Row(class, content, Expires(class))>>)

\* The law table of NextRevision: never an immutable one, an ephemeral one until it
\* expires, a mutable one until it is a tombstone.
MayRevise(o) ==
    /\ o.class # "immutable"
    /\ o.class = "ephemeral" => bnow < o.expires
    /\ o.class = "mutable_with_revision" => ~o.tomb

\* NextRevision: new content is never law.
NextRevision(o, content) == Row(o.class, content, o.expires)

Revise(p, content) ==
    /\ rows[p] # <<>> /\ MayRevise(Latest(p))
    /\ LawWrite(p, Append(rows[p], NextRevision(Latest(p), content)))

\* PromoteToAuthoritative: an immutable object is stamped in place and once, a mutable
\* one gets a revision of the same content.
PromoteToAuthoritative(p, h) ==
    /\ rows[p] # <<>>
    /\ LET o == Latest(p)
           stamped(r) == [r EXCEPT !.auth = TRUE, !.stamp = h]
       IN /\ o.class # "ephemeral" /\ ~o.tomb
          /\ IF o.class = "immutable"
             THEN ~o.auth /\ LawWrite(p, <<stamped(o)>>)
             ELSE MayRevise(o) /\ LawWrite(p, Append(rows[p], stamped(NextRevision(o, o.content))))

\* Tombstone: for the mutable class only, and never authoritative.
Tombstone(p) ==
    /\ rows[p] # <<>>
    /\ LET o == Latest(p)
       IN /\ o.class = "mutable_with_revision" /\ ~o.tomb /\ MayRevise(o)
          /\ LawWrite(p, Append(rows[p], [NextRevision(o, o.content) EXCEPT !.tomb = TRUE]))

LawStep ==
    \E p \in Path :
        \/ \E class \in Class, content \in Content : NewObject(p, class, content)
        \/ \E content \in Content : Revise(p, content)
        \/ \E h \in Human : PromoteToAuthoritative(p, h)
        \/ Tombstone(p)

-----------------------------------------------------------------------------
(***************************************************************************)
(* The service: objects.                                                   *)
(***************************************************************************)

Arrived(q) == ~governed /\ breq[q].pc = "new" /\ \A r \in BRequest : r < q => breq[r].pc # "new"

Step(q, pc) == breq' = [breq EXCEPT ![q].pc = pc]

ServiceUnchanged == UNCHANGED <<bnow, bmounts, shown, unmounted, governed>>

\* POST /v1/brain/objects: the lineage as it stands decides whether the path may be
\* written; the class is the one the request names.
BrainCreateObject(q, p, class, content) ==
    /\ Arrived(q)
    /\ LET refused == rows[p] # <<>> /\ \/ Latest(p).class = "immutable"
                                        \/ Latest(p).tomb
                                        \/ Latest(p).class = "ephemeral" /\ Latest(p).expires < bnow
       IN breq' = [breq EXCEPT ![q] = [pc |-> IF refused THEN "refused" ELSE "allocate",
                       kind |-> "create", path |-> p, row |-> [Row(class, content, Expires(class)) EXCEPT !.by = q],
                       human |-> NoHuman, rev |-> 0]]
    /\ UNCHANGED rows /\ ServiceUnchanged

\* An ephemeral object and one that is law already cannot be promoted.
Promotable(o) == o.class # "ephemeral" /\ ~o.auth

\* POST /v1/brain/objects/promote: the content that is read is carried onto the new
\* revision; an immutable object is stamped in place.
BrainPromoteObject(q, p, h) ==
    /\ Arrived(q) /\ rows[p] # <<>>
    /\ LET o == Latest(p)
           promoted == [Row(o.class, o.content, 0) EXCEPT !.auth = TRUE, !.stamp = h, !.by = q]
       IN breq' = [breq EXCEPT ![q] =
              [pc |-> IF ~Promotable(o) THEN "refused"
                      ELSE IF o.class = "immutable" THEN "stamp" ELSE "allocate",
               kind |-> "promote", path |-> p, row |-> promoted, human |-> h, rev |-> 0]]
    /\ UNCHANGED rows /\ ServiceUnchanged

\* POST /v1/brain/objects/tombstone: objClassForTombstone reads the class, and nothing
\* else is asked of the lineage.
BrainTombstoneObject(q, p) ==
    /\ Arrived(q)
    /\ LET class == IF rows[p] = <<>> THEN "mutable_with_revision" ELSE Latest(p).class
       IN breq' = [breq EXCEPT ![q] = [pc |-> "allocate", kind |-> "tombstone", path |-> p,
                       row |-> [Row(class, NoContent, 0) EXCEPT !.tomb = TRUE, !.by = q],
                       human |-> NoHuman, rev |-> 0]]
    /\ UNCHANGED rows /\ ServiceUnchanged

\* The backend allocates the revision: LatestRevision + 1.
AllocateRevision(q) ==
    /\ breq[q].pc = "allocate" /\ Len(rows[breq[q].path]) < MaxRevisions
    /\ breq' = [breq EXCEPT ![q] = [@ EXCEPT !.pc = "insert", !.rev = Len(rows[breq[q].path]) + 1]]
    /\ UNCHANGED rows /\ ServiceUnchanged

\* PutBrainObject: an INSERT that never overwrites; a revision that is taken is an error.
PutBrainObject(q) ==
    /\ breq[q].pc = "insert"
    /\ LET p == breq[q].path
       IN IF breq[q].rev <= Len(rows[p])
          THEN Step(q, "failed") /\ UNCHANGED rows
          ELSE Step(q, "written") /\ rows' = [rows EXCEPT ![p] = Append(@, breq[q].row)]
    /\ ServiceUnchanged

\* Faulty variant of Stampable: a stamped row is stamped again.
StampableTwice(o) == o.class = "immutable" /\ ~o.tomb

\* The WHERE of StampBrainPromotion.
Stampable(o) == o.class = "immutable" /\ ~o.auth /\ ~o.tomb

\* StampBrainPromotion: the one UPDATE, of revision 1.
StampBrainPromotion(q) ==
    /\ breq[q].pc = "stamp"
    /\ LET p == breq[q].path
       IN IF Stampable(rows[p][1])
          THEN /\ rows' = [rows EXCEPT ![p][1] = [@ EXCEPT !.auth = TRUE, !.stamp = breq[q].human]]
               /\ breq' = [breq EXCEPT ![q] = [@ EXCEPT !.pc = "written", !.rev = 1]]
          ELSE Step(q, "failed") /\ UNCHANGED rows
    /\ ServiceUnchanged

BrainTick ==
    /\ bnow < BMaxTime
    /\ bnow' = bnow + 1
    /\ UNCHANGED <<rows, breq, bmounts, shown, unmounted, governed>>

ObjectStep(q) ==
    \/ \E p \in Path :
         \/ \E class \in Class, content \in Content : BrainCreateObject(q, p, class, content)
         \/ \E h \in Human : BrainPromoteObject(q, p, h)
         \/ BrainTombstoneObject(q, p)
    \/ AllocateRevision(q) \/ PutBrainObject(q) \/ StampBrainPromotion(q)

-----------------------------------------------------------------------------
(***************************************************************************)
(* The service: mounts of one subject.                                     *)
(***************************************************************************)

MountUnchanged == UNCHANGED <<rows, breq, bnow, governed>>

\* CreateBrainMount: a fresh id for every grant.
CreateBrainMount(i) ==
    /\ bmounts[i] = "none" /\ \A j \in MountIds : j < i => bmounts[j] # "none"
    /\ bmounts' = [bmounts EXCEPT ![i] = "live"]
    /\ UNCHANGED <<shown, unmounted>> /\ MountUnchanged

\* RevokeBrainMount: an UPDATE; an id that is unknown is a success too.
RevokeBrainMount(i) ==
    /\ bmounts' = [bmounts EXCEPT ![i] = IF @ = "none" THEN @ ELSE "revoked"]
    /\ unmounted' = IF bmounts[i] = "none" THEN unmounted ELSE unmounted \cup {i}
    /\ UNCHANGED shown /\ MountUnchanged

\* ListBrainMounts: the surface hides the revoked ones.  An expired mount is listed.
ListBrainMounts == {i \in MountIds : bmounts[i] = "live"}

BrainListMounts ==
    /\ shown' = ListBrainMounts
    /\ UNCHANGED <<bmounts, unmounted>> /\ MountUnchanged

MountStep ==
    \/ \E i \in MountIds : CreateBrainMount(i) \/ RevokeBrainMount(i)
    \/ BrainListMounts

BrainNext == LawStep \/ (\E q \in BRequest : ObjectStep(q)) \/ MountStep \/ BrainTick

BrainSpec == BrainInit /\ [][BrainNext]_brainVars

-----------------------------------------------------------------------------
\* No write of the service or of the package changes or removes a revision, except the
\* one stamp of an immutable object, which leaves its content alone.
AppendOnly ==
    [][\A p \in Path :
         /\ Len(rows'[p]) >= Len(rows[p])
         /\ \A i \in 1..Len(rows[p]) :
              \/ rows'[p][i] = rows[p][i]
              \/ /\ i = 1 /\ rows[p][1].class = "immutable" /\ ~rows[p][1].auth
                 /\ rows'[p][1] = [rows[p][1] EXCEPT !.auth = TRUE, !.stamp = rows'[p][1].stamp]]_brainVars

\* Law is made by a human only, and of knowledge that lives: an authoritative revision
\* carries a stamp, is not ephemeral and is no tombstone, however the writers interleave.
AuthorityIsHuman ==
    \A p \in Path : \A i \in 1..Len(rows[p]) :
        rows[p][i].auth =>
            rows[p][i].stamp \in Human /\ rows[p][i].class # "ephemeral" /\ ~rows[p][i].tomb

\* What a writer was answered stands: the revision is its own, and the object it promoted
\* carries its stamp, whoever raced with it.
AnsweredWriteStands ==
    \A q \in BRequest :
        breq[q].pc = "written" =>
            LET r == rows[breq[q].path][breq[q].rev]
            IN IF breq[q].kind = "promote" THEN r.auth /\ r.stamp = breq[q].human
               ELSE r.by = q

\* The law of a lineage, as the package keeps it: an immutable object has one revision,
\* nothing follows a tombstone, and the class never changes.
LineageIsLawful ==
    governed =>
        \A p \in Path : \A i \in 1..Len(rows[p]) :
            /\ rows[p][1].class = "immutable" => Len(rows[p]) = 1
            /\ rows[p][i].tomb => i = Len(rows[p])
            /\ rows[p][i].class = rows[p][1].class

\* A mount whose revocation was answered is in no later listing.
RevokedMountIsHidden == [][shown' # shown => shown' \cap unmounted = {}]_brainVars

(***************************************************************************)
(* Not so (the README discusses it): the service keeps the law too.  A     *)
(* promotion does not look for the tombstone, racing creations both find   *)
(* the path free, and a creation may name another class.                   *)
(***************************************************************************)
=============================================================================
