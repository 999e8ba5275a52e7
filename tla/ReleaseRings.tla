---------------------------- MODULE ReleaseRings ----------------------------
(***************************************************************************)
(* A release on its way through the rings (packages/release): one step     *)
(* forward at a time, two days in beta before stable, frozen contracts at  *)
(* the gate of stable, and a revert that is logged and starts the soak of  *)
(* the ring again.  The clock of Advance is the caller's, and it may be    *)
(* behind the clock of the last move.                                      *)
(***************************************************************************)
EXTENDS Integers, Sequences

CONSTANTS BetaSoakHours, RMaxTime, MaxReverts, NoStamp

ASSUME ReleaseAssumption == {BetaSoakHours, RMaxTime, MaxReverts} \subseteq Nat /\ NoStamp \notin Nat

VARIABLES release,   \* Ring, KillSwitch non-empty, SoakStartedAt, RevertLog
          rnow,      \* the clock
          inBeta     \* ghost: when the release last entered beta, by the clock of that move

releaseVars == <<release, rnow, inBeta>>

RingOrder == <<"internal", "alpha", "beta", "stable">>
Ring == {RingOrder[i] : i \in 1..4}
RingIndex(r) == CHOOSE i \in 1..4 : RingOrder[i] = r

\* Any ring is a lawful resting state of a loaded release, without a stamp too.
ReleaseInit ==
    /\ release \in {[ring |-> r, stoppable |-> k, soak |-> [x \in Ring |-> NoStamp], log |-> <<>>] :
                      r \in Ring, k \in BOOLEAN}
    /\ rnow = 0
    /\ inBeta = NoStamp

\* Validate: outside internal there is a kill switch.
Valid(r) == r.ring # "internal" => r.stoppable

\* The soak law on the way to stable: no stamp is no soak.
Soaked(r, at) ==
    r.ring = "beta" => r.soak["beta"] # NoStamp /\ at - r.soak["beta"] >= BetaSoakHours

\* Advance at a time the caller names, with freeze evidence that passes or not.
Advance(target, at, frozen) ==
    LET moved == [release EXCEPT !.ring = target, !.soak[target] = at]
    IN /\ Valid(release)
       /\ RingIndex(target) = RingIndex(release.ring) + 1
       /\ target = "stable" => Soaked(release, at) /\ frozen
       /\ Valid(moved)
       /\ release' = moved
       /\ inBeta' = IF target = "beta" THEN at ELSE inBeta
       /\ UNCHANGED rnow

\* Faulty variant of Revert: the soak of the target goes on from its first entry.
RevertUnarmed(target) ==
    LET moved == [release EXCEPT !.ring = target, !.log = Append(@, <<release.ring, target, rnow>>)]
    IN /\ Valid(release) /\ Len(release.log) < MaxReverts
       /\ RingIndex(target) < RingIndex(release.ring)
       /\ Valid(moved)
       /\ release' = moved
       /\ inBeta' = IF target = "beta" THEN rnow ELSE inBeta
       /\ UNCHANGED rnow

\* Revert, with a reason: backwards, logged, and the soak of the target starts again.
Revert(target) ==
    LET moved == [release EXCEPT !.ring = target, !.soak[target] = rnow,
                                 !.log = Append(@, <<release.ring, target, rnow>>)]
    IN /\ Valid(release) /\ Len(release.log) < MaxReverts
       /\ RingIndex(target) < RingIndex(release.ring)
       /\ Valid(moved)
       /\ release' = moved
       /\ inBeta' = IF target = "beta" THEN rnow ELSE inBeta
       /\ UNCHANGED rnow

ReleaseTick == rnow < RMaxTime /\ rnow' = rnow + 1 /\ UNCHANGED <<release, inBeta>>

ReleaseNext ==
    \/ \E target \in Ring, at \in {rnow - 1, rnow}, frozen \in BOOLEAN : at >= 0 /\ Advance(target, at, frozen)
    \/ \E target \in Ring : Revert(target)
    \/ ReleaseTick

ReleaseSpec == ReleaseInit /\ [][ReleaseNext]_releaseVars

-----------------------------------------------------------------------------
\* Stable is entered from beta only, and after the full soak since the release last came
\* into beta, through a promotion or through a revert, by the clocks of the two moves.
StableIsSoaked ==
    [][release'.ring = "stable" /\ release.ring # "stable" =>
         /\ release.ring = "beta"
         /\ inBeta # NoStamp /\ release'.soak["stable"] - inBeta >= BetaSoakHours]_releaseVars

\* Every move is one step up or a logged step down, the log only grows, and no move
\* leaves a release outside internal that cannot be stopped.
MovesAreLawful ==
    [][release' # release =>
         /\ release'.ring # "internal" => release'.stoppable
         /\ \/ RingIndex(release'.ring) = RingIndex(release.ring) + 1 /\ release'.log = release.log
            \/ /\ RingIndex(release'.ring) < RingIndex(release.ring)
               /\ release'.log = Append(release.log, <<release.ring, release'.ring, rnow>>)]_releaseVars

=============================================================================
