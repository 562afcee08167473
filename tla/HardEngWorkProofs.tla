-------------------------- MODULE HardEngWorkProofs --------------------------
(***************************************************************************)
(* Proofs about the work the development tooling (.hooks) guards: what     *)
(* HardEngReview, HardEngShipping, HardEngGates, HardEngSessions,          *)
(* HardEngPlans and HardEngImpact promise, for every value of their        *)
(* constants: any number of revisions, commits, gates, checks, plans,      *)
(* packages, turns and events.                                             *)
(*                                                                         *)
(* Each part has an inductive invariant, the lemmas that it holds at the   *)
(* start and is kept by every action, and the theorem that follows.        *)
(***************************************************************************)
EXTENDS HardEngReview, HardEngShipping, HardEngGates, HardEngSessions, HardEngPlans,
        HardEngImpact, FiniteSetTheorems, NaturalsInduction, WellFoundedInduction, TLAPS

-----------------------------------------------------------------------------
(* Reviews and the admin merge.                                             *)
(* A verdict on record is one a reviewer gave of that revision, and a       *)
(* shipment carries what its earlier steps read.                            *)

ReviewingAt == [at: {"rest", "reading", "outcome", "storing"}, rev: Revisions \cup {Nothing0},
                outcome: Outcomes \cup {Nothing0}, crossed: BOOLEAN]
ShipmentAt == [at: {"rest", "owners", "checks", "note", "merge"}, rev: Revisions \cup {Nothing0},
               ready: BOOLEAN, alone: BOOLEAN, note: Outcomes \cup {Nothing0}]

ReviewTyped ==
  /\ tip \in Revisions
  /\ records \in [Revisions -> Outcomes \cup {Nothing0}]
  /\ reviewing \in [Reviewers -> ReviewingAt]
  /\ shipment \in ShipmentAt

RecordsJudged ==
  \A r \in Revisions : records[r] \in Verdicts => <<r, records[r]>> \in judged

(* What an agent's challenge knows: only a verdict given is stored, and one *)
(* not done only over a record made since the challenge looked.             *)
Knows(c) ==
  /\ c.at # "rest" => c.rev \in Revisions
  /\ c.at \in {"outcome", "storing"} /\ c.outcome \in Verdicts => <<c.rev, c.outcome>> \in judged
  /\ c.at = "storing" /\ c.outcome = "not done" /\ records[c.rev] \in Verdicts => c.crossed
ChallengesKnow == \A a \in Reviewers : Knows(reviewing[a])

ShipmentKnows ==
  /\ shipment.at # "rest" => shipment.rev \in Revisions /\ shipment.ready
  /\ shipment.at \in {"checks", "note", "merge"} => shipment.alone
  /\ shipment.at = "merge" =>
       /\ shipment.rev \in BigRevisions => shipment.note # Nothing0
       /\ shipment.note \in Verdicts => <<shipment.rev, shipment.note>> \in judged

ReviewInv ==
  /\ ReviewTyped /\ RecordsJudged /\ ChallengesKnow /\ ShipmentKnows
  /\ ShippedAsJudged /\ BypassesOnlyTheReview

LEMMA AtRestKnows ==
  /\ ReviewerAtRest \in ReviewingAt /\ ReviewerAtRest.at = "rest"
  /\ NoShip \in ShipmentAt /\ NoShip.at = "rest"
BY DEF ReviewerAtRest, ReviewingAt, NoShip, ShipmentAt

LEMMA ReviewInitInv == ReviewInit => ReviewInv
<1> SUFFICES ASSUME ReviewInit PROVE ReviewInv
  OBVIOUS
<1>1. ReviewTyped
  BY ReviewConstants, AtRestKnows DEF ReviewInit, ReviewTyped, Revisions
<1>2. RecordsJudged
  BY ReviewConstants DEF ReviewInit, RecordsJudged
<1>3. ChallengesKnow /\ ShipmentKnows
  BY AtRestKnows DEF ReviewInit, ChallengesKnow, Knows, ShipmentKnows
<1> QED BY <1>1, <1>2, <1>3 DEF ReviewInit, ReviewInv, ShippedAsJudged, BypassesOnlyTheReview

(* One agent's challenge moves; the records and the verdicts given may grow. *)
LEMMA ChallengeMoves ==
  ASSUME ReviewTyped, ChallengesKnow, NEW a \in Reviewers, NEW c \in ReviewingAt,
         reviewing' = [reviewing EXCEPT ![a] = c], records' = records,
         judged \subseteq judged', Knows(c)'
  PROVE  reviewing' \in [Reviewers -> ReviewingAt] /\ ChallengesKnow'
<1>1. reviewing' \in [Reviewers -> ReviewingAt]
  BY DEF ReviewTyped
<1>2. ASSUME NEW b \in Reviewers PROVE Knows(reviewing[b])' 
  <2>1. CASE b = a
    <3>1. reviewing'[b] = c
      BY <2>1 DEF ReviewTyped
    <3> QED BY <3>1 DEF Knows
  <2>2. CASE b # a
    <3>1. reviewing'[b] = reviewing[b]
      BY <2>2 DEF ReviewTyped
    <3> QED BY <3>1 DEF ChallengesKnow, Knows
  <2> QED BY <2>1, <2>2
<1> QED BY <1>1, <1>2 DEF ChallengesKnow

LEMMA ChallengeInv ==
  ASSUME ReviewInv, NEW a \in Reviewers,
         StartReview(a) \/ EndReview(a) \/ KeepEarlier(a) \/ StoreReview(a) \/ KillReview(a)
  PROVE  ReviewInv'
<1> USE DEF ReviewInv
<1>0. reviewing[a] \in ReviewingAt
  BY DEF ReviewTyped
<1>1. CASE StartReview(a)
  <2>1. PICK c \in ReviewingAt : /\ reviewing' = [reviewing EXCEPT ![a] = c]
                               /\ c.rev = tip /\ c.outcome \in {"not done", Nothing0}
                               /\ c.at \in {"outcome", "reading"}
    <3> DEFINE d == [reviewing[a] EXCEPT !.rev = tip, !.at = IF edited THEN "outcome" ELSE "reading",
                                         !.outcome = IF edited THEN "not done" ELSE Nothing0]
    <3>1. reviewing' = [reviewing EXCEPT ![a] = d]
      BY <1>1 DEF StartReview, ReviewTyped, ReviewingAt
    <3>2. d \in ReviewingAt /\ d.rev = tip /\ d.outcome \in {"not done", Nothing0}
          /\ d.at \in {"outcome", "reading"}
      BY <1>0 DEF ReviewTyped, ReviewingAt, Outcomes
    <3> HIDE DEF d
    <3> QED BY <3>1, <3>2
  <2>2. Knows(c)'
    BY <1>1, <2>1, ReviewConstants DEF StartReview, ReviewTyped, Verdicts, Knows
  <2>3. reviewing' \in [Reviewers -> ReviewingAt] /\ ChallengesKnow'
    BY <1>1, <2>1, <2>2, ChallengeMoves DEF StartReview
  <2> QED BY <1>1, <2>3 DEF StartReview, ReviewTyped, RecordsJudged, ShipmentKnows,
             ShippedAsJudged,
          BypassesOnlyTheReview
<1>2. CASE EndReview(a)
  <2>1. PICK c \in ReviewingAt :
          /\ reviewing' = [reviewing EXCEPT ![a] = c]
          /\ c.at = "outcome" /\ c.rev = reviewing[a].rev
          /\ c.outcome \in Verdicts => <<c.rev, c.outcome>> \in judged'
    <3>1. PICK answer \in Outcomes :
            LET outcome == IF answer \in Verdicts /\ tip # reviewing[a].rev THEN "not done" ELSE answer
            IN  /\ reviewing' = [reviewing EXCEPT ![a].at = "outcome", ![a].outcome = outcome]
                /\ judged' = judged \cup ({<<reviewing[a].rev, answer>>} \cap ({tip} \X Verdicts))
      BY <1>2 DEF EndReview
    <3> DEFINE out == IF answer \in Verdicts /\ tip # reviewing[a].rev THEN "not done" ELSE answer
               d == [reviewing[a] EXCEPT !.at = "outcome", !.outcome = out]
    <3>2. out \in Outcomes /\ (out \in Verdicts => out = answer /\ tip = reviewing[a].rev)
      BY DEF Outcomes, Verdicts
    <3>3. reviewing' = [reviewing EXCEPT ![a] = d]
      BY <3>1 DEF ReviewTyped, ReviewingAt
    <3>4. out \in Verdicts => <<reviewing[a].rev, out>> \in judged'
      BY <3>1, <3>2
    <3> HIDE DEF out
    <3>5. d \in ReviewingAt /\ d.at = "outcome" /\ d.rev = reviewing[a].rev /\ d.outcome = out
      BY <1>0, <3>2 DEF ReviewingAt
    <3> HIDE DEF d
    <3> QED BY <3>3, <3>4, <3>5
  <2>2. c.rev \in Revisions
    BY <1>2, <2>1 DEF EndReview, ChallengesKnow, Knows
  <2>3. judged \subseteq judged'
    BY <1>2 DEF EndReview
  <2>5. Knows(c)'
    BY <2>1, <2>2 DEF Knows
  <2>6. reviewing' \in [Reviewers -> ReviewingAt] /\ ChallengesKnow'
    BY <1>2, <2>1, <2>3, <2>5, ChallengeMoves DEF EndReview
  <2> QED BY <1>2, <2>3, <2>6 DEF EndReview, ReviewTyped, RecordsJudged, ShipmentKnows,
          ShippedAsJudged, BypassesOnlyTheReview
<1>3. CASE KeepEarlier(a)
  <2>1. PICK c \in ReviewingAt :
          /\ reviewing' = [reviewing EXCEPT ![a] = c]
          /\ \/ c.at = "rest"
             \/ /\ c.at = "storing" /\ c.rev = reviewing[a].rev /\ c.outcome = reviewing[a].outcome
                /\ ~(c.outcome = "not done" /\ records[c.rev] \in Verdicts)
    <3>1. CASE reviewing[a].outcome = "not done" /\ records[reviewing[a].rev] \in Verdicts
      <4>1. reviewing' = [reviewing EXCEPT ![a] = ReviewerAtRest]
        BY <1>3, <3>1 DEF KeepEarlier
      <4>2. ReviewerAtRest \in ReviewingAt /\ ReviewerAtRest.at = "rest"
        BY DEF ReviewerAtRest, ReviewingAt
      <4> QED BY <4>1, <4>2
    <3>2. CASE ~(reviewing[a].outcome = "not done" /\ records[reviewing[a].rev] \in Verdicts)
      <4> DEFINE d == [reviewing[a] EXCEPT !.at = "storing"]
      <4>1. reviewing' = [reviewing EXCEPT ![a] = d]
        BY <1>3, <3>2 DEF KeepEarlier
      <4>2. d \in ReviewingAt /\ d.at = "storing" /\ d.rev = reviewing[a].rev
            /\ d.outcome = reviewing[a].outcome
        BY <1>0 DEF ReviewingAt
      <4> HIDE DEF d
      <4> QED BY <3>2, <4>1, <4>2
    <3> QED BY <3>1, <3>2
  <2>2. Knows(c)'
    BY <1>3, <2>1 DEF KeepEarlier, ChallengesKnow, Knows
  <2>3. reviewing' \in [Reviewers -> ReviewingAt] /\ ChallengesKnow'
    BY <1>3, <2>1, <2>2, ChallengeMoves DEF KeepEarlier
  <2> QED BY <1>3, <2>3 DEF KeepEarlier, ReviewTyped, RecordsJudged, ShipmentKnows,
             ShippedAsJudged,
          BypassesOnlyTheReview
<1>4. CASE StoreReview(a)
  <2> DEFINE r == reviewing[a].rev
             out == reviewing[a].outcome
             other(b) == b # a /\ reviewing[b].at = "storing" /\ reviewing[b].rev = r
  <2>1. r \in Revisions /\ out \in Outcomes \cup {Nothing0}
        /\ (out \in Verdicts => <<r, out>> \in judged)
    BY <1>0, <1>4 DEF StoreReview, ChallengesKnow, Knows, ReviewingAt
  <2>2. /\ records' \in [Revisions -> Outcomes \cup {Nothing0}]
        /\ records'[r] = out /\ \A q \in Revisions \ {r} : records'[q] = records[q]
    BY <1>4, <2>1 DEF StoreReview, ReviewTyped
  <2>3. ASSUME NEW b \in Reviewers
        PROVE  /\ reviewing'[b] \in ReviewingAt
               /\ \/ reviewing'[b].at = "rest"
                  \/ reviewing'[b].crossed /\ other(b) /\ reviewing'[b].rev = reviewing[b].rev
                       /\ reviewing'[b].at = "storing" /\ reviewing'[b].outcome = reviewing[b].outcome
                  \/ reviewing'[b] = reviewing[b] /\ ~other(b)
    <3>0. reviewing[b] \in ReviewingAt
      BY DEF ReviewTyped
    <3>1. CASE b = a
      <4>1. reviewing'[b] = ReviewerAtRest
        BY <1>4, <3>1 DEF StoreReview
      <4> QED BY <4>1 DEF ReviewerAtRest, ReviewingAt
    <3>2. CASE other(b)
      <4>1. reviewing'[b] = [reviewing[b] EXCEPT !.crossed = TRUE]
        BY <1>4, <3>2 DEF StoreReview
      <4> QED BY <3>0, <3>2, <4>1 DEF ReviewingAt
    <3>3. CASE b # a /\ ~other(b)
      <4>1. reviewing'[b] = reviewing[b]
        BY <1>4, <3>3 DEF StoreReview
      <4> QED BY <3>0, <3>3, <4>1
    <3> QED BY <3>1, <3>2, <3>3
  <2>4. reviewing' \in [Reviewers -> ReviewingAt]
    BY <1>4, <2>3 DEF StoreReview
  <2>5. judged' = judged
    BY <1>4 DEF StoreReview
  <2>6. ChallengesKnow'
    <3> SUFFICES ASSUME NEW b \in Reviewers PROVE Knows(reviewing[b])'
      BY DEF ChallengesKnow
    <3> HIDE DEF r, out
    <3>1. CASE reviewing'[b].at = "rest"
      BY <3>1 DEF Knows
    <3>2. CASE /\ reviewing'[b].crossed /\ other(b) /\ reviewing'[b].rev = reviewing[b].rev
               /\ reviewing'[b].at = "storing" /\ reviewing'[b].outcome = reviewing[b].outcome
      BY <2>5, <3>2 DEF ChallengesKnow, Knows
    <3>3. CASE reviewing'[b] = reviewing[b] /\ ~other(b)
      <4>1. CASE reviewing[b].at = "storing" /\ b # a
        <5>1. reviewing[b].rev \in Revisions \ {r}
          BY <3>3, <4>1 DEF ChallengesKnow, Knows
        <5>2. records'[reviewing[b].rev] = records[reviewing[b].rev]
          BY <2>2, <5>1
        <5> QED BY <2>5, <3>3, <4>1, <5>2 DEF ChallengesKnow, Knows
      <4>2. CASE reviewing[b].at # "storing"
        BY <2>5, <3>3, <4>2 DEF ChallengesKnow, Knows
      <4>3. CASE b = a
        <5>1. reviewing'[b] = ReviewerAtRest
          BY <1>4, <4>3 DEF StoreReview
        <5> QED BY <5>1 DEF ReviewerAtRest, Knows
      <4> QED BY <4>1, <4>2, <4>3
    <3> QED BY <2>3, <3>1, <3>2, <3>3
  <2>7. RecordsJudged'
    BY <2>1, <2>2, <2>5 DEF RecordsJudged
  <2> QED BY <1>4, <2>2, <2>4, <2>5, <2>6, <2>7 DEF StoreReview, ReviewTyped, ShipmentKnows,
          ShippedAsJudged, BypassesOnlyTheReview
<1>5. CASE KillReview(a)
  <2>1. ReviewerAtRest \in ReviewingAt /\ Knows(ReviewerAtRest)'
    BY DEF ReviewerAtRest, ReviewingAt, Knows
  <2>2. reviewing' \in [Reviewers -> ReviewingAt] /\ ChallengesKnow'
    BY <1>5, <2>1, ChallengeMoves DEF KillReview
  <2> QED BY <1>5, <2>2 DEF KillReview, ReviewTyped, RecordsJudged, ShipmentKnows,
             ShippedAsJudged,
          BypassesOnlyTheReview
<1> QED BY <1>1, <1>2, <1>3, <1>4, <1>5

(* The shipment, the branch and what GitHub would say.                      *)
LEMMA ShipmentInv ==
  ASSUME ReviewInv,
         \/ ReadPull \/ ReadPushers \/ ConfirmPull \/ ShippingNote \/ AdminMerge \/ AbandonShip
         \/ MoveTip \/ EditTracked \/ CheckReports \/ RulesChange
  PROVE  ReviewInv'
<1> USE DEF ReviewInv
<1>r. NoShip \in ShipmentAt /\ NoShip.at = "rest"
  BY AtRestKnows
<1>k. ASSUME UNCHANGED <<records, reviewing, judged>>, tip' \in Revisions, shipment' \in ShipmentAt
      PROVE  ReviewTyped' /\ RecordsJudged' /\ ChallengesKnow'
  BY <1>k DEF ReviewTyped, RecordsJudged, ChallengesKnow, Knows
<1>1. CASE ReadPull
  <2>1. MergeableButForReview(pullNow) = TRUE
    BY <1>1 DEF ReadPull, MergeableButForReview, OtherMergeRequirement
  <2>2. shipment' = [NoShip EXCEPT !.at = "owners", !.rev = tip, !.ready = TRUE]
    BY <1>1, <2>1 DEF ReadPull
  <2>3. shipment' \in ShipmentAt /\ shipment'.at = "owners" /\ shipment'.rev = tip /\ shipment'.ready
    BY <2>2, <1>r DEF ShipmentAt, ReviewTyped
  <2>4. ShipmentKnows'
    BY <1>1, <2>3 DEF ReadPull, ReviewTyped, ShipmentKnows
  <2> QED BY <1>1, <1>k, <2>3, <2>4 DEF ReadPull, ReviewTyped, ShippedAsJudged,
             BypassesOnlyTheReview
<1>2. CASE ReadPushers
  <2>1. /\ shipment' \in ShipmentAt
        /\ \/ shipment'.at = "rest"
           \/ /\ shipment'.at = "checks" /\ shipment'.alone
              /\ shipment'.rev = shipment.rev /\ shipment'.ready = shipment.ready
    BY <1>2, <1>r DEF ReadPushers, ReviewTyped, ShipmentAt
  <2>2. ShipmentKnows'
    BY <1>2, <2>1 DEF ReadPushers, ShipmentKnows
  <2> QED BY <1>2, <1>k, <2>1, <2>2 DEF ReadPushers, ReviewTyped, ShippedAsJudged,
             BypassesOnlyTheReview
<1>3. CASE ConfirmPull
  <2>1. /\ shipment' \in ShipmentAt
        /\ \/ shipment'.at = "rest"
           \/ /\ shipment'.at = "note" /\ shipment'.alone = shipment.alone
              /\ shipment'.rev = shipment.rev /\ shipment'.ready = shipment.ready
    BY <1>3, <1>r DEF ConfirmPull, ReviewTyped, ShipmentAt
  <2>2. ShipmentKnows'
    BY <1>3, <2>1 DEF ConfirmPull, ShipmentKnows
  <2> QED BY <1>3, <1>k, <2>1, <2>2 DEF ConfirmPull, ReviewTyped, ShippedAsJudged,
             BypassesOnlyTheReview
<1>4. CASE ShippingNote
  <2>0. shipment.rev \in Revisions /\ records[shipment.rev] \in Outcomes \cup {Nothing0}
    BY <1>4 DEF ShippingNote, ShipmentKnows, ReviewTyped
  <2>1. CASE shipment.rev \in BigRevisions /\ records[shipment.rev] = Nothing0
    <3>1. shipment' = NoShip
      BY <1>4, <2>1 DEF ShippingNote
    <3>2. ShipmentKnows'
      BY <3>1, <1>r DEF ShipmentKnows
    <3> QED BY <1>4, <1>k, <1>r, <3>1, <3>2 DEF ShippingNote, ReviewTyped, ShippedAsJudged,
               BypassesOnlyTheReview
  <2>2. CASE ~(shipment.rev \in BigRevisions /\ records[shipment.rev] = Nothing0)
    <3>1. shipment' = [shipment EXCEPT !.at = "merge", !.note = records[shipment.rev]]
      BY <1>4, <2>2 DEF ShippingNote
    <3>2. /\ shipment' \in ShipmentAt /\ shipment'.at = "merge" /\ shipment'.alone = shipment.alone
          /\ shipment'.rev = shipment.rev /\ shipment'.ready = shipment.ready
          /\ shipment'.note = records[shipment.rev]
      BY <3>1, <2>0 DEF ReviewTyped, ShipmentAt
    <3>3. ShipmentKnows'
      BY <1>4, <2>0, <2>2, <3>2 DEF ShippingNote, ShipmentKnows, RecordsJudged
    <3> QED BY <1>4, <1>k, <3>2, <3>3 DEF ShippingNote, ReviewTyped, ShippedAsJudged,
               BypassesOnlyTheReview
  <2> QED BY <2>1, <2>2
<1>5. CASE AdminMerge
  <2>1. ShipmentKnows' /\ shipment' \in ShipmentAt
    BY <1>5, <1>r DEF AdminMerge, ShipmentKnows
  <2>2. ShippedAsJudged' /\ BypassesOnlyTheReview'
    BY <1>5 DEF AdminMerge, ShippedAsJudged, BypassesOnlyTheReview, ShipmentKnows
  <2> QED BY <1>5, <1>k, <2>1, <2>2 DEF AdminMerge, ReviewTyped
<1>6. CASE AbandonShip
  <2>1. ShipmentKnows' /\ shipment' \in ShipmentAt
    BY <1>6, <1>r DEF AbandonShip, ShipmentKnows
  <2> QED BY <1>6, <1>k, <2>1 DEF AbandonShip, ReviewTyped, ShippedAsJudged,
             BypassesOnlyTheReview
<1>7. CASE MoveTip \/ EditTracked \/ CheckReports \/ RulesChange
  <2>1. UNCHANGED <<records, reviewing, judged, shipment, merged>> /\ tip' \in Revisions
    BY <1>7 DEF MoveTip, EditTracked, CheckReports, RulesChange, ReviewTyped
  <2> QED BY <2>1, <1>k DEF ReviewTyped, ShipmentKnows, ShippedAsJudged, BypassesOnlyTheReview
<1> QED BY <1>1, <1>2, <1>3, <1>4, <1>5, <1>6, <1>7

LEMMA ReviewNextInv == ReviewInv /\ [ReviewNext]_reviewVars => ReviewInv'
<1> SUFFICES ASSUME ReviewInv, [ReviewNext]_reviewVars PROVE ReviewInv'
  OBVIOUS
<1>1. CASE UNCHANGED reviewVars
  BY <1>1 DEF reviewVars, ReviewInv, ReviewTyped, RecordsJudged, ChallengesKnow, Knows,
     ShipmentKnows, ShippedAsJudged, BypassesOnlyTheReview
<1> QED BY <1>1, ChallengeInv, ShipmentInv DEF ReviewNext

(* Only a store changes a record.                                           *)
LEMMA ReviewStep ==
  ReviewInv /\ [ReviewNext]_reviewVars => [CompletedReviewKept]_reviewVars
<1> SUFFICES ASSUME ReviewInv, [ReviewNext]_reviewVars, NEW r \in Revisions,
                    records[r] \in Verdicts, records'[r] = "not done"
             PROVE  \E a \in Reviewers : reviewing[a].rev = r /\ reviewing[a].crossed
  BY DEF CompletedReviewKept
<1>1. records' # records
  BY DEF Verdicts
<1>2. PICK a \in Reviewers : StoreReview(a)
  BY <1>1 DEF ReviewNext, reviewVars, StartReview, EndReview, KeepEarlier, KillReview, ReadPull,
     ReadPushers, ConfirmPull, ShippingNote, AdminMerge, AbandonShip, MoveTip, EditTracked,
     CheckReports, RulesChange
<1>3. reviewing[a].rev = r /\ reviewing[a].outcome = "not done"
  BY <1>2 DEF StoreReview, ReviewInv, ReviewTyped, Verdicts
<1> QED BY <1>2, <1>3 DEF StoreReview, ReviewInv, ChallengesKnow, Knows

(* What ships is as it was judged, a completed review stays on record, and  *)
(* an admin merge leaves out nothing but the review (challenge.py,          *)
(* review_bypass.py).                                                       *)
THEOREM ReviewSafeHolds == ReviewSpec => ReviewSafe
<1>1. ReviewInv => ShippedAsJudged /\ BypassesOnlyTheReview
  BY DEF ReviewInv
<1> QED
  BY ReviewInitInv, ReviewNextInv, ReviewStep, <1>1, PTL DEF ReviewSpec, ReviewSafe

-----------------------------------------------------------------------------
(* The shipping of a task branch.                                           *)

ShipSteps == {"idle", "ready", "delivered", "checks", "confirm", "passed", "merge", "guard",
              "remote", "delete", "again", "remove", "unref"}
ShipStages == {"ready", "merge", "delivered", "cleanup"}
PullStates == [state: {"none", "open", "merged"}, head: 0..MaxCommit,
               blocked: {"no", "review", "thread"}]

ShipTyped ==
  /\ made \in Heads /\ fork \in [Heads -> 0..MaxMoves]
  /\ main \in [at: 0..MaxMoves, landed: 0..MaxCommit, over: 0..MaxMoves]
  /\ local \in [head: Heads, edits: {"none", "early", "late"}, tree: BOOLEAN, branch: BOOLEAN]
  /\ origin \in 0..MaxCommit
  /\ pr \in PullStates
  /\ checks \in [{Merged} \cup Heads -> States]
  /\ pushing \in Heads \cup {Nothing}
  /\ ship \in [pc: ShipSteps, stage: ShipStages, head: 0..MaxCommit, seen: PullStates \cup {Nothing}]

(* Only commits that exist are pushed, opened or checked, and a check that  *)
(* passed ran on its commit where that was made.                            *)
CommitsExist ==
  /\ origin <= made /\ pr.head <= made /\ local.head <= made
  /\ pushing # Nothing => pushing <= made
  /\ \A c \in Heads : c > made => checks[c] = "none"
PassedWasTested ==
  /\ \A c \in Heads : checks[c] = "passed" => <<c, fork[c]>> \in tested
  /\ checks[Merged] = "passed" => main.landed # 0 /\ <<main.landed, main.over>> \in tested

(* What has landed is the head the pull request was merged at.              *)
LandedPull ==
  /\ pr.state # "none" => pr.head # 0
  /\ IF pr.state = "merged" THEN main.landed = pr.head ELSE main.landed = 0

(* What ship relies on at each of its steps.                                *)
CleansUp == {"guard", "remote", "delete", "again", "remove", "unref"}
ShipKnows ==
  /\ ship.pc \in {"checks", "confirm"} =>
       /\ ship.seen \in PullStates /\ ship.head = ship.seen.head
       /\ ship.seen.state \in {"open", "merged"}
       /\ ship.stage \in {"delivered", "cleanup"} => ship.seen.state = "merged"
  /\ ship.pc = "confirm" =>
       IF ship.seen.state = "merged" THEN checks[Merged] = "passed" ELSE ship.head \in green
  /\ ship.pc = "ready" => ship.stage \in {"ready", "merge"}
  /\ ship.pc = "merge" => ship.stage = "merge" /\ ship.head \in green
  /\ ship.pc \in CleansUp => pr.state = "merged" /\ ship.head = pr.head
  /\ ship.pc = "delivered" => ship.stage \in {"merge", "delivered", "cleanup"}
  /\ ship.pc = "remove" => local.edits # "early"

ShipInv ==
  /\ ShipTyped /\ CommitsExist /\ PassedWasTested /\ LandedPull /\ ShipKnows
  /\ PushedWasChecked /\ DeliveredMeansTested

LEMMA ShipInitInv == ShipInit => ShipInv
BY ShippingConstants DEF ShipInit, ShipInv, ShipTyped, CommitsExist, PassedWasTested,
   LandedPull,
   ShipKnows, PushedWasChecked, DeliveredMeansTested, Heads, Merged, States, ShipSteps, ShipStages,
   PullStates, Resting, CleansUp

(* A new commit leaves the others where they were made.                     *)
LEMMA NewCommitKeeps ==
  ASSUME ShipTyped, CommitsExist, NEW on \in 0..MaxMoves, NewCommit(on)
  PROVE  /\ made' \in Heads /\ made' = made + 1 /\ made + 1 \in Heads /\ checks[made + 1] = "none"
         /\ fork' \in [Heads -> 0..MaxMoves]
         /\ \A c \in Heads : c # made + 1 => fork'[c] = fork[c]
         /\ \A c \in Heads : c <= made => c <= made'
         /\ \A c \in 0..MaxCommit : c <= made => c <= made'
<1>1. made + 1 \in Heads /\ made' = made + 1
  BY ShippingConstants DEF NewCommit, ShipTyped, Heads
<1>2. checks[made + 1] = "none"
  <2>1. made + 1 > made
    BY DEF ShipTyped, Heads
  <2> QED BY <1>1, <2>1 DEF CommitsExist
<1>3. fork' \in [Heads -> 0..MaxMoves] /\ \A c \in Heads : c # made + 1 => fork'[c] = fork[c]
  BY <1>1 DEF NewCommit, ShipTyped
<1> QED BY <1>1, <1>2, <1>3 DEF ShipTyped, Heads

LEMMA OriginMovesTo ==
  ASSUME ShipTyped, NEW c \in Heads, OriginMoves(c)
  PROVE  /\ origin' = c /\ origin' \in 0..MaxCommit
         /\ pr' \in PullStates /\ pr'.state = pr.state /\ pr'.head \in {pr.head, c}
         /\ pr.state # "open" => pr' = pr
<1>1. c \in 0..MaxCommit
  BY ShippingConstants DEF Heads
<1>2. CASE pr.state = "open"
  <2>1. pr' = [pr EXCEPT !.head = c]
    BY <1>2 DEF OriginMoves
  <2>2. pr' \in PullStates /\ pr'.state = pr.state /\ pr'.head = c
    BY <1>1, <2>1 DEF ShipTyped, PullStates
  <2> QED BY <1>1, <1>2, <2>2 DEF OriginMoves
<1>3. CASE pr.state # "open"
  BY <1>1, <1>3 DEF OriginMoves, ShipTyped
<1> QED BY <1>2, <1>3

(* The checks of one commit change.                                         *)
LEMMA ChecksChange ==
  ASSUME ShipTyped, NEW c \in {Merged} \cup Heads, NEW s \in States,
         checks' = [checks EXCEPT ![c] = s]
  PROVE  /\ checks' \in [{Merged} \cup Heads -> States] /\ checks'[c] = s
         /\ \A d \in {Merged} \cup Heads : d # c => checks'[d] = checks[d]
BY DEF ShipTyped

(* The branch, the pull request and the checks, without a step of ship.     *)
LEMMA ShipWorldInv ==
  ASSUME ShipInv, UNCHANGED <<green, ship>>,
         \/ UNCHANGED shipWorld
         \/ PrePush \/ PushPasses
         \/ (\E c \in Heads : CheckRuns(c)) \/ BaseChecks
         \/ /\ OpenPull \/ Edit \/ CommitOrRebase \/ CommitElsewhere \/ TeammatePushes
               \/ Review \/ PersonMerges \/ BaseAdvances
            /\ UNCHANGED <<checks, pushing, pushed, tested>>
  PROVE  ShipInv'
<1> USE ShippingConstants DEF ShipInv, Heads, Merged, States
<1>1. CASE PrePush
  <2>1. ShipTyped'
    BY <1>1 DEF PrePush, ShipTyped, PullStates, CommitsExist
  <2>2. CommitsExist'
    BY <1>1 DEF PrePush, ShipTyped, CommitsExist
  <2>3. PassedWasTested'
    BY <1>1 DEF PrePush, ShipTyped, PassedWasTested, CommitsExist, LandedPull
  <2>4. LandedPull'
    BY <1>1 DEF PrePush, ShipTyped, LandedPull, PullStates
  <2>5. ShipKnows'
    BY <1>1 DEF PrePush, ShipTyped, ShipKnows, PullStates, CleansUp, LandedPull
  <2>6. PushedWasChecked'
    BY <1>1 DEF PrePush, ShipTyped, PushedWasChecked
  <2>7. DeliveredMeansTested'
    BY <1>1 DEF PrePush, ShipTyped, DeliveredMeansTested, LandedPull, PassedWasTested
  <2> QED BY <2>1, <2>2, <2>3, <2>4, <2>5, <2>6, <2>7
<1>2. CASE PushPasses
  <2>a. pushing \in Heads
    BY <1>2 DEF PushPasses, ShipTyped
  <2>b. UNCHANGED <<origin, pr>> \/ OriginMoves(pushing)
    BY <1>2 DEF PushPasses
  <2>1. ShipTyped'
    BY <1>2 DEF PushPasses, OriginMoves, ShipTyped, PullStates, CommitsExist
  <2>2. CommitsExist'
    BY <1>2, <2>a, <2>b, OriginMovesTo DEF PushPasses, CommitsExist
  <2>3. PassedWasTested'
    BY <1>2 DEF PushPasses, OriginMoves, ShipTyped, PassedWasTested, CommitsExist, LandedPull
  <2>4. LandedPull'
    BY <1>2 DEF PushPasses, OriginMoves, ShipTyped, LandedPull, PullStates
  <2>5. ShipKnows'
    BY <1>2 DEF PushPasses, OriginMoves, ShipTyped, ShipKnows, PullStates, CleansUp, LandedPull
  <2>6. PushedWasChecked'
    BY <1>2 DEF PushPasses, OriginMoves, ShipTyped, PushedWasChecked
  <2>7. DeliveredMeansTested'
    BY <1>2 DEF PushPasses, OriginMoves, ShipTyped, DeliveredMeansTested, LandedPull,
       PassedWasTested
  <2> QED BY <2>1, <2>2, <2>3, <2>4, <2>5, <2>6, <2>7
<1>3. CASE BaseChecks
  <2>a. Merged \in {Merged} \cup Heads /\ \A c \in Heads : c # Merged
    OBVIOUS
  <2>b. PICK s \in {"passed", "failed"} : checks' = [checks EXCEPT ![Merged] = s]
    BY <1>3 DEF BaseChecks
  <2>c. checks'[Merged] = s /\ \A c \in Heads : checks'[c] = checks[c]
    BY <2>a, <2>b, ChecksChange
  <2>d. s = "passed" => <<main.landed, main.over>> \in tested'
    BY <1>3, <2>b, <2>c DEF BaseChecks, Reusable, PassedWasTested, ShipTyped
  <2>1. ShipTyped'
    BY <1>3 DEF BaseChecks, Reusable, ShipTyped, PullStates, CommitsExist
  <2>2. CommitsExist'
    BY <1>3, <2>c DEF BaseChecks, CommitsExist
  <2>3. PassedWasTested'
    BY <1>3, <2>c, <2>d DEF BaseChecks, PassedWasTested
  <2>4. LandedPull'
    BY <1>3 DEF BaseChecks, Reusable, ShipTyped, LandedPull, PullStates
  <2>5. ShipKnows'
    BY <1>3 DEF BaseChecks, Reusable, ShipTyped, ShipKnows, PullStates, CleansUp, LandedPull
  <2>6. PushedWasChecked'
    BY <1>3 DEF BaseChecks, Reusable, ShipTyped, PushedWasChecked
  <2>7. DeliveredMeansTested'
    BY <1>3 DEF BaseChecks, Reusable, ShipTyped, DeliveredMeansTested, LandedPull,
       PassedWasTested
  <2> QED BY <2>1, <2>2, <2>3, <2>4, <2>5, <2>6, <2>7
<1>4. CASE OpenPull /\ UNCHANGED <<checks, pushing, pushed, tested>>
  <2>1. ShipTyped'
    BY <1>4 DEF OpenPull, ShipTyped, PullStates, CommitsExist
  <2>2. CommitsExist'
    BY <1>4 DEF OpenPull, ShipTyped, CommitsExist
  <2>3. PassedWasTested'
    BY <1>4 DEF OpenPull, ShipTyped, PassedWasTested, CommitsExist, LandedPull
  <2>4. LandedPull'
    BY <1>4 DEF OpenPull, ShipTyped, LandedPull, PullStates
  <2>5. ShipKnows'
    BY <1>4 DEF OpenPull, ShipTyped, ShipKnows, PullStates, CleansUp, LandedPull
  <2>6. PushedWasChecked'
    BY <1>4 DEF OpenPull, ShipTyped, PushedWasChecked
  <2>7. DeliveredMeansTested'
    BY <1>4 DEF OpenPull, ShipTyped, DeliveredMeansTested, LandedPull, PassedWasTested
  <2> QED BY <2>1, <2>2, <2>3, <2>4, <2>5, <2>6, <2>7
<1>5. CASE Edit /\ UNCHANGED <<checks, pushing, pushed, tested>>
  <2>1. ShipTyped'
    BY <1>5 DEF Edit, ShipTyped, PullStates, CommitsExist
  <2>2. CommitsExist'
    BY <1>5 DEF Edit, ShipTyped, CommitsExist
  <2>3. PassedWasTested'
    BY <1>5 DEF Edit, ShipTyped, PassedWasTested, CommitsExist, LandedPull
  <2>4. LandedPull'
    BY <1>5 DEF Edit, ShipTyped, LandedPull, PullStates
  <2>5. ShipKnows'
    BY <1>5 DEF Edit, ShipTyped, ShipKnows, PullStates, CleansUp, LandedPull
  <2>6. PushedWasChecked'
    BY <1>5 DEF Edit, ShipTyped, PushedWasChecked
  <2>7. DeliveredMeansTested'
    BY <1>5 DEF Edit, ShipTyped, DeliveredMeansTested, LandedPull, PassedWasTested
  <2> QED BY <2>1, <2>2, <2>3, <2>4, <2>5, <2>6, <2>7
<1>6. CASE CommitOrRebase /\ UNCHANGED <<checks, pushing, pushed, tested>>
  <2>a. PICK on \in 0..MaxMoves : NewCommit(on)
    BY <1>6 DEF CommitOrRebase, ShipTyped
  <2>b. /\ made' \in Heads /\ made' = made + 1 /\ checks[made + 1] = "none"
        /\ fork' \in [Heads -> 0..MaxMoves]
        /\ \A c \in Heads : c # made + 1 => fork'[c] = fork[c]
        /\ \A c \in 0..MaxCommit : c <= made => c <= made'
    BY <2>a, NewCommitKeeps
  <2>c. /\ local' \in [head: Heads, edits: {"none", "early", "late"}, tree: BOOLEAN, branch: BOOLEAN]
        /\ local'.head = made'
    BY <1>6, <2>b DEF CommitOrRebase, ShipTyped
  <2>1. ShipTyped'
    BY <1>6, <2>a, <2>b, <2>c DEF CommitOrRebase, ShipTyped
  <2>2. CommitsExist'
    <3>1. \A c \in Heads : c > made' => checks'[c] = "none"
      BY <1>6, <2>b DEF CommitOrRebase, CommitsExist, ShipTyped
    <3>a. origin' = origin /\ pr' = pr /\ pushing' = pushing
      BY <1>6 DEF CommitOrRebase
    <3>b. origin \in Nat /\ pr.head \in Nat /\ made \in Nat /\ pushing \in Nat \cup {Nothing}
      BY DEF ShipTyped, PullStates
    <3>2. origin' <= made' /\ pr'.head <= made' /\ local'.head <= made'
      BY <3>a, <3>b, <2>b, <2>c DEF CommitsExist
    <3>3. pushing' # Nothing => pushing' <= made'
      BY <3>a, <3>b, <2>b DEF CommitsExist
    <3> QED BY <3>1, <3>2, <3>3 DEF CommitsExist
  <2>3. PassedWasTested'
    BY <1>6, <2>a, <2>b, <2>c DEF CommitOrRebase, PassedWasTested
  <2>4. LandedPull'
    BY <1>6 DEF CommitOrRebase, NewCommit, ShipTyped, LandedPull, PullStates
  <2>5. ShipKnows'
    BY <1>6 DEF CommitOrRebase, NewCommit, ShipTyped, ShipKnows, PullStates, CleansUp,
       LandedPull
  <2>6. PushedWasChecked'
    BY <1>6 DEF CommitOrRebase, NewCommit, ShipTyped, PushedWasChecked
  <2>7. DeliveredMeansTested'
    BY <1>6 DEF CommitOrRebase, NewCommit, ShipTyped, DeliveredMeansTested, LandedPull,
       PassedWasTested
  <2> QED BY <2>1, <2>2, <2>3, <2>4, <2>5, <2>6, <2>7
<1>7. CASE CommitElsewhere /\ UNCHANGED <<checks, pushing, pushed, tested>>
  <2>a. PICK on \in 0..MaxMoves : NewCommit(on)
    BY <1>7 DEF CommitElsewhere, ShipTyped
  <2>b. /\ made' \in Heads /\ made' = made + 1 /\ checks[made + 1] = "none"
        /\ fork' \in [Heads -> 0..MaxMoves]
        /\ \A c \in Heads : c # made + 1 => fork'[c] = fork[c]
        /\ \A c \in 0..MaxCommit : c <= made => c <= made'
    BY <2>a, NewCommitKeeps
  <2>c. /\ local' \in [head: Heads, edits: {"none", "early", "late"}, tree: BOOLEAN, branch: BOOLEAN]
        /\ local'.head = made'
    BY <1>7, <2>b DEF CommitElsewhere, ShipTyped
  <2>1. ShipTyped'
    BY <1>7, <2>a, <2>b, <2>c DEF CommitElsewhere, ShipTyped
  <2>2. CommitsExist'
    <3>1. \A c \in Heads : c > made' => checks'[c] = "none"
      BY <1>7, <2>b DEF CommitElsewhere, CommitsExist, ShipTyped
    <3>a. origin' = origin /\ pr' = pr /\ pushing' = pushing
      BY <1>7 DEF CommitElsewhere
    <3>b. origin \in Nat /\ pr.head \in Nat /\ made \in Nat /\ pushing \in Nat \cup {Nothing}
      BY DEF ShipTyped, PullStates
    <3>2. origin' <= made' /\ pr'.head <= made' /\ local'.head <= made'
      BY <3>a, <3>b, <2>b, <2>c DEF CommitsExist
    <3>3. pushing' # Nothing => pushing' <= made'
      BY <3>a, <3>b, <2>b DEF CommitsExist
    <3> QED BY <3>1, <3>2, <3>3 DEF CommitsExist
  <2>3. PassedWasTested'
    BY <1>7, <2>a, <2>b, <2>c DEF CommitElsewhere, PassedWasTested
  <2>4. LandedPull'
    BY <1>7 DEF CommitElsewhere, NewCommit, ShipTyped, LandedPull, PullStates
  <2>5. ShipKnows'
    BY <1>7 DEF CommitElsewhere, NewCommit, ShipTyped, ShipKnows, PullStates, CleansUp,
       LandedPull
  <2>6. PushedWasChecked'
    BY <1>7 DEF CommitElsewhere, NewCommit, ShipTyped, PushedWasChecked
  <2>7. DeliveredMeansTested'
    BY <1>7 DEF CommitElsewhere, NewCommit, ShipTyped, DeliveredMeansTested, LandedPull,
       PassedWasTested
  <2> QED BY <2>1, <2>2, <2>3, <2>4, <2>5, <2>6, <2>7
<1>8. CASE TeammatePushes /\ UNCHANGED <<checks, pushing, pushed, tested>>
  <2>a. PICK on \in 0..MaxMoves : NewCommit(on)
    BY <1>8 DEF TeammatePushes, ShipTyped
  <2>b. /\ made' \in Heads /\ made' = made + 1 /\ checks[made + 1] = "none"
        /\ fork' \in [Heads -> 0..MaxMoves]
        /\ \A c \in Heads : c # made + 1 => fork'[c] = fork[c]
        /\ \A c \in 0..MaxCommit : c <= made => c <= made'
    BY <2>a, NewCommitKeeps
  <2>c. OriginMoves(made')
    BY <1>8, <2>b DEF TeammatePushes
  <2>d. /\ origin' = made' /\ origin' \in 0..MaxCommit
        /\ pr' \in PullStates /\ pr'.state = pr.state /\ pr'.head \in {pr.head, made'}
    BY <2>b, <2>c, OriginMovesTo
  <2>1. ShipTyped'
    BY <1>8, <2>a, <2>b, <2>d DEF TeammatePushes, ShipTyped
  <2>2. CommitsExist'
    <3>1. \A c \in Heads : c > made' => checks'[c] = "none"
      BY <1>8, <2>b DEF TeammatePushes, CommitsExist, ShipTyped
    <3>2. /\ made \in 0..MaxCommit /\ made' \in 0..MaxCommit /\ made <= made'
          /\ pr.head \in 0..MaxCommit /\ pr.head <= made
          /\ local.head \in 0..MaxCommit /\ local.head <= made
      BY <1>8, <2>b DEF CommitsExist, ShipTyped, PullStates
    <3>4. origin' <= made'
      BY <2>d, <3>2
    <3>5. pr'.head <= made'
      BY <2>d, <3>2
    <3>6. local' = local
      BY <1>8 DEF TeammatePushes
    <3>7. local'.head <= made'
      BY <3>2, <3>6
    <3>3. pushing' # Nothing => pushing' <= made'
      BY <1>8, <2>b DEF TeammatePushes, CommitsExist, ShipTyped
    <3> QED BY <3>1, <3>3, <3>4, <3>5, <3>7 DEF CommitsExist
  <2>3. PassedWasTested'
    BY <1>8, <2>a, <2>b, <2>d DEF TeammatePushes, PassedWasTested
  <2>4. LandedPull'
    BY <1>8, SMTT(20) DEF TeammatePushes, OriginMoves, NewCommit, ShipTyped, LandedPull, PullStates
  <2>5. ShipKnows'
    BY <1>8 DEF TeammatePushes, OriginMoves, NewCommit, ShipTyped, ShipKnows, PullStates,
       CleansUp, LandedPull
  <2>6. PushedWasChecked'
    BY <1>8 DEF TeammatePushes, OriginMoves, NewCommit, ShipTyped, PushedWasChecked
  <2>7. DeliveredMeansTested'
    BY <1>8 DEF TeammatePushes, OriginMoves, NewCommit, ShipTyped, DeliveredMeansTested,
       LandedPull, PassedWasTested
  <2> QED BY <2>1, <2>2, <2>3, <2>4, <2>5, <2>6, <2>7
<1>9. CASE Review /\ UNCHANGED <<checks, pushing, pushed, tested>>
  <2>1. ShipTyped'
    <3>1. PICK b \in {"no", "review", "thread"} : pr' = [pr EXCEPT !.blocked = b]
      BY <1>9 DEF Review
    <3>2. pr' \in PullStates
      BY <3>1 DEF ShipTyped, PullStates
    <3>3. UNCHANGED <<made, fork, main, local, origin, checks, pushing, ship>>
      BY <1>9 DEF Review
    <3> QED
      BY <3>2, <3>3 DEF ShipTyped
  <2>2. CommitsExist'
    BY <1>9 DEF Review, ShipTyped, CommitsExist
  <2>3. PassedWasTested'
    BY <1>9 DEF Review, ShipTyped, PassedWasTested, CommitsExist, LandedPull
  <2>4. LandedPull'
    BY <1>9 DEF Review, ShipTyped, LandedPull, PullStates
  <2>5. ShipKnows'
    BY <1>9 DEF Review, ShipTyped, ShipKnows, PullStates, CleansUp, LandedPull
  <2>6. PushedWasChecked'
    BY <1>9 DEF Review, ShipTyped, PushedWasChecked
  <2>7. DeliveredMeansTested'
    BY <1>9 DEF Review, ShipTyped, DeliveredMeansTested, LandedPull, PassedWasTested
  <2> QED BY <2>1, <2>2, <2>3, <2>4, <2>5, <2>6, <2>7
<1>10. CASE PersonMerges /\ UNCHANGED <<checks, pushing, pushed, tested>>
  <2>1. ShipTyped'
    BY <1>10 DEF PersonMerges, LandPull, ShipTyped, PullStates, CommitsExist
  <2>2. CommitsExist'
    BY <1>10 DEF PersonMerges, LandPull, ShipTyped, CommitsExist
  <2>3. PassedWasTested'
    BY <1>10 DEF PersonMerges, LandPull, ShipTyped, PassedWasTested, CommitsExist, LandedPull
  <2>4. LandedPull'
    BY <1>10 DEF PersonMerges, LandPull, ShipTyped, LandedPull, PullStates
  <2>5. ShipKnows'
    BY <1>10 DEF PersonMerges, LandPull, ShipTyped, ShipKnows, PullStates, CleansUp, LandedPull
  <2>6. PushedWasChecked'
    BY <1>10 DEF PersonMerges, LandPull, ShipTyped, PushedWasChecked
  <2>7. DeliveredMeansTested'
    BY <1>10 DEF PersonMerges, LandPull, ShipTyped, DeliveredMeansTested, LandedPull,
       PassedWasTested
  <2> QED BY <2>1, <2>2, <2>3, <2>4, <2>5, <2>6, <2>7
<1>11. CASE BaseAdvances /\ UNCHANGED <<checks, pushing, pushed, tested>>
  <2>a. main' \in [at: 0..MaxMoves, landed: 0..MaxCommit, over: 0..MaxMoves]
    <3>1. main.at + 1 \in 0..MaxMoves /\ main' = [main EXCEPT !.at = main.at + 1]
      BY <1>11 DEF BaseAdvances, ShipTyped
    <3> QED BY <3>1 DEF ShipTyped
  <2>1. ShipTyped'
    BY <1>11, <2>a DEF BaseAdvances, ShipTyped
  <2>2. CommitsExist'
    BY <1>11 DEF BaseAdvances, ShipTyped, CommitsExist
  <2>3. PassedWasTested'
    BY <1>11 DEF BaseAdvances, ShipTyped, PassedWasTested, CommitsExist, LandedPull
  <2>4. LandedPull'
    BY <1>11 DEF BaseAdvances, ShipTyped, LandedPull, PullStates
  <2>5. ShipKnows'
    BY <1>11 DEF BaseAdvances, ShipTyped, ShipKnows, PullStates, CleansUp, LandedPull
  <2>6. PushedWasChecked'
    BY <1>11 DEF BaseAdvances, ShipTyped, PushedWasChecked
  <2>7. DeliveredMeansTested'
    BY <1>11 DEF BaseAdvances, ShipTyped, DeliveredMeansTested, LandedPull, PassedWasTested
  <2> QED BY <2>1, <2>2, <2>3, <2>4, <2>5, <2>6, <2>7
<1>12. ASSUME NEW c \in Heads, CheckRuns(c) PROVE ShipInv'
  <2>a. PICK s \in {"running", "passed", "failed"} :
          /\ checks' = [checks EXCEPT ![c] = s]
          /\ s = "passed" => tested' = tested \cup {<<c, fork[c]>>}
          /\ s # "passed" => tested' = tested
    BY <1>12 DEF CheckRuns
  <2>b. /\ checks' \in [{Merged} \cup Heads -> States] /\ checks'[c] = s
        /\ \A d \in {Merged} \cup Heads : d # c => checks'[d] = checks[d]
    BY <2>a, ChecksChange
  <2>c. c <= made
    BY <1>12 DEF CheckRuns, CommitsExist
  <2>1. ShipTyped'
    BY <1>12, <2>b DEF CheckRuns, ShipTyped
  <2>2. CommitsExist'
    BY <1>12, <2>b, <2>c DEF CheckRuns, CommitsExist, ShipTyped
  <2>3. PassedWasTested'
    BY <1>12 DEF CheckRuns, ShipTyped, PassedWasTested, CommitsExist, LandedPull
  <2>4. LandedPull'
    BY <1>12 DEF CheckRuns, ShipTyped, LandedPull, PullStates
  <2>5. ShipKnows'
    BY <1>12 DEF CheckRuns, ShipTyped, ShipKnows, PullStates, CleansUp, LandedPull
  <2>6. PushedWasChecked'
    BY <1>12 DEF CheckRuns, ShipTyped, PushedWasChecked
  <2>7. DeliveredMeansTested'
    BY <1>12 DEF CheckRuns, ShipTyped, DeliveredMeansTested, LandedPull, PassedWasTested
  <2> QED BY <2>1, <2>2, <2>3, <2>4, <2>5, <2>6, <2>7
<1>13. CASE UNCHANGED shipWorld
  BY <1>13, SMTT(20) DEF shipWorld, ShipTyped, CommitsExist, PassedWasTested, LandedPull, ShipKnows,
     PushedWasChecked, DeliveredMeansTested, PullStates, CleansUp
<1> QED BY <1>1, <1>2, <1>3, <1>4, <1>5, <1>6, <1>7, <1>8, <1>9, <1>10, <1>11, <1>12, <1>13

(* ship, step by step.                                                      *)
ShipRecords == [pc: ShipSteps, stage: ShipStages, head: 0..MaxCommit,
                seen: PullStates \cup {Nothing}]

LEMMA ShipGoes ==
  ASSUME ShipTyped, NEW after \in ShipSteps, ShipTo(after)
  PROVE  /\ ship' \in ShipRecords /\ ship'.pc = after /\ ship'.stage = ship.stage
         /\ ship'.head = ship.head /\ ship'.seen = ship.seen
BY DEF ShipTo, ShipTyped, ShipRecords

LEMMA ShipRests ==
  /\ Resting \in ShipRecords /\ Resting.pc = "idle"
  /\ Refuse => ship' \in ShipRecords /\ ship'.pc = "idle"
BY ShippingConstants DEF Refuse, Resting, ShipRecords, ShipSteps, ShipStages

LEMMA ShipRunInv ==
  ASSUME ShipInv, \/ \E stage \in ShipStages : StartShip(stage)
         \/ ReadyState \/ DeliveredState \/ ReadChecks \/ Confirm \/ PassReported \/ MergeShipped
         \/ FirstGuard \/ ReadRemote \/ DeleteRemote \/ SecondGuard \/ RemoveTree \/ DeleteBranch
         \/ ShipKilled
  PROVE  ShipInv'
<1> USE ShippingConstants DEF ShipInv, Heads, Merged, States
<1>1. ASSUME NEW stage \in ShipStages, StartShip(stage) PROVE ShipInv'
  <2>1. PICK after \in {"ready", "delivered"} :
          /\ ship' = [Resting EXCEPT !.stage = stage, !.pc = after]
          /\ IF after = "delivered" THEN stage \in {"delivered", "cleanup"}
                                  ELSE stage \in {"ready", "merge"}
    BY <1>1 DEF StartShip, ShipStages
  <2>2. ship' \in ShipRecords /\ ship'.pc = after /\ ship'.stage = stage
    BY <2>1, ShipRests DEF ShipRecords, ShipSteps
  <2>t. ShipTyped'
    BY <1>1, <2>1, <2>2 DEF StartShip, shipWorld, ShipTyped, ShipRecords, PullStates
  <2>k. ShipKnows'
    BY <1>1, <2>1, <2>2, ShipRests DEF StartShip, shipWorld, ShipTyped, ShipKnows, CleansUp,
       LandedPull, PullStates
  <2>d. DeliveredMeansTested'
    BY <1>1, <2>1, <2>2, ShipRests DEF StartShip, shipWorld, ShipTyped, ShipStages, ShipKnows,
       PassedWasTested, DeliveredMeansTested
  <2>w. CommitsExist' /\ PassedWasTested' /\ LandedPull' /\ PushedWasChecked'
    BY <1>1 DEF StartShip, shipWorld, ShipTyped, CommitsExist, PassedWasTested, LandedPull,
       PushedWasChecked
  <2> QED BY <2>t, <2>k, <2>d, <2>w
<1>2. CASE ReadyState
  <2>1. CASE ship' = Resting
    <3>1. ship' \in ShipRecords /\ ship'.pc = "idle"
      BY <2>1, ShipRests
    <3>t. ShipTyped'
      BY <1>2, <3>1 DEF ReadyState, shipWorld, ShipTyped, ShipRecords, PullStates
    <3>k. ShipKnows'
      BY <1>2, <3>1, ShipRests DEF ReadyState, shipWorld, ShipTyped, ShipKnows, CleansUp,
         LandedPull, PullStates
    <3>d. DeliveredMeansTested'
      BY <1>2, <3>1, ShipRests DEF ReadyState, shipWorld, ShipTyped, ShipStages, ShipKnows,
         PassedWasTested, DeliveredMeansTested
    <3>w. CommitsExist' /\ PassedWasTested' /\ LandedPull' /\ PushedWasChecked'
      BY <1>2 DEF ReadyState, shipWorld, ShipTyped, CommitsExist, PassedWasTested, LandedPull,
         PushedWasChecked
    <3> QED BY <3>t, <3>k, <3>d, <3>w
  <2>2. CASE ship' # Resting
    <3>1. /\ pr.state = "open" /\ ship.pc = "ready"
          /\ ship' = [ship EXCEPT !.pc = "checks", !.head = pr.head, !.seen = pr]
      BY <1>2, <2>2 DEF ReadyState, Refuse
    <3>2. /\ ship' \in ShipRecords /\ ship'.pc = "checks" /\ ship'.stage = ship.stage
          /\ ship'.head = pr.head /\ ship'.seen = pr
      BY <3>1 DEF ShipTyped, ShipRecords, ShipSteps, PullStates
    <3>t. ShipTyped'
      BY <1>2, <3>1, <3>2 DEF ReadyState, shipWorld, ShipTyped, ShipRecords, PullStates
    <3>k. ShipKnows'
      BY <1>2, <3>1, <3>2, ShipRests DEF ReadyState, shipWorld, ShipTyped, ShipKnows, CleansUp,
         LandedPull, PullStates
    <3>d. DeliveredMeansTested'
      BY <1>2, <3>1, <3>2, ShipRests DEF ReadyState, shipWorld, ShipTyped, ShipStages, ShipKnows,
         PassedWasTested, DeliveredMeansTested
    <3>w. CommitsExist' /\ PassedWasTested' /\ LandedPull' /\ PushedWasChecked'
      BY <1>2 DEF ReadyState, shipWorld, ShipTyped, CommitsExist, PassedWasTested, LandedPull,
         PushedWasChecked
    <3> QED BY <3>t, <3>k, <3>d, <3>w
  <2> QED BY <2>1, <2>2
<1>3. CASE DeliveredState
  <2>1. CASE ship' = Resting
    <3>1. ship' \in ShipRecords /\ ship'.pc = "idle"
      BY <2>1, ShipRests
    <3>t. ShipTyped'
      BY <1>3, <3>1 DEF DeliveredState, shipWorld, ShipTyped, ShipRecords, PullStates
    <3>k. ShipKnows'
      BY <1>3, <3>1, ShipRests DEF DeliveredState, shipWorld, ShipTyped, ShipKnows, CleansUp,
         LandedPull, PullStates
    <3>d. DeliveredMeansTested'
      BY <1>3, <3>1, ShipRests DEF DeliveredState, shipWorld, ShipTyped, ShipStages, ShipKnows,
         PassedWasTested, DeliveredMeansTested
    <3>w. CommitsExist' /\ PassedWasTested' /\ LandedPull' /\ PushedWasChecked'
      BY <1>3 DEF DeliveredState, shipWorld, ShipTyped, CommitsExist, PassedWasTested,
         LandedPull, PushedWasChecked
    <3> QED BY <3>t, <3>k, <3>d, <3>w
  <2>2. CASE ship' # Resting
    <3>1. /\ pr.state = "merged" /\ ship.pc = "delivered"
          /\ ship' = [ship EXCEPT !.pc = "checks", !.head = pr.head, !.seen = pr]
      BY <1>3, <2>2 DEF DeliveredState, Refuse
    <3>2. /\ ship' \in ShipRecords /\ ship'.pc = "checks" /\ ship'.stage = ship.stage
          /\ ship'.head = pr.head /\ ship'.seen = pr
      BY <3>1 DEF ShipTyped, ShipRecords, ShipSteps, PullStates
    <3>t. ShipTyped'
      BY <1>3, <3>1, <3>2 DEF DeliveredState, shipWorld, ShipTyped, ShipRecords, PullStates
    <3>k. ShipKnows'
      BY <1>3, <3>1, <3>2, ShipRests DEF DeliveredState, shipWorld, ShipTyped, ShipKnows,
         CleansUp, LandedPull, PullStates
    <3>d. DeliveredMeansTested'
      BY <1>3, <3>1, <3>2, ShipRests DEF DeliveredState, shipWorld, ShipTyped, ShipStages,
         ShipKnows, PassedWasTested, DeliveredMeansTested
    <3>w. CommitsExist' /\ PassedWasTested' /\ LandedPull' /\ PushedWasChecked'
      BY <1>3 DEF DeliveredState, shipWorld, ShipTyped, CommitsExist, PassedWasTested,
         LandedPull, PushedWasChecked
    <3> QED BY <3>t, <3>k, <3>d, <3>w
  <2> QED BY <2>1, <2>2
<1>4. CASE ReadChecks
  <2>1. PICK after \in {"confirm", "idle"} :
          IF after = "idle" THEN Refuse ELSE ShipTo(after)
    BY <1>4 DEF ReadChecks
  <2>2. /\ ship' \in ShipRecords /\ ship'.pc = after
        /\ after # "idle" =>
             ship'.stage = ship.stage /\ ship'.head = ship.head /\ ship'.seen = ship.seen
    BY <2>1, ShipGoes, ShipRests DEF ShipSteps
  <2>3. after = "confirm" => checks[Proves] = "passed" /\ green' = green \cup {Proves}
    BY <1>4, <2>2, ShipRests DEF ReadChecks
  <2>t. ShipTyped'
    BY <1>4, <2>2, <2>3 DEF ReadChecks, shipWorld, ShipTyped, ShipRecords, PullStates, Proves
  <2>k. ShipKnows'
    BY <1>4, <2>2, <2>3, ShipRests, SMTT(20) DEF ReadChecks, shipWorld, ShipTyped, ShipKnows, CleansUp,
       LandedPull, PullStates, Proves
  <2>d. DeliveredMeansTested'
    BY <1>4, <2>2, <2>3, ShipRests DEF ReadChecks, shipWorld, ShipTyped, ShipStages, ShipKnows,
       PassedWasTested, DeliveredMeansTested, Proves
  <2>w. CommitsExist' /\ PassedWasTested' /\ LandedPull' /\ PushedWasChecked'
    BY <1>4 DEF ReadChecks, shipWorld, ShipTyped, CommitsExist, PassedWasTested, LandedPull,
       PushedWasChecked
  <2> QED BY <2>t, <2>k, <2>d, <2>w
<1>5. CASE Confirm
  <2>1. CASE ship' = Resting
    <3>1. ship' \in ShipRecords /\ ship'.pc = "idle"
      BY <2>1, ShipRests
    <3>t. ShipTyped'
      BY <1>5, <3>1 DEF Confirm, shipWorld, ShipTyped, ShipRecords, PullStates
    <3>k. ShipKnows'
      BY <1>5, <3>1, ShipRests DEF Confirm, shipWorld, ShipTyped, ShipKnows, CleansUp,
         LandedPull, PullStates
    <3>d. DeliveredMeansTested'
      BY <1>5, <3>1, ShipRests DEF Confirm, shipWorld, ShipTyped, ShipStages, ShipKnows,
         PassedWasTested, DeliveredMeansTested
    <3>w. CommitsExist' /\ PassedWasTested' /\ LandedPull' /\ PushedWasChecked'
      BY <1>5 DEF Confirm, shipWorld, ShipTyped, CommitsExist, PassedWasTested, LandedPull,
         PushedWasChecked
    <3> QED BY <3>t, <3>k, <3>d, <3>w
  <2>2. CASE pr = ship.seen /\ ship.stage = "merge" /\ ship.seen.state = "open" /\ ShipTo("merge")
    <3>1. /\ ship' \in ShipRecords /\ ship'.pc = "merge" /\ ship'.stage = ship.stage
          /\ ship'.head = ship.head /\ ship'.seen = ship.seen
      BY <2>2, ShipGoes DEF ShipSteps
    <3>t. ShipTyped'
      BY <1>5, <2>2, <3>1 DEF Confirm, shipWorld, ShipTyped, ShipRecords, PullStates
    <3>k. ShipKnows'
      BY <1>5, <2>2, <3>1, ShipRests DEF Confirm, shipWorld, ShipTyped, ShipKnows, CleansUp,
         LandedPull, PullStates
    <3>d. DeliveredMeansTested'
      BY <1>5, <2>2, <3>1, ShipRests DEF Confirm, shipWorld, ShipTyped, ShipStages, ShipKnows,
         PassedWasTested, DeliveredMeansTested
    <3>w. CommitsExist' /\ PassedWasTested' /\ LandedPull' /\ PushedWasChecked'
      BY <1>5 DEF Confirm, shipWorld, ShipTyped, CommitsExist, PassedWasTested, LandedPull,
         PushedWasChecked
    <3> QED BY <3>t, <3>k, <3>d, <3>w
  <2>3. CASE pr = ship.seen /\ ship.stage = "cleanup" /\ ShipTo("guard")
    <3>1. /\ ship' \in ShipRecords /\ ship'.pc = "guard" /\ ship'.stage = ship.stage
          /\ ship'.head = ship.head /\ ship'.seen = ship.seen
      BY <2>3, ShipGoes DEF ShipSteps
    <3>t. ShipTyped'
      BY <1>5, <2>3, <3>1 DEF Confirm, shipWorld, ShipTyped, ShipRecords, PullStates
    <3>k. ShipKnows'
      BY <1>5, <2>3, <3>1, ShipRests DEF Confirm, shipWorld, ShipTyped, ShipKnows, CleansUp,
         LandedPull, PullStates
    <3>d. DeliveredMeansTested'
      BY <1>5, <2>3, <3>1, ShipRests DEF Confirm, shipWorld, ShipTyped, ShipStages, ShipKnows,
         PassedWasTested, DeliveredMeansTested
    <3>w. CommitsExist' /\ PassedWasTested' /\ LandedPull' /\ PushedWasChecked'
      BY <1>5 DEF Confirm, shipWorld, ShipTyped, CommitsExist, PassedWasTested, LandedPull,
         PushedWasChecked
    <3> QED BY <3>t, <3>k, <3>d, <3>w
  <2>4. CASE /\ pr = ship.seen /\ ~(ship.stage = "merge" /\ ship.seen.state = "open")
              /\ ship' = [Resting EXCEPT !.pc = "passed", !.stage = ship.stage]
    <3>1. ship' \in ShipRecords /\ ship'.pc = "passed" /\ ship'.stage = ship.stage
      BY <2>4, ShipRests DEF ShipTyped, ShipRecords, ShipSteps
    <3>t. ShipTyped'
      BY <1>5, <2>4, <3>1 DEF Confirm, shipWorld, ShipTyped, ShipRecords, PullStates
    <3>k. ShipKnows'
      BY <1>5, <2>4, <3>1, ShipRests DEF Confirm, shipWorld, ShipTyped, ShipKnows, CleansUp,
         LandedPull, PullStates
    <3>d. DeliveredMeansTested'
      BY <1>5, <2>4, <3>1, ShipRests DEF Confirm, shipWorld, ShipTyped, ShipStages, ShipKnows,
         PassedWasTested, DeliveredMeansTested
    <3>w. CommitsExist' /\ PassedWasTested' /\ LandedPull' /\ PushedWasChecked'
      BY <1>5 DEF Confirm, shipWorld, ShipTyped, CommitsExist, PassedWasTested, LandedPull,
         PushedWasChecked
    <3> QED BY <3>t, <3>k, <3>d, <3>w
  <2> QED BY <1>5, <2>1, <2>2, <2>3, <2>4 DEF Confirm, Refuse
<1>6. CASE PassReported
  <2>1. ship' \in ShipRecords /\ ship'.pc = "idle"
    BY <1>6, ShipRests DEF PassReported, Refuse
  <2>t. ShipTyped'
    BY <1>6, <2>1 DEF PassReported, shipWorld, ShipTyped, ShipRecords, PullStates
  <2>k. ShipKnows'
    BY <1>6, <2>1, ShipRests DEF PassReported, shipWorld, ShipTyped, ShipKnows, CleansUp,
       LandedPull, PullStates
  <2>d. DeliveredMeansTested'
    BY <1>6, <2>1, ShipRests DEF PassReported, shipWorld, ShipTyped, ShipStages, ShipKnows,
       PassedWasTested, DeliveredMeansTested
  <2>w. CommitsExist' /\ PassedWasTested' /\ LandedPull' /\ PushedWasChecked'
    BY <1>6 DEF PassReported, shipWorld, ShipTyped, CommitsExist, PassedWasTested, LandedPull,
       PushedWasChecked
  <2> QED BY <2>t, <2>k, <2>d, <2>w
<1>7. CASE MergeShipped
  <2>1. CASE ~(pr.state = "open" /\ pr.head = ship.head)
    <3>1. ship' \in ShipRecords /\ ship'.pc = "idle"
      BY <1>7, <2>1, ShipRests DEF MergeShipped
    <3>t. ShipTyped'
      BY <1>7, <2>1, <3>1 DEF MergeShipped, shipWorld, ShipTyped, ShipRecords, PullStates
    <3>k. ShipKnows'
      BY <1>7, <2>1, <3>1, ShipRests DEF MergeShipped, shipWorld, ShipTyped, ShipKnows,
         CleansUp, LandedPull, PullStates
    <3>d. DeliveredMeansTested'
      BY <1>7, <2>1, <3>1, ShipRests DEF MergeShipped, shipWorld, ShipTyped, ShipStages, ShipKnows,
         PassedWasTested, DeliveredMeansTested
    <3>w. CommitsExist' /\ PassedWasTested' /\ LandedPull' /\ PushedWasChecked'
      BY <1>7, <2>1 DEF MergeShipped, shipWorld, ShipTyped, CommitsExist, PassedWasTested,
         LandedPull, PushedWasChecked
    <3> QED BY <3>t, <3>k, <3>d, <3>w
  <2>2. CASE pr.state = "open" /\ pr.head = ship.head
    <3>1. /\ ship' = [ship EXCEPT !.pc = "delivered", !.seen = Nothing]
          /\ main' = [main EXCEPT !.landed = pr.head, !.over = main.at]
          /\ pr' = [pr EXCEPT !.state = "merged"]
      BY <1>7, <2>2 DEF MergeShipped, LandPull
    <3>2. ship' \in ShipRecords /\ ship'.pc = "delivered" /\ ship'.stage = ship.stage
      BY <3>1 DEF ShipTyped, ShipRecords, ShipSteps
    <3>3. /\ main' \in [at: 0..MaxMoves, landed: 0..MaxCommit, over: 0..MaxMoves]
          /\ main'.landed = pr.head
          /\ pr' \in PullStates /\ pr'.state = "merged" /\ pr'.head = pr.head
      BY <3>1 DEF ShipTyped, PullStates
    <3>t. ShipTyped'
      BY <1>7, <2>2, <3>2, <3>3 DEF MergeShipped, shipWorld, ShipTyped, ShipRecords, PullStates
    <3>k. ShipKnows'
      BY <1>7, <2>2, <3>2, <3>3, ShipRests DEF MergeShipped, shipWorld, ShipTyped, ShipKnows,
         CleansUp, LandedPull, PullStates
    <3>d. DeliveredMeansTested'
      BY <1>7, <2>2, <3>2, <3>3, ShipRests DEF MergeShipped, shipWorld, ShipTyped, ShipStages,
         ShipKnows, PassedWasTested, DeliveredMeansTested
    <3>w. CommitsExist' /\ PassedWasTested' /\ LandedPull' /\ PushedWasChecked'
      BY <1>7, <2>2, <3>3 DEF MergeShipped, shipWorld, ShipTyped, CommitsExist, PassedWasTested,
         LandedPull, PushedWasChecked
    <3> QED BY <3>t, <3>k, <3>d, <3>w
  <2> QED BY <2>1, <2>2
<1>8. CASE FirstGuard
  <2>1. PICK after \in {"remote", "idle"} :
          IF after = "idle" THEN Refuse ELSE ShipTo(after)
    BY <1>8 DEF FirstGuard, Guard
  <2>2. /\ ship' \in ShipRecords /\ ship'.pc = after
        /\ after # "idle" =>
             ship'.stage = ship.stage /\ ship'.head = ship.head /\ ship'.seen = ship.seen
    BY <2>1, ShipGoes, ShipRests DEF ShipSteps
  <2>t. ShipTyped'
    BY <1>8, <2>2 DEF FirstGuard, shipWorld, ShipTyped, ShipRecords, PullStates, Guard
  <2>k. ShipKnows'
    BY <1>8, <2>2, ShipRests DEF FirstGuard, shipWorld, ShipTyped, ShipKnows, CleansUp,
       LandedPull, PullStates, Guard
  <2>d. DeliveredMeansTested'
    BY <1>8, <2>2, ShipRests DEF FirstGuard, shipWorld, ShipTyped, ShipStages, ShipKnows,
       PassedWasTested, DeliveredMeansTested, Guard
  <2>w. CommitsExist' /\ PassedWasTested' /\ LandedPull' /\ PushedWasChecked'
    BY <1>8 DEF FirstGuard, Guard, shipWorld, ShipTyped, CommitsExist, PassedWasTested,
       LandedPull, PushedWasChecked
  <2> QED BY <2>t, <2>k, <2>d, <2>w
<1>9. CASE SecondGuard
  <2>1. PICK after \in {"remove", "idle"} :
          IF after = "idle" THEN Refuse ELSE ShipTo(after)
    BY <1>9 DEF SecondGuard, Guard
  <2>2. /\ ship' \in ShipRecords /\ ship'.pc = after
        /\ after # "idle" =>
             ship'.stage = ship.stage /\ ship'.head = ship.head /\ ship'.seen = ship.seen
    BY <2>1, ShipGoes, ShipRests DEF ShipSteps
  <2>3. after = "remove" => local.edits = "none"
    BY <1>9, <2>2, ShipRests DEF SecondGuard, Guard, Guarded
  <2>t. ShipTyped'
    BY <1>9, <2>2, <2>3 DEF SecondGuard, shipWorld, ShipTyped, ShipRecords, PullStates, Guard
  <2>k. ShipKnows'
    BY <1>9, <2>2, <2>3, ShipRests DEF SecondGuard, shipWorld, ShipTyped, ShipKnows, CleansUp,
       LandedPull, PullStates, Guard
  <2>d. DeliveredMeansTested'
    BY <1>9, <2>2, <2>3, ShipRests DEF SecondGuard, shipWorld, ShipTyped, ShipStages, ShipKnows,
       PassedWasTested, DeliveredMeansTested, Guard
  <2>w. CommitsExist' /\ PassedWasTested' /\ LandedPull' /\ PushedWasChecked'
    BY <1>9 DEF SecondGuard, Guard, shipWorld, ShipTyped, CommitsExist, PassedWasTested,
       LandedPull, PushedWasChecked
  <2> QED BY <2>t, <2>k, <2>d, <2>w
<1>10. CASE ReadRemote
  <2>1. PICK after \in {"again", "delete", "idle"} :
          IF after = "idle" THEN Refuse ELSE ShipTo(after)
    BY <1>10 DEF ReadRemote
  <2>2. /\ ship' \in ShipRecords /\ ship'.pc = after
        /\ after # "idle" =>
             ship'.stage = ship.stage /\ ship'.head = ship.head /\ ship'.seen = ship.seen
    BY <2>1, ShipGoes, ShipRests DEF ShipSteps
  <2>t. ShipTyped'
    BY <1>10, <2>2 DEF ReadRemote, shipWorld, ShipTyped, ShipRecords, PullStates
  <2>k. ShipKnows'
    BY <1>10, <2>2, ShipRests DEF ReadRemote, shipWorld, ShipTyped, ShipKnows, CleansUp,
       LandedPull, PullStates
  <2>d. DeliveredMeansTested'
    BY <1>10, <2>2, ShipRests DEF ReadRemote, shipWorld, ShipTyped, ShipStages, ShipKnows,
       PassedWasTested, DeliveredMeansTested
  <2>w. CommitsExist' /\ PassedWasTested' /\ LandedPull' /\ PushedWasChecked'
    BY <1>10 DEF ReadRemote, shipWorld, ShipTyped, CommitsExist, PassedWasTested, LandedPull,
       PushedWasChecked
  <2> QED BY <2>t, <2>k, <2>d, <2>w
<1>11. CASE DeleteRemote
  <2>1. PICK after \in {"again", "idle"} :
          IF after = "idle" THEN Refuse ELSE ShipTo(after)
    BY <1>11 DEF DeleteRemote
  <2>2. /\ ship' \in ShipRecords /\ ship'.pc = after
        /\ after # "idle" =>
             ship'.stage = ship.stage /\ ship'.head = ship.head /\ ship'.seen = ship.seen
    BY <2>1, ShipGoes, ShipRests DEF ShipSteps
  <2>t. ShipTyped'
    <3>1. origin' \in 0..MaxCommit
      BY <1>11, ShippingConstants DEF DeleteRemote, ShipTyped, shipWorld
    <3>2. UNCHANGED <<made, fork, main, local, pr, checks, pushing>>
      BY <1>11 DEF DeleteRemote, shipWorld
    <3> QED
      BY <2>2, <3>1, <3>2 DEF ShipTyped, ShipRecords
  <2>k. ShipKnows'
    BY <1>11, <2>2, ShipRests DEF DeleteRemote, shipWorld, ShipTyped, ShipKnows, CleansUp,
       LandedPull, PullStates
  <2>d. DeliveredMeansTested'
    BY <1>11, <2>2, ShipRests DEF DeleteRemote, shipWorld, ShipTyped, ShipStages, ShipKnows,
       PassedWasTested, DeliveredMeansTested
  <2>w. CommitsExist' /\ PassedWasTested' /\ LandedPull' /\ PushedWasChecked'
    BY <1>11, SMTT(20) DEF DeleteRemote, shipWorld, ShipTyped, CommitsExist, PassedWasTested, LandedPull,
       PushedWasChecked
  <2> QED BY <2>t, <2>k, <2>d, <2>w
<1>12. CASE RemoveTree
  <2>1. PICK after \in {"unref", "idle"} :
          IF after = "idle" THEN Refuse ELSE ShipTo(after)
    BY <1>12 DEF RemoveTree
  <2>2. /\ ship' \in ShipRecords /\ ship'.pc = after
        /\ after # "idle" =>
             ship'.stage = ship.stage /\ ship'.head = ship.head /\ ship'.seen = ship.seen
    BY <2>1, ShipGoes, ShipRests DEF ShipSteps
  <2>t. ShipTyped'
    BY <1>12, <2>2 DEF RemoveTree, shipWorld, ShipTyped, ShipRecords, PullStates
  <2>k. ShipKnows'
    BY <1>12, <2>2, ShipRests DEF RemoveTree, shipWorld, ShipTyped, ShipKnows, CleansUp,
       LandedPull, PullStates
  <2>d. DeliveredMeansTested'
    BY <1>12, <2>2, ShipRests DEF RemoveTree, shipWorld, ShipTyped, ShipStages, ShipKnows,
       PassedWasTested, DeliveredMeansTested
  <2>w. CommitsExist' /\ PassedWasTested' /\ LandedPull' /\ PushedWasChecked'
    BY <1>12 DEF RemoveTree, shipWorld, ShipTyped, CommitsExist, PassedWasTested, LandedPull,
       PushedWasChecked
  <2> QED BY <2>t, <2>k, <2>d, <2>w
<1>13. CASE DeleteBranch
  <2>1. ship' \in ShipRecords /\ ship'.pc = "idle"
    BY <1>13, ShipRests DEF DeleteBranch, Refuse
  <2>t. ShipTyped'
    BY <1>13, <2>1 DEF DeleteBranch, shipWorld, ShipTyped, ShipRecords, PullStates
  <2>k. ShipKnows'
    BY <1>13, <2>1, ShipRests DEF DeleteBranch, shipWorld, ShipTyped, ShipKnows, CleansUp,
       LandedPull, PullStates
  <2>d. DeliveredMeansTested'
    BY <1>13, <2>1, ShipRests DEF DeleteBranch, shipWorld, ShipTyped, ShipStages, ShipKnows,
       PassedWasTested, DeliveredMeansTested
  <2>w. CommitsExist' /\ PassedWasTested' /\ LandedPull' /\ PushedWasChecked'
    BY <1>13 DEF DeleteBranch, shipWorld, ShipTyped, CommitsExist, PassedWasTested, LandedPull,
       PushedWasChecked
  <2> QED BY <2>t, <2>k, <2>d, <2>w
<1>14. CASE ShipKilled
  <2>1. ship' \in ShipRecords /\ ship'.pc = "idle"
    BY <1>14, ShipRests DEF ShipKilled, Refuse
  <2>t. ShipTyped'
    BY <1>14, <2>1 DEF ShipKilled, shipWorld, ShipTyped, ShipRecords, PullStates
  <2>k. ShipKnows'
    BY <1>14, <2>1, ShipRests DEF ShipKilled, shipWorld, ShipTyped, ShipKnows, CleansUp,
       LandedPull, PullStates
  <2>d. DeliveredMeansTested'
    BY <1>14, <2>1, ShipRests DEF ShipKilled, shipWorld, ShipTyped, ShipStages, ShipKnows,
       PassedWasTested, DeliveredMeansTested
  <2>w. CommitsExist' /\ PassedWasTested' /\ LandedPull' /\ PushedWasChecked'
    BY <1>14 DEF ShipKilled, shipWorld, ShipTyped, CommitsExist, PassedWasTested, LandedPull,
       PushedWasChecked
  <2> QED BY <2>t, <2>k, <2>d, <2>w
<1> QED BY <1>1, <1>2, <1>3, <1>4, <1>5, <1>6, <1>7, <1>8, <1>9, <1>10, <1>11, <1>12, <1>13,
           <1>14

LEMMA ShipNextInv == ShipInv /\ [ShipNext]_shipVars => ShipInv'
<1> SUFFICES ASSUME ShipInv, [ShipNext]_shipVars PROVE ShipInv'
  OBVIOUS
<1>1. CASE ShipAround
  BY <1>1, ShipRunInv, ShipWorldInv DEF ShipAround
<1>2. CASE ShipWork
  BY <1>2, ShipRunInv, ShipWorldInv DEF ShipWork, ShipStages, CheckRuns, BaseChecks
<1>3. CASE UNCHANGED shipVars
  BY <1>3, ShipWorldInv DEF shipVars
<1> QED BY <1>1, <1>2, <1>3 DEF ShipNext

(* A step that changes what ship does is one of ship's.                     *)
LEMMA ShipStepOrWorld ==
  ASSUME [ShipNext]_shipVars
  PROVE  \/ ship' = ship
         \/ \E stage \in ShipStages : StartShip(stage)
         \/ ReadyState \/ DeliveredState \/ ReadChecks \/ Confirm \/ PassReported \/ MergeShipped
         \/ FirstGuard \/ ReadRemote \/ DeleteRemote \/ SecondGuard \/ RemoveTree \/ DeleteBranch
         \/ ShipKilled
BY DEF ShipNext, ShipAround, ShipWork, ShipStages, CheckRuns, BaseChecks, shipVars

LEMMA MergeIsVerified ==
  ShipInv /\ [ShipNext]_shipVars =>
    [ship.pc = "merge" /\ ship'.pc = "delivered" => main'.landed \in green]_shipVars
<1> SUFFICES ASSUME ShipInv, [ShipNext]_shipVars, ship.pc = "merge", ship'.pc = "delivered"
             PROVE  main'.landed \in green
  OBVIOUS
<1>1. ship' # ship /\ ~ShipKilled
  BY ShipRests DEF ShipKilled
<1>2. MergeShipped
  BY <1>1, ShipStepOrWorld DEF StartShip, ReadyState, DeliveredState, ReadChecks, Confirm,
     PassReported, FirstGuard, SecondGuard, Guard, ReadRemote, DeleteRemote, RemoveTree, DeleteBranch
<1>3. pr.state = "open" /\ pr.head = ship.head /\ LandPull
  BY <1>2, ShipRests DEF MergeShipped
<1> QED BY <1>3 DEF ShipInv, ShipTyped, ShipKnows, LandPull

(* A ref that goes away was at the merged head, and the worktree goes       *)
(* without edits it had before the last guard.                              *)
LEMMA CleanupKeeps ==
  ShipInv /\ [ShipNext]_shipVars =>
    /\ [/\ origin # 0 /\ origin' = 0 => origin = main.landed
        /\ local.branch /\ ~local'.branch => local.head = main.landed]_shipVars
    /\ [local.tree /\ ~local'.tree => local.edits # "early"]_shipVars
<1> SUFFICES ASSUME ShipInv, [ShipNext]_shipVars
             PROVE  /\ origin # 0 /\ origin' = 0 => origin = main.landed
                    /\ local.branch /\ ~local'.branch => local.head = main.landed
                    /\ local.tree /\ ~local'.tree => local.edits # "early"
  OBVIOUS
<1> USE DEF ShipInv
<1>1. CASE DeleteRemote
  <2>1. origin = ship.head \/ origin' = origin
    BY <1>1 DEF DeleteRemote
  <2> QED BY <1>1, <2>1 DEF DeleteRemote, ShipKnows, CleansUp, LandedPull
<1>2. CASE DeleteBranch
  <2>1. local' = local \/ (local.head = ship.head /\ local' = [local EXCEPT !.branch = FALSE])
    BY <1>2 DEF DeleteBranch
  <2>2. local'.tree = local.tree
    BY <2>1 DEF ShipTyped
  <2> QED BY <1>2, <2>1, <2>2 DEF DeleteBranch, ShipKnows, CleansUp, LandedPull
<1>3. CASE RemoveTree
  <2>1. local'.branch = local.branch
    BY <1>3 DEF RemoveTree, ShipTyped
  <2> QED BY <1>3, <2>1 DEF RemoveTree, ShipKnows
<1>4. CASE UNCHANGED <<origin, local>>
  BY <1>4
<1>5. CASE PushPasses \/ TeammatePushes
  <2>1. origin' = origin \/ origin' # 0
    <3>1. CASE PushPasses
      BY <3>1, ShippingConstants DEF PushPasses, OriginMoves, ShipTyped, Heads
    <3>2. CASE TeammatePushes
      BY <3>2, ShippingConstants DEF TeammatePushes, OriginMoves, NewCommit, ShipTyped, Heads
    <3> QED BY <1>5, <3>1, <3>2
  <2>2. local' = local
    BY <1>5 DEF PushPasses, TeammatePushes
  <2> QED BY <2>1, <2>2
<1>6. CASE Edit \/ CommitOrRebase \/ CommitElsewhere
  <2>1. origin' = origin
    BY <1>6 DEF Edit, CommitOrRebase, CommitElsewhere
  <2>2. local'.tree = local.tree /\ local'.branch = local.branch
    BY <1>6 DEF Edit, CommitOrRebase, CommitElsewhere, ShipTyped
  <2> QED BY <2>1, <2>2
<1>7. \/ DeleteRemote \/ DeleteBranch \/ RemoveTree \/ UNCHANGED <<origin, local>>
      \/ PushPasses \/ TeammatePushes \/ Edit \/ CommitOrRebase \/ CommitElsewhere
  BY DEF ShipNext, ShipAround, ShipWork, shipVars, shipWorld, ShipKilled, Review, PersonMerges,
     BaseAdvances, PrePush, OpenPull, StartShip, ReadyState, DeliveredState, ReadChecks, Confirm,
     PassReported, MergeShipped, FirstGuard, SecondGuard, Guard, ReadRemote, CheckRuns, BaseChecks
<1> QED BY <1>1, <1>2, <1>3, <1>4, <1>5, <1>6, <1>7

(* What pre-push sends, ship merges and cleanup deletes is what was         *)
(* checked, and work added meanwhile stays (shipping.py, ship_actions.py).  *)
THEOREM ShippingSafeHolds == ShipSpec => ShippingSafe
<1>1. ShipInv => PushedWasChecked /\ DeliveredMeansTested
  BY DEF ShipInv
<1> QED
  BY ShipInitInv, ShipNextInv, MergeIsVerified, CleanupKeeps, <1>1, PTL
     DEF ShipSpec, ShippingSafe, OnlyVerifiedHeadsMerge, CommitsOutliveCleanup, EditsKeepTheTree

-----------------------------------------------------------------------------
(* The gate schedule.                                                       *)
(* A check that is not idle holds the turn, each of its gates is waiting,   *)
(* running or finished, and a gate's thread has begun only when the gates   *)
(* it waits for have finished.                                              *)

ThreadStates == {"none", "queued", "prepared", "spawned", "alive", "killed", "exited",
                 "passed", "failed", "raised"}
Finished == {"passed", "failed", "raised"}
CheckRecords == [pc: {"idle", "submit", "wait", "stop", "leave", "judged"},
                 waiting: SUBSET Gates, running: SUBSET Gates, finished: SUBSET Gates,
                 stopped: BOOLEAN]

GatesTyped ==
  /\ gates \in Seq(GateEntry)
  /\ turn \in Checkers \cup {Nobody}
  /\ check \in [Checkers -> CheckRecords]
  /\ thread \in [Checkers -> [Gates -> ThreadStates]]
  /\ starting \in [Checkers -> Gates \cup {Nobody}]
  /\ report \in [Gates -> Checkers \cup {Nobody}]

TurnHeld ==
  \A p \in Checkers :
    IF check[p].pc = "idle" THEN check[p] = Fresh /\ \A i \in Gates : thread[p][i] = "none"
    ELSE turn = p

\* The sets the main thread keeps agree with what the pool threads are at.
Scheduled(p) ==
  /\ check[p].waiting \cup check[p].running \cup check[p].finished = Gates
  /\ \A i \in Gates :
       /\ i \in check[p].waiting <=> thread[p][i] = "none"
       /\ i \in check[p].running => i \notin check[p].finished
       /\ i \in check[p].finished => thread[p][i] \in Finished
       /\ i \notin check[p].waiting => Needs(i) \subseteq check[p].finished
ScheduleKept == \A p \in Checkers : check[p].pc # "idle" => Scheduled(p)

\* A command that is being started holds STARTING.
SpawnHolds == \A p \in Checkers : \A i \in Gates : thread[p][i] = "spawned" => starting[p] = i

NeverStuck ==
  \A p \in Checkers :
    /\ check[p].pc = "wait" => check[p].running # {}
    /\ check[p].pc = "submit" => check[p].waiting \cup check[p].running # {}
    /\ check[p].pc = "judged" => check[p].waiting \cup check[p].running = {}

GatesInv ==
  /\ GatesTyped /\ TurnHeld /\ ScheduleKept /\ SpawnHolds /\ NeverStuck
  /\ StoppedForGood /\ ReadsOwnReport

USE DEF Gates

(* The first of the gates that wait.                                       *)
LEMMA LeastNat ==
  ASSUME NEW T \in SUBSET Nat, T # {} PROVE \E n \in T : \A m \in T : n <= m
<1>1. PICK x \in T : \A y \in T : ~(<<y, x>> \in OpToRel(<, Nat))
  BY NatLessThanWellFounded, WFMin, Zenon
<1>2. ASSUME NEW y \in T PROVE ~(y < x)
  BY <1>1, Zenon DEF OpToRel
<1> QED
  BY <1>2

LEMMA GatesInitInv == GatesInit => GatesInv
<1> SUFFICES ASSUME GatesInit PROVE GatesInv
  OBVIOUS
<1>1. gates \in Seq(GateEntry)
  BY GateOrderLists DEF GatesInit
<1>2. Fresh \in CheckRecords
  BY DEF Fresh, CheckRecords
<1>3. GatesTyped
  BY <1>1, <1>2 DEF GatesInit, GatesTyped, ThreadStates
<1> QED
  BY <1>3, GateConstants DEF GatesInit, GatesInv, TurnHeld, ScheduleKept, SpawnHolds, NeverStuck,
     StoppedForGood, ReadsOwnReport, Live, Commands, Fresh

(* One check moves: the others are idle, and stay as they are.              *)
LEMMA OthersIdle ==
  ASSUME GatesInv, NEW p \in Checkers, check[p].pc # "idle"
  PROVE  turn = p /\ \A q \in Checkers \ {p} : check[q].pc = "idle"
                         /\ check[q] = Fresh /\ \A i \in Gates : thread[q][i] = "none"
  BY DEF GatesInv, TurnHeld

LEMMA TakeTurnInv ==
  ASSUME GatesInv, NEW p \in Checkers, TakeTurn(p) PROVE GatesInv'
<1> DEFINE new == [Fresh EXCEPT !.pc = IF Gates = {} THEN "judged" ELSE "submit", !.waiting = Gates]
<1>1. /\ check[p].pc = "idle" /\ turn = Nobody /\ turn' = p
      /\ check' = [check EXCEPT ![p] = new]
      /\ UNCHANGED <<gates, thread, starting, report>>
  BY DEF TakeTurn
<1>2. GatesTyped
  BY DEF GatesInv
<1>3. \A q \in Checkers : check[q].pc = "idle" /\ check[q] = Fresh
                          /\ \A i \in Gates : thread[q][i] = "none"
  BY <1>1, GateConstants DEF GatesInv, TurnHeld
<1>4. /\ new.waiting = Gates /\ new.running = {} /\ new.finished = {} /\ new.stopped = FALSE
      /\ new.pc = IF Gates = {} THEN "judged" ELSE "submit"
      /\ new \in CheckRecords
  BY DEF Fresh, CheckRecords
<1>5. check'[p] = new /\ \A q \in Checkers \ {p} : check'[q] = Fresh
  BY <1>1, <1>2, <1>3 DEF GatesTyped
<1> HIDE DEF new
<1>6. GatesTyped'
  BY <1>1, <1>2, <1>4 DEF GatesTyped, CheckRecords
<1>7. TurnHeld'
  BY <1>1, <1>3, <1>4, <1>5 DEF TurnHeld, Fresh
<1>8. ScheduleKept'
  <2> SUFFICES ASSUME NEW q \in Checkers, check'[q].pc # "idle" PROVE Scheduled(q)'
    BY DEF ScheduleKept
  <2>1. q = p
    BY <1>5 DEF Fresh
  <2> QED
    BY <1>1, <1>3, <1>4, <1>5, <2>1 DEF Scheduled
<1>9. SpawnHolds' /\ StoppedForGood' /\ ReadsOwnReport'
  BY <1>1, <1>3 DEF SpawnHolds, StoppedForGood, ReadsOwnReport, Live, Commands
<1>10. NeverStuck'
  <2>1. \A q \in Checkers \ {p} : check'[q].pc = "idle"
    BY <1>5 DEF Fresh
  <2> QED
    BY <1>4, <1>5, <2>1 DEF NeverStuck
<1> QED
  BY <1>6, <1>7, <1>8, <1>9, <1>10 DEF GatesInv


LEMMA BudgetPositive == Budget \in Nat \ {0}
<1> DEFINE S == {2, Workers \div 4}
<1>1. Workers \div 4 \in Nat
  BY GateConstants
<1>2. \E x \in S : \A y \in S : x >= y
  BY <1>1
<1>3. Max(S) \in S /\ \A y \in S : Max(S) >= y
  BY <1>2 DEF Max
<1> QED
  BY <1>1, <1>3 DEF Budget

LEMMA SubmitInv ==
  ASSUME GatesInv, NEW p \in Checkers, Submit(p) PROVE GatesInv'
<1>1. PICK new \in SUBSET check[p].waiting :
        /\ check[p].pc = "submit"
        /\ Submitted(check[p], check[p].running \cup new)
        /\ check' = [check EXCEPT ![p] = [check[p] EXCEPT !.pc = "wait",
             !.running = check[p].running \cup new, !.waiting = check[p].waiting \ new]]
        /\ thread' = [thread EXCEPT ![p] = [i \in Gates |-> IF i \in new THEN "queued" ELSE @[i]]]
        /\ UNCHANGED <<gates, turn, starting, report>>
  BY DEF Submit
<1> DEFINE c == check[p]
           c2 == [c EXCEPT !.pc = "wait", !.running = c.running \cup new, !.waiting = c.waiting \ new]
<1>2. GatesTyped /\ c \in CheckRecords
  BY DEF GatesInv, GatesTyped
<1>3. /\ c.waiting \subseteq Gates /\ c.running \subseteq Gates /\ c.finished \subseteq Gates
      /\ Gates \subseteq Nat /\ c.stopped \in BOOLEAN
  BY <1>2 DEF CheckRecords, GatesTyped
<1>4. turn = p /\ \A q \in Checkers \ {p} : check[q].pc = "idle"
                         /\ check[q] = Fresh /\ \A i \in Gates : thread[q][i] = "none"
  BY <1>1, OthersIdle
<1>5. /\ c2.pc = "wait" /\ c2.waiting = c.waiting \ new /\ c2.running = c.running \cup new
      /\ c2.finished = c.finished /\ c2.stopped = c.stopped
      /\ c2 \in CheckRecords
  BY <1>2, <1>3 DEF CheckRecords
<1>6. check'[p] = c2 /\ \A q \in Checkers \ {p} : check'[q] = check[q]
  BY <1>1, <1>2 DEF GatesTyped
<1>7. /\ \A i \in Gates : thread'[p][i] = IF i \in new THEN "queued" ELSE thread[p][i]
      /\ \A q \in Checkers \ {p} : thread'[q] = thread[q]
  BY <1>1, <1>2 DEF GatesTyped
<1>8. /\ c.waiting \cup c.running \cup c.finished = Gates
      /\ \A i \in Gates :
         /\ i \in c.waiting <=> thread[p][i] = "none"
         /\ i \in c.running => i \notin c.finished
         /\ i \in c.finished => thread[p][i] \in Finished
         /\ i \notin c.waiting => Needs(i) \subseteq c.finished
  BY <1>1 DEF GatesInv, ScheduleKept, Scheduled
<1>9. check' \in [Checkers -> CheckRecords]
  BY <1>1, <1>2, <1>5 DEF GatesTyped
<1>10. thread' \in [Checkers -> [Gates -> ThreadStates]]
  BY <1>1, <1>2 DEF GatesTyped, ThreadStates
<1>11. \A j \in new : Needs(j) \subseteq c.finished
  BY <1>1 DEF Submitted
<1>12. c.running \cup new # {}
  <2> SUFFICES ASSUME c.running \cup new = {} PROVE FALSE
    OBVIOUS
  <2>1. c.waiting # {}
    BY <1>1, Zenon DEF GatesInv, NeverStuck
  <2>2. PICK j \in c.waiting : \A k \in c.waiting : j <= k
    BY <2>1, <1>3, LeastNat
  <2>3. Needs(j) \subseteq c.finished
    <3>1. Gates = 1..Len(gates)
      BY <1>2 DEF GatesTyped
    <3>2. \A i \in 1..(j - 1) : i \in Gates /\ i \notin c.waiting /\ i \notin c.running
      BY <2>2, <1>3, <3>1
    <3> QED
      BY <3>2, <1>8 DEF Needs
  <2>4. {i \in c.running \cup new : i \in c.waiting => i < j} = {}
    OBVIOUS
  <2>5. Serial({}) = {} /\ Cardinality({}) = 0
    BY FS_EmptySet DEF Serial
  <2>6. j \in c.running \cup new <=>
          /\ Cardinality({}) < Workers /\ Needs(j) \subseteq c.finished
          /\ gates[j].parallel \/ Cardinality(Serial({})) < Budget
    <3> DEFINE before == {i \in c.running \cup new : i \in c.waiting => i < j}
    <3>1. j \in c.running \cup new <=>
            /\ Cardinality(before) < Workers /\ Needs(j) \subseteq c.finished
            /\ gates[j].parallel \/ Cardinality(Serial(before)) < Budget
      BY <1>1, <2>2, Zenon DEF Submitted
    <3>2. before = {}
      BY <2>4
    <3> HIDE DEF before
    <3> QED
      BY <3>1, <3>2
  <2>7. Cardinality({}) < Workers /\ Cardinality(Serial({})) < Budget
    <3>1. 0 < Workers /\ 0 < Budget
      BY BudgetPositive, GateConstants
    <3> QED
      BY <2>5, <3>1, Zenon
  <2> QED
    BY <2>2, <2>3, <2>6, <2>7, Zenon
<1> HIDE DEF c2
<1>13. GatesTyped'
  BY <1>1, <1>2, <1>9, <1>10 DEF GatesTyped, CheckRecords
<1>14. TurnHeld'
  BY <1>1, <1>4, <1>5, <1>6, <1>7 DEF TurnHeld, Fresh
<1>15. ScheduleKept'
  <2> SUFFICES ASSUME NEW q \in Checkers, check'[q].pc # "idle" PROVE Scheduled(q)'
    BY DEF ScheduleKept
  <2>1. q = p
    BY <1>4, <1>6
  <2>2. \A i \in Gates : Needs(i)' = Needs(i)
    BY <1>1 DEF Needs
  <2>3. \A i \in Gates : i \in c2.waiting <=> thread'[p][i] = "none"
    BY <1>3, <1>5, <1>7, <1>8
  <2>4. \A i \in Gates : i \in c2.running => i \notin c2.finished
    BY <1>3, <1>5, <1>8 DEF Finished
  <2>5. \A i \in Gates : i \in c2.finished => thread'[p][i] \in Finished
    BY <1>3, <1>5, <1>7, <1>8 DEF Finished
  <2>6. \A i \in Gates : i \notin c2.waiting => Needs(i) \subseteq c2.finished
    BY <1>3, <1>5, <1>8, <1>11
  <2>7. c2.waiting \cup c2.running \cup c2.finished = Gates
    BY <1>3, <1>5, <1>8
  <2>8. Gates' = Gates /\ check'[q] = c2 /\ thread'[q] = thread'[p]
    BY <1>1, <1>6, <2>1
  <2> QED
    BY <2>2, <2>3, <2>4, <2>5, <2>6, <2>7, <2>8 DEF Scheduled
<1>16. SpawnHolds' /\ StoppedForGood' /\ ReadsOwnReport'
  BY <1>1, <1>4, <1>5, <1>6, <1>7 DEF GatesInv, SpawnHolds, StoppedForGood, ReadsOwnReport, Live, Commands
<1>17. NeverStuck'
  BY <1>4, <1>5, <1>6, <1>12 DEF NeverStuck
<1> QED
  BY <1>13, <1>14, <1>15, <1>16, <1>17 DEF GatesInv

LEMMA CollectInv ==
  ASSUME GatesInv, NEW p \in Checkers, Collect(p) PROVE GatesInv'
<1> DEFINE c == check[p]
           done == {i \in c.running : thread[p][i] \in {"passed", "failed", "raised"}}
           rest == [c EXCEPT !.running = c.running \ done, !.finished = c.finished \cup done]
<1>1. /\ c.pc = "wait" /\ done # {}
      /\ UNCHANGED <<gates, turn, thread, starting, report>>
  BY DEF Collect
<1>2. PICK pc \in {"stop", "leave", "judged", "submit"} :
        /\ check' = [check EXCEPT ![p] = [rest EXCEPT !.pc = pc]]
        /\ pc = "judged" => rest.waiting = {} /\ rest.running = {}
        /\ pc = "submit" => ~(rest.waiting = {} /\ rest.running = {})
  <2> DEFINE after == CASE \E i \in done : thread[p][i] = "raised" -> "stop"
            [] \E i \in done : thread[p][i] = "failed" /\ gates[i].role = "lockfiles" -> "leave"
            [] rest.waiting = {} /\ rest.running = {} -> "judged"
            [] OTHER -> "submit"
  <2>1. check' = [check EXCEPT ![p] = [rest EXCEPT !.pc = after]]
    BY DEF Collect
  <2> HIDE DEF done, rest
  <2>2. /\ after \in {"stop", "leave", "judged", "submit"}
        /\ after = "judged" => rest.waiting = {} /\ rest.running = {}
        /\ after = "submit" => ~(rest.waiting = {} /\ rest.running = {})
    OBVIOUS
  <2> HIDE DEF after
  <2> QED
    BY <2>1, <2>2, Zenon
<1> DEFINE c2 == [rest EXCEPT !.pc = pc]
<1>3. GatesTyped /\ c \in CheckRecords
  BY DEF GatesInv, GatesTyped
<1>4. /\ c.waiting \subseteq Gates /\ c.running \subseteq Gates /\ c.finished \subseteq Gates
      /\ c.stopped \in BOOLEAN
  BY <1>3 DEF CheckRecords
<1>5. turn = p /\ \A q \in Checkers \ {p} : check[q].pc = "idle"
                         /\ check[q] = Fresh /\ \A i \in Gates : thread[q][i] = "none"
  BY <1>1, OthersIdle
<1>6. done \subseteq c.running /\ \A i \in done : thread[p][i] \in Finished
  BY DEF Finished
<1> HIDE DEF done
<1>7. /\ rest.waiting = c.waiting /\ rest.running = c.running \ done
      /\ rest.finished = c.finished \cup done /\ rest.stopped = c.stopped
      /\ rest \in CheckRecords
  BY <1>3, <1>4, <1>6 DEF CheckRecords
<1>8. /\ c2.pc = pc /\ c2.waiting = c.waiting /\ c2.running = c.running \ done
      /\ c2.finished = c.finished \cup done /\ c2.stopped = c.stopped
      /\ c2 \in CheckRecords
  BY <1>7 DEF CheckRecords
<1> HIDE DEF rest, c2
<1>9. /\ check'[p] = c2 /\ \A q \in Checkers \ {p} : check'[q] = check[q]
      /\ check' \in [Checkers -> CheckRecords]
  BY <1>2, <1>3, <1>8 DEF GatesTyped, c2
<1>10. /\ c.waiting \cup c.running \cup c.finished = Gates
       /\ \A i \in Gates :
         /\ i \in c.waiting <=> thread[p][i] = "none"
         /\ i \in c.running => i \notin c.finished
         /\ i \in c.finished => thread[p][i] \in Finished
         /\ i \notin c.waiting => Needs(i) \subseteq c.finished
  BY <1>1 DEF GatesInv, ScheduleKept, Scheduled
<1>11. GatesTyped'
  BY <1>1, <1>3, <1>9 DEF GatesTyped, CheckRecords
<1>12. TurnHeld'
  BY <1>1, <1>5, <1>8, <1>9 DEF TurnHeld, Fresh
<1>13. ScheduleKept'
  <2> SUFFICES ASSUME NEW q \in Checkers, check'[q].pc # "idle" PROVE Scheduled(q)'
    BY DEF ScheduleKept
  <2>1. q = p
    BY <1>5, <1>9
  <2>2. \A i \in Gates : Needs(i)' = Needs(i)
    BY <1>1 DEF Needs
  <2>3. c2.waiting \cup c2.running \cup c2.finished = Gates
    BY <1>4, <1>6, <1>8, <1>10
  <2>4. \A i \in Gates :
         /\ i \in c2.waiting <=> thread[p][i] = "none"
         /\ i \in c2.running => i \notin c2.finished
         /\ i \in c2.finished => thread[p][i] \in Finished
         /\ i \notin c2.waiting => Needs(i) \subseteq c2.finished
    BY <1>6, <1>8, <1>10
  <2>5. Gates' = Gates /\ check'[q] = c2 /\ thread'[q] = thread[p]
    BY <1>1, <1>9, <2>1
  <2> QED
    BY <2>2, <2>3, <2>4, <2>5 DEF Scheduled
<1>14. SpawnHolds' /\ StoppedForGood' /\ ReadsOwnReport'
  BY <1>1, <1>5, <1>8, <1>9 DEF GatesInv, SpawnHolds, StoppedForGood, ReadsOwnReport, Live
<1>15. NeverStuck'
  BY <1>2, <1>5, <1>7, <1>8, <1>9 DEF NeverStuck
<1> QED
  BY <1>11, <1>12, <1>13, <1>14, <1>15 DEF GatesInv

LEMMA InterruptInv ==
  ASSUME GatesInv, NEW p \in Checkers, Interrupt(p) PROVE GatesInv'
<1>1. /\ check[p].pc # "idle" /\ check' = [check EXCEPT ![p].pc = "stop"]
      /\ UNCHANGED <<gates, turn, thread, starting, report>>
  BY DEF Interrupt
<1>2. GatesTyped /\ check[p] \in CheckRecords
  BY DEF GatesInv, GatesTyped
<1>3. turn = p
  BY <1>1, OthersIdle
<1>4. /\ check'[p].pc = "stop" /\ check'[p].waiting = check[p].waiting
      /\ check'[p].running = check[p].running /\ check'[p].finished = check[p].finished
      /\ check'[p].stopped = check[p].stopped
      /\ \A q \in Checkers \ {p} : check'[q] = check[q]
      /\ check' \in [Checkers -> CheckRecords]
  BY <1>1, <1>2 DEF GatesTyped, CheckRecords
<1>5. GatesTyped'
  BY <1>1, <1>2, <1>4 DEF GatesTyped, CheckRecords
<1>6. TurnHeld'
  BY <1>1, <1>3, <1>4 DEF GatesInv, TurnHeld
<1>7. ScheduleKept'
  <2> SUFFICES ASSUME NEW q \in Checkers, check'[q].pc # "idle" PROVE Scheduled(q)'
    BY DEF ScheduleKept
  <2>1. q = p
    BY <1>1, <1>4, OthersIdle
  <2>2. Scheduled(p)
    BY <1>1 DEF GatesInv, ScheduleKept
  <2>3. \A i \in Gates : Needs(i)' = Needs(i)
    BY <1>1 DEF Needs
  <2> QED
    BY <1>1, <1>4, <2>1, <2>2, <2>3 DEF Scheduled
<1>8. SpawnHolds' /\ StoppedForGood' /\ ReadsOwnReport' /\ NeverStuck'
  BY <1>1, <1>4 DEF GatesInv, SpawnHolds, StoppedForGood, ReadsOwnReport, Live, NeverStuck
<1> QED
  BY <1>5, <1>6, <1>7, <1>8 DEF GatesInv

LEMMA StopGroupsInv ==
  ASSUME GatesInv, NEW p \in Checkers, StopGroups(p) PROVE GatesInv'
<1>1. /\ check[p].pc = "stop" /\ starting[p] = Nobody
      /\ check' = [check EXCEPT ![p] = [@ EXCEPT !.pc = "leave", !.stopped = TRUE]]
      /\ thread' = [thread EXCEPT ![p] =
           [i \in Gates |-> IF @[i] = "alive" THEN "killed" ELSE @[i]]]
      /\ UNCHANGED <<gates, turn, starting, report>>
  BY DEF StopGroups
<1>2. GatesTyped /\ check[p] \in CheckRecords
  BY DEF GatesInv, GatesTyped
<1>3. turn = p /\ \A q \in Checkers \ {p} : check[q].pc = "idle"
                         /\ check[q] = Fresh /\ \A i \in Gates : thread[q][i] = "none"
  BY <1>1, OthersIdle
<1>4. /\ check'[p].pc = "leave" /\ check'[p].waiting = check[p].waiting
      /\ check'[p].running = check[p].running /\ check'[p].finished = check[p].finished
      /\ check'[p].stopped = TRUE
      /\ \A q \in Checkers \ {p} : check'[q] = check[q]
      /\ check' \in [Checkers -> CheckRecords]
  BY <1>1, <1>2 DEF GatesTyped, CheckRecords
<1>5. /\ \A i \in Gates : thread'[p][i] = IF thread[p][i] = "alive" THEN "killed" ELSE thread[p][i]
      /\ \A q \in Checkers \ {p} : thread'[q] = thread[q]
      /\ thread' \in [Checkers -> [Gates -> ThreadStates]]
  BY <1>1, <1>2 DEF GatesTyped, ThreadStates
<1>6. GatesTyped'
  BY <1>1, <1>2, <1>4, <1>5 DEF GatesTyped, CheckRecords
<1>7. TurnHeld'
  BY <1>1, <1>3, <1>4, <1>5 DEF TurnHeld
<1>8. ScheduleKept'
  <2> SUFFICES ASSUME NEW q \in Checkers, check'[q].pc # "idle" PROVE Scheduled(q)'
    BY DEF ScheduleKept
  <2>1. q = p
    BY <1>3, <1>4
  <2>2. Scheduled(p)
    BY <1>1 DEF GatesInv, ScheduleKept, Scheduled
  <2> QED
    <3>1. \A i \in Gates : Needs(i)' = Needs(i)
      BY <1>1 DEF Needs
    <3> QED
      BY <1>1, <1>4, <1>5, <2>1, <2>2, <3>1 DEF Scheduled, Finished
<1>9. \A i \in Gates : thread[p][i] # "spawned"
  <2>1. \A i \in Gates : i # Nobody
    BY <1>2, GateConstants DEF GatesTyped
  <2> QED
    BY <1>1, <2>1 DEF GatesInv, SpawnHolds
<1>10. SpawnHolds' /\ StoppedForGood' /\ ReadsOwnReport' /\ NeverStuck'
  BY <1>1, <1>3, <1>4, <1>5, <1>9 DEF GatesInv, SpawnHolds, StoppedForGood, ReadsOwnReport,
     Live, Commands, NeverStuck
<1> QED
  BY <1>6, <1>7, <1>8, <1>10 DEF GatesInv

LEMMA LeavePoolInv ==
  ASSUME GatesInv, NEW p \in Checkers, LeavePool(p) PROVE GatesInv'
<1>1. /\ check[p].pc # "idle"
      /\ check' = [check EXCEPT ![p] = Fresh]
      /\ thread' = [thread EXCEPT ![p] = [i \in Gates |-> "none"]]
      /\ turn' = Nobody
      /\ UNCHANGED <<gates, starting, report>>
  BY DEF LeavePool
<1>2. GatesTyped
  BY DEF GatesInv
<1>3. Fresh \in CheckRecords /\ Fresh.pc = "idle"
  BY DEF Fresh, CheckRecords
<1>4. \A q \in Checkers : check'[q] = Fresh /\ \A i \in Gates : thread'[q][i] = "none"
  BY <1>1, <1>2, OthersIdle DEF GatesTyped
<1>5. GatesTyped'
  BY <1>1, <1>2, <1>3 DEF GatesTyped, CheckRecords, ThreadStates
<1>6. TurnHeld' /\ ScheduleKept'
  BY <1>1, <1>3, <1>4 DEF TurnHeld, ScheduleKept, Fresh
<1>7. SpawnHolds' /\ StoppedForGood' /\ ReadsOwnReport' /\ NeverStuck'
  BY <1>1, <1>3, <1>4 DEF SpawnHolds, StoppedForGood, ReadsOwnReport, Live, Commands, NeverStuck
<1> QED
  BY <1>5, <1>6, <1>7 DEF GatesInv

LEMMA ThreadMoves ==
  ASSUME GatesInv, NEW p \in Checkers, NEW i \in Gates, NEW from, NEW to \in ThreadStates,
         Move(p, i, from, to), from \notin {"none"} \cup Finished, to # "none",
         UNCHANGED <<gates, turn, check>>,
         starting' \in [Checkers -> Gates \cup {Nobody}],
         report' \in [Gates -> Checkers \cup {Nobody}]
  PROVE  /\ GatesTyped' /\ TurnHeld' /\ ScheduleKept' /\ NeverStuck' /\ turn = p
         /\ thread[p][i] = from /\ thread'[p][i] = to
         /\ \A j \in Gates \ {i} : thread'[p][j] = thread[p][j]
         /\ \A q \in Checkers \ {p} : \A j \in Gates : thread[q][j] = "none" /\ thread'[q][j] = "none"
<1>1. GatesTyped /\ TurnHeld
  BY DEF GatesInv
<1>2. /\ thread[p][i] = from /\ thread' = [thread EXCEPT ![p][i] = to]
      /\ UNCHANGED <<gates, turn, check>>
  BY DEF Move
<1>3. check[p].pc # "idle"
  BY <1>1, <1>2 DEF TurnHeld
<1>4. turn = p /\ \A q \in Checkers \ {p} : \A j \in Gates : thread[q][j] = "none"
  BY <1>3, OthersIdle
<1>5. /\ thread'[p][i] = to
      /\ \A j \in Gates \ {i} : thread'[p][j] = thread[p][j]
      /\ \A q \in Checkers \ {p} : thread'[q] = thread[q]
      /\ thread' \in [Checkers -> [Gates -> ThreadStates]]
  BY <1>1, <1>2 DEF GatesTyped
<1>6. GatesTyped'
  BY <1>1, <1>2, <1>5 DEF GatesTyped, CheckRecords
<1>7. TurnHeld'
  BY <1>1, <1>2, <1>3, <1>5 DEF TurnHeld
<1>8. Scheduled(p)
  BY <1>3 DEF GatesInv, ScheduleKept
<1>9. ScheduleKept'
  <2> SUFFICES ASSUME NEW q \in Checkers, check[q].pc # "idle" PROVE Scheduled(q)'
    BY <1>2 DEF ScheduleKept
  <2>1. q = p
    BY <1>3, OthersIdle
  <2>2. \A j \in Gates : Needs(j)' = Needs(j)
    BY <1>2 DEF Needs
  <2>3. i \notin check[p].finished /\ i \notin check[p].waiting
    BY <1>2, <1>8 DEF Scheduled
  <2>4. \A j \in Gates : /\ j \in check[p].waiting <=> thread'[p][j] = "none"
                         /\ j \in check[p].finished => thread'[p][j] \in Finished
    BY <1>5, <1>8, <2>3 DEF Scheduled
  <2> QED
    BY <1>2, <1>8, <2>1, <2>2, <2>4 DEF Scheduled
<1>10. NeverStuck'
  BY <1>2 DEF GatesInv, NeverStuck
<1> QED
  BY <1>2, <1>4, <1>5, <1>6, <1>7, <1>9, <1>10

LEMMA PrepareInv ==
  ASSUME GatesInv, NEW p \in Checkers, NEW i \in Gates, Prepare(p, i) PROVE GatesInv'
<1>1. UNCHANGED <<gates, turn, check, starting>> /\ GatesTyped
  BY DEF Prepare, GatesInv
<1>2. PICK to \in {"prepared", "failed"} :
        Move(p, i, "queued", to) /\ (report' = report \/ ReportIs(i, Nobody))
  BY DEF Prepare
<1>3. /\ report' \in [Gates -> Checkers \cup {Nobody}]
      /\ \A j \in Gates \ {i} : report'[j] = report[j]
  BY <1>1, <1>2 DEF GatesTyped, ReportIs
<1>4. /\ GatesTyped' /\ TurnHeld' /\ ScheduleKept' /\ NeverStuck'
      /\ thread[p][i] = "queued" /\ thread'[p][i] = to
      /\ \A j \in Gates \ {i} : thread'[p][j] = thread[p][j]
      /\ \A q \in Checkers \ {p} : \A j \in Gates : thread[q][j] = "none" /\ thread'[q][j] = "none"
  <2>1. starting' \in [Checkers -> Gates \cup {Nobody}]
    BY <1>1 DEF GatesTyped
  <2>2. to \in ThreadStates /\ "queued" \notin {"none"} \cup Finished /\ to # "none"
    BY DEF ThreadStates, Finished
  <2> QED
    BY <1>1, <1>2, <1>3, <2>1, <2>2, ThreadMoves
<1>5. SpawnHolds' /\ StoppedForGood' /\ ReadsOwnReport'
  BY <1>1, <1>3, <1>4 DEF GatesInv, SpawnHolds, StoppedForGood, ReadsOwnReport, Live, Commands
<1> QED
  BY <1>4, <1>5 DEF GatesInv

LEMMA PopenInv ==
  ASSUME GatesInv, NEW p \in Checkers, NEW i \in Gates, Popen(p, i) PROVE GatesInv'
<1>1. UNCHANGED <<gates, turn, check, report>> /\ GatesTyped /\ starting[p] = Nobody
  BY DEF Popen, GatesInv
<1>2. PICK to \in {"raised", "spawned"} :
        /\ Move(p, i, "prepared", to)
        /\ to = "raised" => starting' = starting
        /\ to = "spawned" => ~check[p].stopped /\ starting' = [starting EXCEPT ![p] = i]
  BY DEF Popen
<1>3. /\ starting' \in [Checkers -> Gates \cup {Nobody}]
      /\ to = "spawned" => starting'[p] = i
      /\ \A q \in Checkers \ {p} : starting'[q] = starting[q]
  BY <1>1, <1>2 DEF GatesTyped
<1>4. /\ GatesTyped' /\ TurnHeld' /\ ScheduleKept' /\ NeverStuck'
      /\ thread[p][i] = "prepared" /\ thread'[p][i] = to
      /\ \A j \in Gates \ {i} : thread'[p][j] = thread[p][j]
      /\ \A q \in Checkers \ {p} : \A j \in Gates : thread[q][j] = "none" /\ thread'[q][j] = "none"
  <2>1. report' \in [Gates -> Checkers \cup {Nobody}]
    BY <1>1 DEF GatesTyped
  <2>2. to \in ThreadStates /\ "prepared" \notin {"none"} \cup Finished /\ to # "none"
    BY DEF ThreadStates, Finished
  <2> QED
    BY <1>1, <1>2, <1>3, <2>1, <2>2, ThreadMoves
<1>5. \A j \in Gates : thread[p][j] # "spawned"
  <2>1. \A j \in Gates : j # Nobody
    BY <1>1, GateConstants DEF GatesTyped
  <2> QED
    BY <1>1, <2>1 DEF GatesInv, SpawnHolds
<1>6. SpawnHolds' /\ StoppedForGood' /\ ReadsOwnReport'
  BY <1>1, <1>2, <1>3, <1>4, <1>5
     DEF GatesInv, SpawnHolds, StoppedForGood, ReadsOwnReport, Live, Commands
<1> QED
  BY <1>4, <1>6 DEF GatesInv

LEMMA AddRunningInv ==
  ASSUME GatesInv, NEW p \in Checkers, NEW i \in Gates, AddRunning(p, i) PROVE GatesInv'
<1>1. /\ UNCHANGED <<gates, turn, check, report>> /\ GatesTyped
      /\ Move(p, i, "spawned", "alive") /\ starting' = [starting EXCEPT ![p] = Nobody]
  BY DEF AddRunning, GatesInv
<1>2. /\ starting' \in [Checkers -> Gates \cup {Nobody}]
      /\ \A q \in Checkers \ {p} : starting'[q] = starting[q]
  BY <1>1 DEF GatesTyped
<1>3. /\ GatesTyped' /\ TurnHeld' /\ ScheduleKept' /\ NeverStuck'
      /\ thread[p][i] = "spawned" /\ thread'[p][i] = "alive"
      /\ \A j \in Gates \ {i} : thread'[p][j] = thread[p][j]
      /\ \A q \in Checkers \ {p} : \A j \in Gates : thread[q][j] = "none" /\ thread'[q][j] = "none"
  <2>1. report' \in [Gates -> Checkers \cup {Nobody}]
    BY <1>1 DEF GatesTyped
  <2>2. "alive" \in ThreadStates /\ "spawned" \notin {"none"} \cup Finished
    BY DEF ThreadStates, Finished
  <2> QED
    BY <1>1, <1>2, <2>1, <2>2, ThreadMoves
<1>4. starting[p] = i /\ \A j \in Gates \ {i} : thread[p][j] # "spawned"
  BY <1>3 DEF GatesInv, SpawnHolds
<1>5. SpawnHolds' /\ StoppedForGood' /\ ReadsOwnReport'
  BY <1>1, <1>2, <1>3, <1>4
     DEF GatesInv, SpawnHolds, StoppedForGood, ReadsOwnReport, Live, Commands
<1> QED
  BY <1>3, <1>5 DEF GatesInv

LEMMA CommandExitsInv ==
  ASSUME GatesInv, NEW p \in Checkers, NEW i \in Gates, CommandExits(p, i) PROVE GatesInv'
<1>1. /\ UNCHANGED <<gates, turn, check, starting>> /\ GatesTyped
      /\ Move(p, i, "alive", "exited") /\ ReportIs(i, p)
  BY DEF CommandExits, GatesInv
<1>2. /\ report' \in [Gates -> Checkers \cup {Nobody}]
      /\ Reported(gates[i]) => report'[i] = p
      /\ \A j \in Gates \ {i} : report'[j] = report[j]
  BY <1>1 DEF GatesTyped, ReportIs
<1>3. /\ GatesTyped' /\ TurnHeld' /\ ScheduleKept' /\ NeverStuck'
      /\ thread[p][i] = "alive" /\ thread'[p][i] = "exited"
      /\ \A j \in Gates \ {i} : thread'[p][j] = thread[p][j]
      /\ \A q \in Checkers \ {p} : \A j \in Gates : thread[q][j] = "none" /\ thread'[q][j] = "none"
  <2>1. starting' \in [Checkers -> Gates \cup {Nobody}]
    BY <1>1 DEF GatesTyped
  <2>2. "exited" \in ThreadStates /\ "alive" \notin {"none"} \cup Finished
    BY DEF ThreadStates, Finished
  <2> QED
    BY <1>1, <1>2, <2>1, <2>2, ThreadMoves
<1>4. SpawnHolds' /\ StoppedForGood' /\ ReadsOwnReport'
  BY <1>1, <1>2, <1>3 DEF GatesInv, SpawnHolds, StoppedForGood, ReadsOwnReport, Live, Commands
<1> QED
  BY <1>3, <1>4 DEF GatesInv

(* The thread ends: its command is out of time, or its report is judged.    *)
LEMMA ThreadEndsInv ==
  ASSUME GatesInv, NEW p \in Checkers, NEW i \in Gates,
         CommandTimesOut(p, i) \/ ReadReport(p, i)
  PROVE  GatesInv'
<1>1. PICK from \in {"alive", "killed", "exited"}, to \in {"passed", "failed"} :
        Move(p, i, from, to) /\ UNCHANGED <<gates, turn, check, starting, report>>
  BY DEF CommandTimesOut, ReadReport
<1>2. GatesTyped
  BY DEF GatesInv
<1>3. /\ GatesTyped' /\ TurnHeld' /\ ScheduleKept' /\ NeverStuck'
      /\ thread'[p][i] = to
      /\ \A j \in Gates \ {i} : thread'[p][j] = thread[p][j]
      /\ \A q \in Checkers \ {p} : \A j \in Gates : thread'[q][j] = "none"
  <2>1. /\ starting' \in [Checkers -> Gates \cup {Nobody}]
        /\ report' \in [Gates -> Checkers \cup {Nobody}]
    BY <1>1, <1>2 DEF GatesTyped
  <2>2. to \in ThreadStates /\ from \notin {"none"} \cup Finished /\ to # "none"
    BY DEF ThreadStates, Finished
  <2> QED
    BY <1>1, <2>1, <2>2, ThreadMoves
<1>4. SpawnHolds' /\ StoppedForGood' /\ ReadsOwnReport'
  BY <1>1, <1>3 DEF GatesInv, SpawnHolds, StoppedForGood, ReadsOwnReport, Live, Commands
<1> QED
  BY <1>3, <1>4 DEF GatesInv

LEMMA GatesStepInv == GatesInv /\ [GatesNext]_gateVars => GatesInv'
<1> SUFFICES ASSUME GatesInv, [GatesNext]_gateVars PROVE GatesInv'
  OBVIOUS
<1>1. CASE UNCHANGED gateVars
  BY <1>1 DEF gateVars, GatesInv, GatesTyped, CheckRecords, TurnHeld, ScheduleKept, Scheduled, Needs,
     SpawnHolds, NeverStuck, StoppedForGood, ReadsOwnReport, Live
<1>2. ASSUME NEW p \in Checkers, CheckStep(p) PROVE GatesInv'
  BY <1>2, TakeTurnInv, SubmitInv, CollectInv, InterruptInv, StopGroupsInv, LeavePoolInv DEF CheckStep
<1>3. ASSUME NEW p \in Checkers, NEW i \in Gates, ThreadStep(p, i) PROVE GatesInv'
  BY <1>3, PrepareInv, PopenInv, AddRunningInv, CommandExitsInv, ThreadEndsInv DEF ThreadStep
<1> QED
  BY <1>1, <1>2, <1>3 DEF GatesNext

LEMMA RelatedSymmetric == \A p, q : Related(p, q) <=> Related(q, p)
  BY DEF Related

\* A gate whose command is live waits for no gate whose thread has not finished.
LEMMA LiveNeeds ==
  ASSUME GatesInv, NEW p \in Checkers, NEW j \in Gates, thread[p][j] \in {"prepared"} \cup Commands
  PROVE  \A i \in 1..(j - 1) : i \in Gates /\ (Waits(gates[i], gates[j]) => thread[p][i] \in Finished)
<1>1. check[p].pc # "idle"
  BY DEF GatesInv, TurnHeld, Commands
<1>2. Scheduled(p)
  BY <1>1 DEF GatesInv, ScheduleKept
<1>3. Needs(j) \subseteq check[p].finished
  BY <1>2 DEF Scheduled, Commands
<1>4. Gates = 1..Len(gates) /\ Len(gates) \in Nat
  BY DEF GatesInv, GatesTyped
<1>5. \A i \in 1..(j - 1) : i \in Gates
  BY <1>4
<1> QED
  BY <1>2, <1>3, <1>5 DEF Scheduled, Needs

LEMMA GatesInvSafe == GatesInv => GatesSafe /\ GatesTypeOK
<1> SUFFICES ASSUME GatesInv PROVE GatesSafe /\ GatesTypeOK
  OBVIOUS
<1>1. CommandsApart
  <2>1. Gates \subseteq Nat /\ \A i, j \in Gates : i # j => i \in 1..(j - 1) \/ j \in 1..(i - 1)
    BY DEF GatesInv, GatesTyped
  <2>2. ASSUME NEW p \in Checkers, NEW i \in Gates, NEW j \in Gates, Live(p, i), Live(p, j), i \in 1..(j - 1)
        PROVE  ~Waits(gates[i], gates[j])
    BY <2>2, LiveNeeds DEF Live, Commands, Finished
  <2>3. ASSUME NEW p \in Checkers, NEW i \in Gates, NEW j \in Gates, Live(p, i), Live(p, j), i # j
        PROVE  ~Waits(gates[i], gates[j]) \/ ~Waits(gates[j], gates[i])
    BY <2>1, <2>2, <2>3
  <2> QED
    BY <2>3, RelatedSymmetric DEF CommandsApart, Waits
<1>2. ReadersSeeWriters
  BY LiveNeeds DEF ReadersSeeWriters, Waits, Finished, Ended
<1>3. EveryGateJudged
  <2>1. ASSUME NEW p \in Checkers, check[p].pc = "judged" PROVE check[p].finished = Gates
    BY <2>1 DEF GatesInv, NeverStuck, ScheduleKept, Scheduled
  <2> QED
    BY <2>1 DEF GatesInv, NeverStuck, EveryGateJudged
<1>4. GatesTypeOK
  BY DEF GatesInv, GatesTyped, CheckRecords, GatesTypeOK
<1> QED
  BY <1>1, <1>2, <1>3, <1>4 DEF GatesSafe, GatesInv

THEOREM GatesStaySafe == GatesSpec => []GatesSafe
<1>1. GatesSpec => []GatesInv
  BY GatesInitInv, GatesStepInv, PTL DEF GatesSpec
<1> QED
  BY <1>1, GatesInvSafe, PTL

THEOREM GatesTyping == GatesSpec => []GatesTypeOK
<1>1. GatesSpec => []GatesInv
  BY GatesInitInv, GatesStepInv, PTL DEF GatesSpec
<1> QED
  BY <1>1, GatesInvSafe, PTL

HIDE DEF Gates

-----------------------------------------------------------------------------
(* Sessions.                                                                *)
(* Every record of the session's file, on disk or in the hands of a process *)
(* that read it, has a base whose files are known, names as dirty only what *)
(* the session began with, and remembers only a check that passed.          *)

SesTyped ==
  /\ log \in Seq(Tree) /\ Len(log) >= 1 /\ onRemote \in 1..Len(log) /\ workTree \in Tree
  /\ began \in [tree: Tree, at: 1..Len(log)]
  /\ DOMAIN install = {"pc", "at", "saved"} /\ install.at \in 0..Len(log)
  /\ DOMAIN fail = Failures
  /\ turns \in Nat

StopTyped ==
  /\ DOMAIN stop = DOMAIN StopIdle
  /\ stop.building \in BOOLEAN /\ stop.claim \in BOOLEAN /\ stop.ok \in BOOLEAN
  /\ stop.changed \subseteq Paths

\* What dirty_files says of tree t, seen from commit b.
AsSeen(t, b) == [f \in Differs(t, log[b]) |-> t[f]]
SeenAtPass(v) ==
  v = NoPass \/ /\ v.base \in 1..Len(log)
                /\ \E t \in Tree : <<t, v.building>> \in proven /\ v.files = AsSeen(t, v.base)

GoodRecord(r) ==
  /\ r = [base |-> r.base, dirty |-> r.dirty, verified |-> r.verified, shown |-> r.shown,
           count |-> r.count]
  /\ r.base \in 1..Len(log)
  /\ \A f \in Paths \ {"plan"} : log[r.base][f] \in Known(f)
  /\ DOMAIN r.dirty \subseteq Paths /\ \A f \in DOMAIN r.dirty : r.dirty[f] = began.tree[f]
  /\ SeenAtPass(r.verified)

GoodRecords ==
  /\ state \notin {Gone, Torn} => GoodRecord(state)
  /\ stop.pc = "scope" /\ stop.saved # Gone => GoodRecord(stop.saved)
  /\ stop.pc \in {"truncate", "write"} => GoodRecord(stop.saved)
  /\ \A h \in Failures : fail[h].pc = "read" => GoodRecord(fail[h].saved)
  /\ install.pc \in {"truncate", "write"} => GoodRecord(install.saved)

StopBusy == {"compare", "check", "show", "truncate", "write", "remember"}
StopSees ==
  /\ stop.pc \in StopBusy \cup {"skipped", "passed"} =>
       /\ stop.base \in 1..Len(log) /\ stop.tree \in Tree
       /\ stop.files = AsSeen(stop.tree, stop.base)
       /\ stop.claim => ~stop.building
  /\ stop.pc = "scope" => ~stop.ok
  /\ stop.pc = "remember" \/ (stop.pc \in StopBusy /\ stop.ok) =>
       <<stop.tree, stop.building>> \in proven
  /\ stop.pc \in {"skipped", "passed"} => <<stop.tree, stop.building>> \in proven

InstallAt ==
  /\ install.pc \in {"written", "rebase", "truncate", "write"} => install.at \in 1..Len(log)
  /\ install.pc = "rebase" =>
       /\ install.at \in 2..Len(log)
       /\ log[install.at].code = log[install.at - 1].code
AtStart == turns = 0 => workTree = began.tree /\ Len(log) = 1 /\ install.pc = "idle"

SesInv ==
  SesTyped /\ StopTyped /\ GoodRecords /\ StopSees /\ InstallAt /\ AtStart /\ ChangesAreChecked

LEMMA SesInitInv == SesInit => SesInv
<1> SUFFICES ASSUME SesInit PROVE SesInv
  OBVIOUS
<1> DEFINE first == [code |-> 0, plan |-> "ready", hook |-> "old"]
<1>1. /\ log = <<first>> /\ onRemote = 1
      /\ \E v \in CodeVersions : workTree = [log[1] EXCEPT !.code = v]
      /\ state = Gone /\ stop = StopIdle /\ fail = [h \in Failures |-> [pc |-> "idle", saved |-> Gone]]
      /\ install = [pc |-> "idle", at |-> 0, saved |-> Gone]
      /\ began = [tree |-> workTree, at |-> 1] /\ proven = {} /\ turns = 0
  BY DEF SesInit
<1>2. first \in Tree
  BY SessionConstants DEF Tree, PlanStates, Hooks
<1> HIDE DEF first
<1>3. log \in Seq(Tree) /\ Len(log) = 1 /\ log[1] = first
  BY <1>1, <1>2
<1>4. workTree \in Tree
  BY <1>1, <1>2, <1>3 DEF Tree
<1>5. SesTyped /\ StopTyped
  BY <1>1, <1>3, <1>4 DEF SesTyped, StopTyped, StopIdle
<1>6. StopSees /\ InstallAt /\ AtStart /\ ChangesAreChecked
  BY <1>1, <1>3 DEF StopSees, InstallAt, AtStart, ChangesAreChecked, StopIdle, StopBusy, Lets
<1>7. GoodRecords
  BY <1>1 DEF GoodRecords, StopIdle
<1> QED
  BY <1>5, <1>6, <1>7 DEF SesInv

(* Nothing that was known is forgotten: commits, what is on a remote and    *)
(* what passed only grow.                                                   *)
HistoryGrows ==
  /\ Len(log) <= Len(log') /\ \A k \in 1..Len(log) : log'[k] = log[k]
  /\ onRemote <= onRemote' /\ proven \subseteq proven'
  /\ began'.tree = began.tree /\ began.at <= began'.at

LEMMA KnownGrows ==
  ASSUME SesTyped, SesTyped', HistoryGrows
  PROVE  \A f : Known(f) \subseteq Known(f)'
<1> SUFFICES ASSUME NEW f, NEW x \in Known(f) PROVE x \in Known(f)'
  OBVIOUS
<1>1. Later(began.at, onRemote) \in 1..Len(log) /\ Later(began.at, onRemote)' \in 1..Len(log')
      /\ Later(began.at, onRemote) <= Later(began.at, onRemote)'
  BY DEF SesTyped, HistoryGrows, Later
<1>2. Len(log) \in Nat /\ Len(log') \in Nat
  BY DEF SesTyped
<1>3. \A k \in 1..Later(began.at, onRemote) : k \in 1..Later(began.at, onRemote)' /\ log'[k] = log[k]
  BY <1>1, <1>2 DEF HistoryGrows
<1> QED
  BY <1>3 DEF Known, HistoryGrows

LEMMA SeenSame ==
  ASSUME HistoryGrows
  PROVE  \A t, b : b \in 1..Len(log) => AsSeen(t, b)' = AsSeen(t, b)
  BY DEF HistoryGrows, AsSeen, Differs

LEMMA RecordsStayGood ==
  ASSUME SesTyped, SesTyped', HistoryGrows
  PROVE  /\ \A v : SeenAtPass(v) => SeenAtPass(v)'
         /\ \A r : GoodRecord(r) => GoodRecord(r)'
<1>1. Len(log) \in Nat /\ Len(log') \in Nat /\ \A b \in 1..Len(log) : b \in 1..Len(log')
  BY DEF SesTyped, HistoryGrows
<1>2. \A v : SeenAtPass(v) => SeenAtPass(v)'
  <2> SUFFICES ASSUME NEW v, SeenAtPass(v), v # NoPass PROVE SeenAtPass(v)'
    BY DEF SeenAtPass
  <2>1. PICK t \in Tree : <<t, v.building>> \in proven /\ v.files = AsSeen(t, v.base)
    BY DEF SeenAtPass
  <2>2. v.base \in 1..Len(log) /\ v.base \in 1..Len(log')
    BY <1>1 DEF SeenAtPass
  <2>3. AsSeen(t, v.base)' = AsSeen(t, v.base)
    BY <2>2, SeenSame
  <2> QED
    BY <2>1, <2>2, <2>3 DEF SeenAtPass, HistoryGrows
<1>3. ASSUME NEW r, GoodRecord(r) PROVE GoodRecord(r)'
  <2>1. r.base \in 1..Len(log) /\ r.base \in 1..Len(log') /\ log'[r.base] = log[r.base]
    BY <1>1, <1>3 DEF GoodRecord, HistoryGrows
  <2>2. \A f \in Paths \ {"plan"} : log'[r.base][f] \in Known(f)'
    BY <1>3, <2>1, KnownGrows DEF GoodRecord
  <2>3. SeenAtPass(r.verified)'
    BY <1>2, <1>3 DEF GoodRecord
  <2> QED
    BY <1>3, <2>1, <2>2, <2>3 DEF GoodRecord, HistoryGrows
<1> QED
  BY <1>2, <1>3

(* What dirty_files says of a tree and the commit it is compared with tell  *)
(* the tree.                                                                *)
LEMMA SeenTells ==
  ASSUME NEW t \in Tree, NEW u \in Tree, NEW b, AsSeen(t, b) = AsSeen(u, b)
  PROVE  t = u
<1>1. \A f \in Paths : t[f] = u[f]
  <2> SUFFICES ASSUME NEW f \in Paths PROVE t[f] = u[f]
    OBVIOUS
  <2>1. f \in Differs(t, log[b]) <=> f \in Differs(u, log[b])
    BY DOMAIN AsSeen(t, b) = DOMAIN AsSeen(u, b) DEF AsSeen
  <2>2. CASE f \in Differs(t, log[b])
    <3>1. AsSeen(t, b)[f] = t[f] /\ AsSeen(u, b)[f] = u[f]
      BY <2>1, <2>2 DEF AsSeen
    <3> QED
      BY <3>1
  <2>3. CASE f \notin Differs(t, log[b])
    BY <2>1, <2>3 DEF Differs
  <2> QED
    BY <2>2, <2>3
<1>2. t.code = u.code /\ t.plan = u.plan /\ t.hook = u.hook
  BY <1>1 DEF Paths
<1> QED
  BY <1>2 DEF Tree

(* A check that is remembered and saw what this hook sees passed on the     *)
(* tree this hook read, at the same stage.                                  *)
LEMMA SamePass ==
  ASSUME SeenAtPass(Verified), stop.base \in 1..Len(log), stop.tree \in Tree,
         stop.files = AsSeen(stop.tree, stop.base)
  PROVE  <<stop.tree, stop.building>> \in proven
<1>1. Verified # NoPass
  BY DEF Verified, NoPass
<1>2. PICK t \in Tree : <<t, Verified.building>> \in proven /\ Verified.files = AsSeen(t, Verified.base)
  BY <1>1 DEF SeenAtPass
<1>3. Verified.base = stop.base /\ Verified.files = stop.files /\ Verified.building = stop.building
  BY DEF Verified
<1>4. t = stop.tree
  BY <1>2, <1>3, SeenTells
<1> QED
  BY <1>2, <1>3, <1>4
LEMMA StopStays ==
  ASSUME SesInv, SesTyped', HistoryGrows, stop' = stop PROVE StopTyped' /\ StopSees' /\ ChangesAreChecked'
<1>1. \A b \in 1..Len(log) : b \in 1..Len(log')
  BY DEF SesInv, SesTyped, HistoryGrows
<1>2. StopSees'
  <2>1. stop.base \in 1..Len(log) => AsSeen(stop.tree, stop.base)' = AsSeen(stop.tree, stop.base)
    <3>1. \A t, b : b \in 1..Len(log) => AsSeen(t, b)' = AsSeen(t, b)
      BY SeenSame
    <3> QED
      BY <3>1
  <2> QED
    BY <1>1, <2>1 DEF SesInv, StopSees, HistoryGrows
<1>3. ChangesAreChecked'
  <2>1. \A f : Known(f) \subseteq Known(f)'
    BY KnownGrows DEF SesInv
  <2> QED
    BY <2>1 DEF SesInv, ChangesAreChecked
<1>4. StopTyped'
  BY DEF SesInv, StopTyped
<1> QED
  BY <1>2, <1>3, <1>4

LEMMA InstallStays ==
  ASSUME SesInv, SesTyped', HistoryGrows, install' = install PROVE InstallAt'
<1>1. /\ Len(log) \in Nat /\ Len(log') \in Nat /\ Len(log) <= Len(log')
      /\ \A k \in 1..Len(log) : log'[k] = log[k]
  <2>1. log' \in Seq(Tree)
    BY DEF SesTyped
  <2> QED
    BY <2>1 DEF SesInv, SesTyped, HistoryGrows
<1>2. install.pc = "rebase" => /\ install.at \in 2..Len(log')
                               /\ log'[install.at] = log[install.at]
                               /\ log'[install.at - 1] = log[install.at - 1]
  BY <1>1 DEF SesInv, InstallAt
<1> QED
  BY <1>1, <1>2 DEF SesInv, InstallAt

(* Only the hook moves, and what it reads it reads now.                     *)
HookMoves == UNCHANGED <<log, onRemote, workTree, state, fail, install, began, proven, turns>>

LEMMA RecordsSame ==
  ASSUME SesInv, HookMoves PROVE \A r : GoodRecord(r) => GoodRecord(r)'
<1>1. SesTyped'
  BY DEF SesInv, SesTyped, HookMoves
<1>2. HistoryGrows
  BY DEF SesInv, SesTyped, HookMoves, HistoryGrows
<1> QED
  BY <1>1, <1>2, RecordsStayGood DEF SesInv

LEMMA HookMovesInv ==
  ASSUME SesInv, HookMoves, StopSees', ChangesAreChecked',
         StopTyped',
         stop'.pc = "scope" /\ stop'.saved # Gone => GoodRecord(stop.saved)',
         stop'.pc \in {"truncate", "write"} => GoodRecord(stop.saved)'
  PROVE  SesInv'
<1>1. SesTyped'
  BY DEF SesInv, SesTyped, HookMoves
<1>2. \A r : GoodRecord(r) => GoodRecord(r)'
  BY RecordsSame
<1>3. GoodRecords'
  BY <1>2 DEF SesInv, GoodRecords, HookMoves
<1>4. InstallAt' /\ AtStart'
  BY DEF SesInv, InstallAt, AtStart, HookMoves
<1> QED
  BY <1>1, <1>3, <1>4 DEF SesInv

LEMMA StopBeginsInv ==
  ASSUME SesInv, NEW claim \in BOOLEAN, StopBegins(claim), UNCHANGED turns PROVE SesInv'
<1>1. /\ stop' = [StopIdle EXCEPT !.pc = IF state = Torn THEN "blocked" ELSE "scope",
                                  !.saved = state, !.claim = claim]
      /\ HookMoves
  BY DEF StopBegins, HookMoves
<1>2. /\ stop'.pc = IF state = Torn THEN "blocked" ELSE "scope"
      /\ stop'.saved = state /\ stop'.claim = claim /\ stop'.building = FALSE /\ stop'.ok = FALSE
      /\ stop'.changed = {}
  BY <1>1 DEF StopIdle
<1>3. StopTyped' /\ StopSees' /\ ChangesAreChecked'
  BY <1>1, <1>2 DEF StopTyped, StopIdle, StopSees, ChangesAreChecked, StopBusy, Lets
<1>4. stop'.pc = "scope" /\ stop'.saved # Gone => GoodRecord(stop.saved)'
  <2>1. \A r : GoodRecord(r) => GoodRecord(r)'
    BY <1>1, RecordsSame
  <2> QED
    BY <1>1, <1>2, <2>1 DEF SesInv, GoodRecords, HookMoves
<1> QED
  BY <1>1, <1>2, <1>3, <1>4, HookMovesInv

LEMMA StopScopeInv ==
  ASSUME SesInv, StopScope, UNCHANGED turns PROVE SesInv'
<1> DEFINE hasFile == stop.saved # Gone
           floor == Later(IF hasFile THEN stop.saved.base ELSE Len(log), onRemote)
           present == Dirty(floor)
           before == IF hasFile THEN stop.saved.dirty ELSE <<>>
           changed == {f \in DOMAIN present : f \notin DOMAIN before \/ before[f] # present[f]}
           me == [stop EXCEPT !.base = floor, !.files = present, !.tree = workTree,
                              !.changed = changed, !.building = Building(stop.claim)]
<1>1. /\ stop.pc = "scope" /\ HookMoves
      /\ \E pc \in {"blocked", "unchanged", "planning", "compare"} :
           /\ stop' = [me EXCEPT !.pc = pc]
           /\ pc = "unchanged" => changed = {} /\ hasFile
  <2> DEFINE after == CASE workTree.plan = "draft" -> "blocked"
            [] workTree.plan # "draft" /\ changed = {} /\ hasFile -> "unchanged"
            [] workTree.plan = "handoff" /\ changed \subseteq {"plan"}
                 /\ ~(changed = {} /\ hasFile) -> "planning"
            [] OTHER -> "compare"
  <2>1. stop.pc = "scope" /\ HookMoves /\ stop' = [me EXCEPT !.pc = after]
    BY DEF StopScope, PlanUnfinished, HookMoves
  <2> HIDE DEF hasFile, changed, me
  <2>2. /\ after \in {"blocked", "unchanged", "planning", "compare"}
        /\ after = "unchanged" => changed = {} /\ hasFile
    OBVIOUS
  <2> HIDE DEF after
  <2> QED
    BY <2>1, <2>2, Zenon
<1>2. PICK pc \in {"blocked", "unchanged", "planning", "compare"} :
           /\ stop' = [me EXCEPT !.pc = pc]
           /\ pc = "unchanged" => changed = {} /\ hasFile
  BY <1>1, Zenon
<1>3. hasFile => GoodRecord(stop.saved)
  BY <1>1 DEF SesInv, GoodRecords
<1>4. Len(log) \in Nat /\ Len(log) >= 1 /\ onRemote \in 1..Len(log) /\ workTree \in Tree
      /\ began.at \in Nat
  BY DEF SesInv, SesTyped
<1>5. floor \in 1..Len(log)
  BY <1>3, <1>4 DEF Later, GoodRecord
<1>6. present = AsSeen(workTree, floor) /\ DOMAIN present = Differs(workTree, log[floor])
      /\ \A f \in DOMAIN present : present[f] = workTree[f]
  BY DEF Dirty, AsSeen
<1>7. changed \subseteq Paths
  BY <1>6 DEF Differs
<1>8. ASSUME changed = {}, hasFile, NEW f \in Paths \ {"plan"} PROVE workTree[f] \in Known(f)
  <2>1. CASE f \in DOMAIN present
    <3>1. f \in DOMAIN stop.saved.dirty /\ stop.saved.dirty[f] = workTree[f]
      BY <1>6, <1>8, <2>1
    <3> QED
      BY <1>3, <1>8, <3>1 DEF GoodRecord, Known
  <2>2. CASE f \notin DOMAIN present
    <3>1. workTree[f] = log[floor][f]
      BY <1>6, <2>2 DEF Differs
    <3>2. CASE floor = stop.saved.base
      BY <1>3, <1>8, <3>1, <3>2 DEF GoodRecord
    <3>3. CASE floor = onRemote
      <4>1. onRemote \in 1..Later(began.at, onRemote)
        BY <1>4 DEF Later
      <4> QED
        BY <3>1, <3>3, <4>1 DEF Known
    <3> QED
      BY <1>8, <3>2, <3>3 DEF Later
  <2> QED
    BY <2>1, <2>2
<1> HIDE DEF floor, present, changed
<1>9. /\ stop'.pc = pc /\ stop'.base = floor /\ stop'.files = present /\ stop'.tree = workTree
      /\ stop'.changed = changed /\ stop'.building = Building(stop.claim)
      /\ stop'.claim = stop.claim /\ stop'.ok = stop.ok
      /\ DOMAIN stop' = DOMAIN stop
  BY <1>2 DEF SesInv, StopTyped, StopIdle
<1>10. StopTyped'
  BY <1>7, <1>9 DEF SesInv, StopTyped, StopIdle, Building
<1>11. StopSees'
  <2>1. ~stop.ok
    BY <1>1 DEF SesInv, StopSees
  <2>2. AsSeen(stop.tree, stop.base)' = AsSeen(workTree, floor) /\ log' = log
    BY <1>1, <1>9 DEF HookMoves, AsSeen, Differs
  <2> QED
    BY <1>4, <1>5, <1>6, <1>9, <2>1, <2>2 DEF StopSees, StopBusy, Building
<1>12. ChangesAreChecked'
  <2>1. \A f \in Paths : Known(f)' = Known(f)
    BY <1>1 DEF Known, HookMoves
  <2>2. pc = "unchanged" => \A f \in Paths \ {"plan"} : workTree[f] \in Known(f)
    BY <1>2, <1>8
  <2> QED
    BY <1>9, <2>1, <2>2 DEF ChangesAreChecked, Lets
<1> QED
  BY <1>1, <1>9, <1>10, <1>11, <1>12, HookMovesInv
LEMMA ComparePassInv ==
  ASSUME SesInv, ComparePass, UNCHANGED turns PROVE SesInv'
<1>1. /\ stop.pc = "compare" /\ HookMoves
      /\ \E pc \in {"blocked", "skipped", "check"} :
           /\ stop' = [stop EXCEPT !.pc = pc]
           /\ pc = "skipped" => state \notin {Torn, Gone} /\ state.verified = Verified
  <2> DEFINE after == CASE state = Torn -> "blocked"
         [] state # Torn /\ state # Gone /\ state.verified = Verified -> "skipped"
         [] OTHER -> "check"
  <2>1. stop.pc = "compare" /\ HookMoves /\ stop' = [stop EXCEPT !.pc = after]
    BY DEF ComparePass, HookMoves
  <2>2. /\ after \in {"blocked", "skipped", "check"}
        /\ after = "skipped" => state \notin {Torn, Gone} /\ state.verified = Verified
    OBVIOUS
  <2> HIDE DEF after
  <2> QED
    BY <2>1, <2>2, Zenon
<1>2. PICK pc \in {"blocked", "skipped", "check"} :
           /\ stop' = [stop EXCEPT !.pc = pc]
           /\ pc = "skipped" => state \notin {Torn, Gone} /\ state.verified = Verified
  BY <1>1, Zenon
<1>3. /\ stop'.pc = pc /\ stop'.base = stop.base /\ stop'.files = stop.files /\ stop'.tree = stop.tree
      /\ stop'.changed = stop.changed /\ stop'.building = stop.building
      /\ stop'.claim = stop.claim /\ stop'.ok = stop.ok /\ DOMAIN stop' = DOMAIN stop
  BY <1>2 DEF SesInv, StopTyped, StopIdle
<1>4. StopTyped'
  BY <1>3 DEF SesInv, StopTyped, StopIdle
<1>5. /\ stop.base \in 1..Len(log) /\ stop.tree \in Tree
      /\ stop.files = AsSeen(stop.tree, stop.base) /\ (stop.claim => ~stop.building)
      /\ stop.ok => <<stop.tree, stop.building>> \in proven
  BY <1>1 DEF SesInv, StopSees, StopBusy
<1>6. pc = "skipped" => <<stop.tree, stop.building>> \in proven
  BY <1>2, <1>5, SamePass DEF SesInv, GoodRecords, GoodRecord
<1>7. StopSees'
  <2>1. AsSeen(stop.tree, stop.base)' = AsSeen(stop.tree, stop.base) /\ log' = log /\ proven' = proven
    BY <1>1, <1>3 DEF HookMoves, AsSeen, Differs
  <2> QED
    BY <1>3, <1>5, <1>6, <2>1 DEF StopSees, StopBusy
<1>8. ChangesAreChecked'
  <2>1. pc = "skipped" => \A f \in Paths : stop.tree[f] \in Known(f)
    BY <1>6 DEF Known
  <2>2. \A f \in Paths : Known(f)' = Known(f)
    BY <1>1 DEF Known, HookMoves
  <2> QED
    BY <1>3, <2>1, <2>2 DEF ChangesAreChecked, Lets
<1> QED
  BY <1>1, <1>3, <1>4, <1>7, <1>8, HookMovesInv

(* The hook goes on with what it saw, to a step that is not yet an answer.  *)
LEMMA StopGoesOn ==
  ASSUME SesInv, SesTyped', HistoryGrows, stop.pc \in StopBusy, stop'.pc \in StopBusy \cup {"blocked"},
         stop'.base = stop.base, stop'.files = stop.files, stop'.tree = stop.tree,
         stop'.building = stop.building, stop'.claim = stop.claim,
         stop'.pc = "remember" \/ stop'.ok => <<stop.tree, stop.building>> \in proven'
  PROVE  StopSees' /\ ChangesAreChecked'
<1>1. /\ stop.base \in 1..Len(log) /\ stop.tree \in Tree
      /\ stop.files = AsSeen(stop.tree, stop.base) /\ (stop.claim => ~stop.building)
  BY DEF SesInv, StopSees
<1>2. stop.base \in 1..Len(log')
  BY <1>1 DEF SesInv, SesTyped, HistoryGrows
<1>3. AsSeen(stop.tree, stop.base)' = AsSeen(stop.tree, stop.base)
  <2>1. \A t, b : b \in 1..Len(log) => AsSeen(t, b)' = AsSeen(t, b)
    BY SeenSame
  <2>2. AsSeen(stop.tree, stop.base)' = [f \in Differs(stop.tree, log'[stop.base]) |-> stop.tree[f]]
    BY DEF AsSeen, Differs
  <2> QED
    BY <1>1, <2>2 DEF HistoryGrows, AsSeen
<1> QED
  BY <1>1, <1>2, <1>3 DEF StopSees, StopBusy, ChangesAreChecked, Lets

LEMMA RunCheckInv ==
  ASSUME SesInv, RunCheck, UNCHANGED turns PROVE SesInv'
<1>1. /\ stop.pc = "check"
      /\ UNCHANGED <<log, onRemote, workTree, state, fail, install, began, turns>>
      /\ proven \subseteq proven'
      /\ \E passes \in BOOLEAN : /\ stop' = [stop EXCEPT !.ok = passes, !.pc = "show"]
                                 /\ passes => <<stop.tree, stop.building>> \in proven'
  BY DEF RunCheck
<1>2. PICK passes \in BOOLEAN : /\ stop' = [stop EXCEPT !.ok = passes, !.pc = "show"]
                                /\ passes => <<stop.tree, stop.building>> \in proven'
  BY <1>1
<1>3. /\ stop'.pc = "show" /\ stop'.base = stop.base /\ stop'.files = stop.files
      /\ stop'.tree = stop.tree /\ stop'.changed = stop.changed /\ stop'.building = stop.building
      /\ stop'.claim = stop.claim /\ stop'.ok = passes /\ DOMAIN stop' = DOMAIN stop
  BY <1>2 DEF SesInv, StopTyped, StopIdle
<1>4. SesTyped' /\ StopTyped'
  BY <1>1, <1>3 DEF SesInv, SesTyped, StopTyped, StopIdle
<1>5. HistoryGrows
  BY <1>1 DEF SesInv, SesTyped, HistoryGrows
<1>6. StopSees' /\ ChangesAreChecked'
  BY <1>1, <1>2, <1>3, <1>4, <1>5, StopGoesOn DEF StopBusy
<1>7. GoodRecords'
  <2>1. \A r : GoodRecord(r) => GoodRecord(r)'
    BY <1>4, <1>5, RecordsStayGood DEF SesInv
  <2> QED
    BY <1>1, <1>3, <2>1 DEF SesInv, GoodRecords
<1>8. InstallAt' /\ AtStart'
  BY <1>1 DEF SesInv, InstallAt, AtStart
<1> QED
  BY <1>4, <1>6, <1>7, <1>8 DEF SesInv

LEMMA GoodExcept ==
  ASSUME NEW r, GoodRecord(r)
  PROVE  /\ GoodRecord([r EXCEPT !.shown = TRUE])
         /\ \A c : GoodRecord([r EXCEPT !.count = c])
         /\ \A v : SeenAtPass(v) => GoodRecord([r EXCEPT !.verified = v])
<1>1. r = [base |-> r.base, dirty |-> r.dirty, verified |-> r.verified, shown |-> r.shown,
           count |-> r.count]
  BY DEF GoodRecord
<1>2. ASSUME NEW b, NEW d, NEW v, NEW s, NEW c,
             r = [base |-> b, dirty |-> d, verified |-> v, shown |-> s, count |-> c]
      PROVE  /\ [r EXCEPT !.shown = TRUE]
                  = [base |-> b, dirty |-> d, verified |-> v, shown |-> TRUE, count |-> c]
             /\ \A x : [r EXCEPT !.count = x]
                  = [base |-> b, dirty |-> d, verified |-> v, shown |-> s, count |-> x]
             /\ \A x : [r EXCEPT !.verified = x]
                  = [base |-> b, dirty |-> d, verified |-> x, shown |-> s, count |-> c]
  <2>1. [r EXCEPT !.shown = TRUE] = [base |-> b, dirty |-> d, verified |-> v, shown |-> TRUE, count |-> c]
    <3>1. \A x : [r EXCEPT !.shown = x]
                   = [base |-> b, dirty |-> d, verified |-> v, shown |-> x, count |-> c]
      BY <1>2
    <3> QED
      BY <3>1
  <2>2. ASSUME NEW x PROVE [r EXCEPT !.count = x]
          = [base |-> b, dirty |-> d, verified |-> v, shown |-> s, count |-> x]
    BY <1>2
  <2>3. ASSUME NEW x PROVE [r EXCEPT !.verified = x]
          = [base |-> b, dirty |-> d, verified |-> x, shown |-> s, count |-> c]
    BY <1>2
  <2> QED
    BY <2>1, <2>2, <2>3
<1>3. /\ [r EXCEPT !.shown = TRUE] = [base |-> r.base, dirty |-> r.dirty, verified |-> r.verified,
                                      shown |-> TRUE, count |-> r.count]
      /\ \A x : [r EXCEPT !.count = x] = [base |-> r.base, dirty |-> r.dirty,
                                          verified |-> r.verified, shown |-> r.shown, count |-> x]
      /\ \A x : [r EXCEPT !.verified = x] = [base |-> r.base, dirty |-> r.dirty, verified |-> x,
                                             shown |-> r.shown, count |-> r.count]
  BY <1>1, <1>2
<1> QED
  BY <1>3 DEF GoodRecord

LEMMA ReadShownInv ==
  ASSUME SesInv, ReadShown, UNCHANGED turns PROVE SesInv'
<1>1. stop.pc = "show" /\ HookMoves
  BY DEF ReadShown, HookMoves
<1>2. \/ stop' = [stop EXCEPT !.pc = "blocked"]
      \/ /\ state \notin {Gone, Torn}
         /\ stop' = [stop EXCEPT !.pc = "truncate", !.note = TRUE,
                                 !.saved = [state EXCEPT !.shown = TRUE]]
      \/ stop.ok /\ stop' = [stop EXCEPT !.pc = "remember"]
  <2>1. CASE state = Torn
    BY <2>1 DEF ReadShown
  <2>2. CASE state # Torn /\ state # Gone /\ ~state.shown /\ "code" \in stop.changed
    BY <2>2 DEF ReadShown
  <2>3. CASE ~(state = Torn) /\ ~(state # Torn /\ state # Gone /\ ~state.shown /\ "code" \in stop.changed)
    <3>1. stop' = [stop EXCEPT !.pc = IF stop.ok THEN "remember" ELSE "blocked"]
      BY <2>3 DEF ReadShown
    <3> QED
      BY <3>1
  <2> QED
    BY <2>1, <2>2, <2>3
<1>3. /\ stop'.base = stop.base /\ stop'.files = stop.files /\ stop'.tree = stop.tree
      /\ stop'.changed = stop.changed /\ stop'.building = stop.building
      /\ stop'.claim = stop.claim /\ stop'.ok = stop.ok /\ DOMAIN stop' = DOMAIN stop
      /\ stop'.pc \in {"blocked", "truncate", "remember"}
      /\ stop'.pc = "truncate" => stop'.saved = [state EXCEPT !.shown = TRUE] /\ state \notin {Gone, Torn}
      /\ stop'.pc = "remember" => stop.ok
  BY <1>2 DEF SesInv, StopTyped, StopIdle
<1>4. SesTyped' /\ StopTyped' /\ HistoryGrows
  BY <1>1, <1>3 DEF SesInv, SesTyped, StopTyped, StopIdle, HookMoves, HistoryGrows
<1>5. StopSees' /\ ChangesAreChecked'
  <2>1. stop.ok => <<stop.tree, stop.building>> \in proven'
    BY <1>1 DEF SesInv, StopSees, StopBusy, HookMoves
  <2> QED
    BY <1>1, <1>3, <1>4, <2>1, StopGoesOn DEF StopBusy
<1>6. stop'.pc = "truncate" => GoodRecord(stop.saved)'
  <2>1. stop'.pc = "truncate" => GoodRecord([state EXCEPT !.shown = TRUE])
    BY <1>3, GoodExcept DEF SesInv, GoodRecords
  <2>2. \A r : GoodRecord(r) => GoodRecord(r)'
    BY <1>1, RecordsSame
  <2> QED
    BY <1>3, <2>1, <2>2
<1> QED
  BY <1>1, <1>3, <1>4, <1>5, <1>6, HookMovesInv

LEMMA ReadForPassInv ==
  ASSUME SesInv, ReadForPass, UNCHANGED turns PROVE SesInv'
<1> DEFINE old == IF state = Gone
             THEN [base |-> stop.base, dirty |-> <<>>, verified |-> NoPass,
                   shown |-> FALSE, count |-> 0]
             ELSE state
<1>1. /\ stop.pc = "remember"
      /\ stop' = IF state = Torn THEN [stop EXCEPT !.pc = "blocked"]
                 ELSE [stop EXCEPT !.pc = "truncate", !.ok = FALSE,
                                   !.saved = [old EXCEPT !.verified = Verified]]
      /\ began' = IF state = Gone THEN [began EXCEPT !.at = Later(@, stop.base)] ELSE began
      /\ UNCHANGED <<log, onRemote, workTree, state, fail, install, proven, turns>>
  BY DEF ReadForPass
<1>2. /\ stop.base \in 1..Len(log) /\ stop.tree \in Tree
      /\ stop.files = AsSeen(stop.tree, stop.base)
      /\ <<stop.tree, stop.building>> \in proven
  BY <1>1 DEF SesInv, StopSees, StopBusy
<1>3. /\ began'.tree = began.tree /\ began.at <= began'.at
      /\ began' \in [tree: Tree, at: 1..Len(log)]
      /\ state = Gone => stop.base <= began'.at
  <2>1. began \in [tree: Tree, at: 1..Len(log)]
    BY DEF SesInv, SesTyped
  <2> QED
    BY <1>1, <1>2, <2>1 DEF Later
<1> HIDE DEF old
<1>4. /\ stop'.base = stop.base /\ stop'.files = stop.files /\ stop'.tree = stop.tree
      /\ stop'.changed = stop.changed /\ stop'.building = stop.building
      /\ stop'.claim = stop.claim /\ DOMAIN stop' = DOMAIN stop
      /\ stop'.pc \in {"blocked", "truncate"} /\ stop'.ok \in BOOLEAN
      /\ stop'.pc = "truncate" => state # Torn /\ stop'.saved = [old EXCEPT !.verified = Verified]
  BY <1>1 DEF SesInv, StopTyped, StopIdle
<1>5. SesTyped' /\ StopTyped'
  BY <1>1, <1>3, <1>4 DEF SesInv, SesTyped, StopTyped, StopIdle
<1>6. HistoryGrows
  BY <1>1, <1>3 DEF SesInv, SesTyped, HistoryGrows
<1>7. StopSees' /\ ChangesAreChecked'
  BY <1>1, <1>2, <1>4, <1>5, <1>6, StopGoesOn DEF StopBusy
<1>8. \A r : GoodRecord(r) => GoodRecord(r)'
  BY <1>5, <1>6, RecordsStayGood DEF SesInv
<1>9. PICK w : w = Verified
  OBVIOUS
<1>10. SeenAtPass(w) /\ SeenAtPass(w)'
  <2>1. /\ Verified.base = stop.base /\ Verified.files = stop.files
        /\ Verified.building = stop.building
    BY DEF Verified
  <2>2. SeenAtPass(w)
    BY <1>2, <1>9, <2>1 DEF SeenAtPass
  <2> QED
    BY <1>5, <1>6, <2>2, RecordsStayGood DEF SesInv
<1>11. ASSUME stop'.pc = "truncate" PROVE GoodRecord(stop.saved)'
  <2>1. PICK r : r = [old EXCEPT !.verified = w]
    OBVIOUS
  <2>2. CASE state = Gone
    <3>1. r = [base |-> stop.base, dirty |-> <<>>, verified |-> w, shown |-> FALSE, count |-> 0]
      BY <2>1, <2>2 DEF old
    <3>2. stop.base \in 1..Later(began.at, onRemote)' /\ stop.base \in 1..Len(log')
      BY <1>1, <1>2, <1>3, <2>2, <1>5 DEF Later, SesTyped
    <3>3. \A f \in Paths \ {"plan"} : log'[stop.base][f] \in Known(f)'
      BY <3>2 DEF Known
    <3>4. GoodRecord(r)'
      BY <1>10, <3>1, <3>2, <3>3 DEF GoodRecord
    <3> QED
      BY <1>4, <1>9, <1>11, <2>1, <3>4
  <2>3. CASE state # Gone
    <3>1. old = state /\ GoodRecord(state)
      BY <1>4, <1>11, <2>3 DEF SesInv, GoodRecords, old
    <3>2. GoodRecord(r)
      BY <1>10, <2>1, <3>1, GoodExcept
    <3> QED
      BY <1>4, <1>8, <1>9, <1>11, <2>1, <3>2
  <2> QED
    BY <2>2, <2>3
<1>12. GoodRecords'
  BY <1>1, <1>4, <1>8, <1>11 DEF SesInv, GoodRecords
<1>13. InstallAt' /\ AtStart'
  BY <1>1, <1>3 DEF SesInv, InstallAt, AtStart
<1> QED
  BY <1>5, <1>7, <1>12, <1>13 DEF SesInv

LEMMA TruncateInv ==
  ASSUME SesInv, Truncate, UNCHANGED turns PROVE SesInv'
<1>1. /\ stop.pc = "truncate" /\ state' = Torn /\ stop' = [stop EXCEPT !.pc = "write"]
      /\ UNCHANGED <<log, onRemote, workTree, fail, install, began, proven, turns>>
  BY DEF Truncate
<1>2. /\ stop'.pc = "write" /\ stop'.base = stop.base /\ stop'.files = stop.files
      /\ stop'.tree = stop.tree /\ stop'.changed = stop.changed /\ stop'.building = stop.building
      /\ stop'.claim = stop.claim /\ stop'.ok = stop.ok /\ stop'.saved = stop.saved
      /\ DOMAIN stop' = DOMAIN stop
  BY <1>1 DEF SesInv, StopTyped, StopIdle
<1>3. SesTyped' /\ StopTyped'
  BY <1>1, <1>2 DEF SesInv, SesTyped, StopTyped, StopIdle
<1>4. HistoryGrows
  BY <1>1 DEF SesInv, SesTyped, HistoryGrows
<1>5. StopSees' /\ ChangesAreChecked'
  <2>1. stop.ok => <<stop.tree, stop.building>> \in proven'
    BY <1>1 DEF SesInv, StopSees, StopBusy
  <2> QED
    BY <1>1, <1>2, <1>3, <1>4, <2>1, StopGoesOn DEF StopBusy
<1>6. GoodRecords'
  <2>1. \A r : GoodRecord(r) => GoodRecord(r)'
    BY <1>3, <1>4, RecordsStayGood DEF SesInv
  <2>2. GoodRecord(stop.saved)
    BY <1>1 DEF SesInv, GoodRecords
  <2> QED
    BY <1>1, <1>2, <2>1, <2>2 DEF SesInv, GoodRecords
<1>7. InstallAt' /\ AtStart'
  BY <1>1 DEF SesInv, InstallAt, AtStart
<1> QED
  BY <1>3, <1>5, <1>6, <1>7 DEF SesInv

LEMMA WriteStateInv ==
  ASSUME SesInv, WriteState, UNCHANGED turns PROVE SesInv'
<1>1. /\ stop.pc = "write" /\ state' = stop.saved
      /\ UNCHANGED <<log, onRemote, workTree, fail, install, began, proven, turns>>
  BY DEF WriteState
<1>2. PICK pc \in {"remember", "passed", "blocked"} :
        /\ stop' = [stop EXCEPT !.pc = pc]
        /\ pc = "remember" => stop.ok
        /\ pc = "passed" => stop.saved.verified = Verified
  <2>1. CASE stop.ok
    BY <2>1 DEF WriteState
  <2>2. CASE ~stop.ok /\ stop.saved.verified = Verified /\ ~stop.note
    BY <2>2 DEF WriteState
  <2>3. CASE ~stop.ok /\ ~(stop.saved.verified = Verified /\ ~stop.note)
    BY <2>3 DEF WriteState
  <2> QED
    BY <2>1, <2>2, <2>3
<1>3. /\ stop'.pc = pc /\ stop'.base = stop.base /\ stop'.files = stop.files
      /\ stop'.tree = stop.tree /\ stop'.changed = stop.changed /\ stop'.building = stop.building
      /\ stop'.claim = stop.claim /\ stop'.ok = stop.ok /\ DOMAIN stop' = DOMAIN stop
  BY <1>2 DEF SesInv, StopTyped, StopIdle
<1>4. SesTyped' /\ StopTyped'
  BY <1>1, <1>3 DEF SesInv, SesTyped, StopTyped, StopIdle
<1>5. HistoryGrows
  BY <1>1 DEF SesInv, SesTyped, HistoryGrows
<1>6. GoodRecord(stop.saved)
  BY <1>1 DEF SesInv, GoodRecords
<1>7. /\ stop.base \in 1..Len(log) /\ stop.tree \in Tree
      /\ stop.files = AsSeen(stop.tree, stop.base) /\ (stop.claim => ~stop.building)
      /\ stop.ok => <<stop.tree, stop.building>> \in proven
  BY <1>1 DEF SesInv, StopSees, StopBusy
<1>8. pc = "passed" => <<stop.tree, stop.building>> \in proven
  BY <1>2, <1>6, <1>7, SamePass DEF GoodRecord
<1>9. StopSees'
  <2>1. AsSeen(stop.tree, stop.base)' = AsSeen(stop.tree, stop.base) /\ log' = log /\ proven' = proven
    BY <1>1, <1>3 DEF AsSeen, Differs
  <2> QED
    BY <1>2, <1>3, <1>7, <1>8, <2>1 DEF StopSees, StopBusy
<1>10. ChangesAreChecked'
  <2>1. pc = "passed" => \A f \in Paths : stop.tree[f] \in Known(f)
    BY <1>8 DEF Known
  <2>2. \A f \in Paths : Known(f)' = Known(f)
    BY <1>1 DEF Known
  <2> QED
    BY <1>3, <2>1, <2>2 DEF ChangesAreChecked, Lets
<1>11. GoodRecords'
  <2>1. \A r : GoodRecord(r) => GoodRecord(r)'
    BY <1>4, <1>5, RecordsStayGood DEF SesInv
  <2> QED
    BY <1>1, <1>3, <1>6, <2>1 DEF SesInv, GoodRecords
<1>12. InstallAt' /\ AtStart'
  BY <1>1 DEF SesInv, InstallAt, AtStart
<1> QED
  BY <1>4, <1>9, <1>10, <1>11, <1>12 DEF SesInv

LEMMA TurnOverInv ==
  ASSUME SesInv, TurnEnds \/ StopKilled,
         turns' = turns \/ turns' = turns + 1
  PROVE  SesInv'
<1>1. stop' = StopIdle /\ UNCHANGED <<log, onRemote, workTree, state, fail, install, began, proven>>
  BY DEF TurnEnds, StopKilled
<1>2. SesTyped' /\ StopTyped' /\ HistoryGrows
  BY <1>1 DEF SesInv, SesTyped, StopTyped, StopIdle, HistoryGrows
<1>3. StopSees' /\ ChangesAreChecked'
  BY <1>1 DEF StopIdle, StopSees, StopBusy, ChangesAreChecked, Lets
<1>4. GoodRecords'
  <2>1. \A r : GoodRecord(r) => GoodRecord(r)'
    BY <1>2, RecordsStayGood DEF SesInv
  <2> QED
    BY <1>1, <2>1 DEF SesInv, GoodRecords, StopIdle
<1>5. InstallAt' /\ AtStart'
  BY <1>1 DEF SesInv, SesTyped, InstallAt, AtStart
<1> QED
  BY <1>2, <1>3, <1>4, <1>5 DEF SesInv
(* Another process moves: the hook does not, and history only grows.        *)
LEMMA OthersMove ==
  ASSUME SesInv, SesTyped', HistoryGrows, stop' = stop, InstallAt', AtStart',
         state' = state \/ state' = Torn \/ GoodRecord(state)',
         fail' = fail \/ \A h \in Failures : fail'[h].pc = "read" => GoodRecord(fail[h].saved)',
         install'.pc \in {"truncate", "write"} => GoodRecord(install.saved)'
  PROVE  SesInv'
<1>1. \A r : GoodRecord(r) => GoodRecord(r)'
  BY RecordsStayGood DEF SesInv
<1>2. GoodRecords'
  BY <1>1 DEF SesInv, GoodRecords
<1> QED
  BY <1>2, StopStays DEF SesInv

LEMMA InstallStaysGood ==
  ASSUME SesInv, SesTyped', HistoryGrows, install' = install
  PROVE  InstallAt' /\ (install'.pc \in {"truncate", "write"} => GoodRecord(install.saved)')
<1>1. \A r : GoodRecord(r) => GoodRecord(r)'
  BY RecordsStayGood DEF SesInv
<1> QED
  BY <1>1, InstallStays DEF SesInv, GoodRecords

LEMMA RecordSessionInv ==
  ASSUME SesInv, RecordSession, UNCHANGED turns PROVE SesInv'
<1>1. /\ turns = 0
      /\ state' = [base |-> Len(log), dirty |-> Dirty(Len(log)), verified |-> NoPass,
                   shown |-> FALSE, count |-> 0]
      /\ UNCHANGED <<log, onRemote, workTree, stop, fail, install, began, proven, turns>>
  BY DEF RecordSession
<1>2. SesTyped' /\ HistoryGrows
  BY <1>1 DEF SesInv, SesTyped, HistoryGrows
<1>3. workTree = began.tree /\ Len(log) = 1
  BY <1>1 DEF SesInv, AtStart
<1>4. PICK d : d = Dirty(1)
  OBVIOUS
<1>5. DOMAIN d \subseteq Paths /\ \A f \in DOMAIN d : d[f] = began.tree[f]
  BY <1>3, <1>4 DEF Dirty, Differs
<1>6. 1 \in 1..Later(began.at, onRemote)'
  BY <1>2 DEF SesTyped, Later
<1>7. \A f \in Paths \ {"plan"} : log'[1][f] \in Known(f)'
  BY <1>6 DEF Known
<1>8. GoodRecord(state)'
  <2>1. state' = [base |-> 1, dirty |-> d, verified |-> NoPass, shown |-> FALSE, count |-> 0]
    BY <1>1, <1>3, <1>4
  <2> QED
    BY <1>1, <1>3, <1>5, <1>7, <2>1 DEF GoodRecord, SeenAtPass
<1>9. InstallAt' /\ AtStart' /\ (install'.pc \in {"truncate", "write"} => GoodRecord(install.saved)')
  BY <1>1, <1>2, InstallStaysGood DEF SesInv, AtStart
<1> QED
  BY <1>1, <1>2, <1>8, <1>9, OthersMove

LEMMA FailureReadsInv ==
  ASSUME SesInv, NEW h \in Failures, FailureReads(h), turns' = turns + 1 PROVE SesInv'
<1>1. /\ state \notin {Gone, Torn} /\ fail' = [fail EXCEPT ![h] = [pc |-> "read", saved |-> state]]
      /\ UNCHANGED <<log, onRemote, workTree, state, stop, install, began, proven>>
  BY DEF FailureReads
<1>2. SesTyped' /\ HistoryGrows
  BY <1>1 DEF SesInv, SesTyped, HistoryGrows
<1>3. \A r : GoodRecord(r) => GoodRecord(r)'
  BY <1>2, RecordsStayGood DEF SesInv
<1>4. GoodRecord(state)
  BY <1>1 DEF SesInv, GoodRecords
<1>5. fail'[h].saved = state /\ \A g \in Failures \ {h} : fail'[g] = fail[g]
  BY <1>1 DEF SesInv, SesTyped
<1>6. \A g \in Failures : fail'[g].pc = "read" => GoodRecord(fail[g].saved)'
  BY <1>3, <1>4, <1>5 DEF SesInv, GoodRecords
<1>7. InstallAt' /\ AtStart' /\ (install'.pc \in {"truncate", "write"} => GoodRecord(install.saved)')
  BY <1>1, <1>2, InstallStaysGood DEF SesInv, AtStart, SesTyped
<1> QED
  BY <1>1, <1>2, <1>6, <1>7, OthersMove

LEMMA FailureWritesInv ==
  ASSUME SesInv, NEW h \in Failures, FailureWrites(h), UNCHANGED turns PROVE SesInv'
<1>1. /\ fail[h].pc = "read"
      /\ \E c : state' = [fail[h].saved EXCEPT !.count = c]
      /\ fail' = [fail EXCEPT ![h] = [pc |-> "idle", saved |-> Gone]]
      /\ UNCHANGED <<log, onRemote, workTree, stop, install, began, proven, turns>>
  BY DEF FailureWrites
<1>2. SesTyped' /\ HistoryGrows
  BY <1>1 DEF SesInv, SesTyped, HistoryGrows
<1>3. \A r : GoodRecord(r) => GoodRecord(r)'
  BY <1>2, RecordsStayGood DEF SesInv
<1>4. GoodRecord(state)'
  <2>1. PICK c : state' = [fail[h].saved EXCEPT !.count = c]
    BY <1>1
  <2>2. GoodRecord([fail[h].saved EXCEPT !.count = c])
    BY <1>1, GoodExcept DEF SesInv, GoodRecords
  <2> QED
    BY <1>3, <2>1, <2>2
<1>5. fail'[h].pc = "idle" /\ \A g \in Failures \ {h} : fail'[g] = fail[g]
  BY <1>1 DEF SesInv, SesTyped
<1>6. \A g \in Failures : fail'[g].pc = "read" => GoodRecord(fail[g].saved)'
  BY <1>3, <1>5 DEF SesInv, GoodRecords
<1>7. InstallAt' /\ AtStart' /\ (install'.pc \in {"truncate", "write"} => GoodRecord(install.saved)')
  BY <1>1, <1>2, InstallStaysGood DEF SesInv, AtStart
<1> QED
  BY <1>1, <1>2, <1>4, <1>6, <1>7, OthersMove

LEMMA InstallWritesInv ==
  ASSUME SesInv, InstallWrites, turns' = turns + 1 PROVE SesInv'
<1>1. /\ workTree' = [workTree EXCEPT !.hook = "planned"]
      /\ install' = [install EXCEPT !.pc = "written", !.at = Len(log)]
      /\ UNCHANGED <<log, onRemote, state, stop, fail, began, proven>>
  BY DEF InstallWrites
<1>2. install'.pc = "written" /\ install'.at = Len(log) /\ DOMAIN install' = DOMAIN install
  BY <1>1 DEF SesInv, SesTyped
<1>3. SesTyped' /\ HistoryGrows
  <2>1. workTree' \in Tree
    BY <1>1 DEF SesInv, SesTyped, Tree, Hooks
  <2>2. Len(log) \in Nat
    BY DEF SesInv, SesTyped
  <2>3. HistoryGrows
    BY <1>1 DEF SesInv, SesTyped, HistoryGrows
  <2> QED
    BY <1>1, <1>2, <2>1, <2>2, <2>3 DEF SesInv, SesTyped
<1>4. InstallAt' /\ AtStart'
  BY <1>1, <1>2 DEF SesInv, SesTyped, InstallAt, AtStart
<1> QED
  BY <1>1, <1>2, <1>3, <1>4, OthersMove

LEMMA CommitGrows ==
  ASSUME SesInv, NEW t \in Tree, log' = Append(log, t), UNCHANGED <<onRemote, began, proven>>
  PROVE  HistoryGrows /\ Len(log') = Len(log) + 1 /\ log' \in Seq(Tree) /\ log'[Len(log) + 1] = t
  BY DEF SesInv, SesTyped, HistoryGrows

LEMMA InstallCommitsInv ==
  ASSUME SesInv, InstallCommits, UNCHANGED turns PROVE SesInv'
<1> DEFINE t == [log[Len(log)] EXCEPT !.hook = workTree.hook]
<1>1. /\ install.pc = "written" /\ log' = Append(log, t)
      /\ install' = [install EXCEPT !.pc = "rebase", !.at = Len(log) + 1]
      /\ UNCHANGED <<onRemote, workTree, state, stop, fail, began, proven, turns>>
  BY DEF InstallCommits
<1>2. /\ log \in Seq(Tree) /\ Len(log) >= 1 /\ log[Len(log)] \in Tree /\ workTree \in Tree
  BY DEF SesInv, SesTyped
<1>3. t \in Tree /\ t.code = log[Len(log)].code
  BY <1>2 DEF Tree
<1> HIDE DEF t
<1>4. HistoryGrows /\ Len(log') = Len(log) + 1 /\ log' \in Seq(Tree) /\ log'[Len(log) + 1] = t
  BY <1>1, <1>3, CommitGrows
<1>5. install'.pc = "rebase" /\ install'.at = Len(log) + 1 /\ DOMAIN install' = DOMAIN install
  BY <1>1 DEF SesInv, SesTyped
<1>6. SesTyped'
  BY <1>1, <1>2, <1>4, <1>5 DEF SesInv, SesTyped
<1>7. InstallAt'
  <2>1. log'[Len(log)] = log[Len(log)]
    BY <1>2, <1>4 DEF HistoryGrows
  <2> QED
    BY <1>2, <1>3, <1>4, <1>5, <2>1 DEF InstallAt
<1>8. AtStart'
  BY <1>1 DEF SesInv, AtStart
<1> QED
  BY <1>1, <1>4, <1>5, <1>6, <1>7, <1>8, OthersMove

LEMMA RebaseReadsInv ==
  ASSUME SesInv, RebaseReads, UNCHANGED turns PROVE SesInv'
<1>1. /\ install.pc = "rebase"
      /\ UNCHANGED <<log, onRemote, workTree, state, stop, fail, began, proven, turns>>
      /\ \/ /\ log[install.at].hook = "planned" /\ state \notin {Gone, Torn}
            /\ state.base = install.at - 1
            /\ install' = [install EXCEPT !.pc = "truncate", !.saved = [state EXCEPT !.base = install.at]]
         \/ install' = [install EXCEPT !.pc = "done"]
  BY DEF RebaseReads, CommittedMatches
<1>2. /\ install'.pc \in {"truncate", "done"} /\ install'.at = install.at
      /\ DOMAIN install' = DOMAIN install
      /\ install'.pc = "truncate" =>
           /\ log[install.at].hook = "planned" /\ state \notin {Gone, Torn}
           /\ state.base = install.at - 1 /\ install'.saved = [state EXCEPT !.base = install.at]
  BY <1>1 DEF SesInv, SesTyped
<1>3. SesTyped' /\ HistoryGrows
  BY <1>1, <1>2 DEF SesInv, SesTyped, HistoryGrows
<1>4. install.at \in 2..Len(log) /\ log[install.at].code = log[install.at - 1].code
  BY <1>1 DEF SesInv, InstallAt
<1>5. ASSUME install'.pc = "truncate" PROVE GoodRecord(install.saved)'
  <2>1. GoodRecord(state)
    BY <1>2, <1>5 DEF SesInv, GoodRecords
  <2>2. PICK r : r = [state EXCEPT !.base = install.at]
    OBVIOUS
  <2>3. r = [base |-> install.at, dirty |-> state.dirty, verified |-> state.verified,
             shown |-> state.shown, count |-> state.count]
    <3>1. state = [base |-> state.base, dirty |-> state.dirty, verified |-> state.verified,
                   shown |-> state.shown, count |-> state.count]
      BY <2>1 DEF GoodRecord
    <3>2. ASSUME NEW b, NEW d, NEW v, NEW s, NEW c,
                 state = [base |-> b, dirty |-> d, verified |-> v, shown |-> s, count |-> c]
          PROVE  [state EXCEPT !.base = install.at]
                   = [base |-> install.at, dirty |-> d, verified |-> v, shown |-> s, count |-> c]
      BY <3>2
    <3> QED
      BY <2>2, <3>1, <3>2
  <2>4. \A f \in Paths \ {"plan"} : log[install.at][f] \in Known(f)
    <3>1. log[install.at - 1]["code"] \in Known("code")
      BY <1>2, <1>5, <2>1 DEF GoodRecord, Paths
    <3>2. log[install.at]["code"] \in Known("code")
      BY <1>4, <3>1
    <3>3. log[install.at]["hook"] \in Known("hook")
      BY <1>2, <1>5 DEF Known
    <3> QED
      BY <3>2, <3>3 DEF Paths
  <2>5. GoodRecord(r)
    BY <1>4, <2>1, <2>3, <2>4 DEF GoodRecord
  <2>6. GoodRecord(r)'
    BY <1>3, <2>5, RecordsStayGood DEF SesInv
  <2> QED
    BY <1>2, <1>5, <2>2, <2>6
<1>6. InstallAt' /\ AtStart'
  BY <1>1, <1>2, <1>4 DEF SesInv, SesTyped, InstallAt, AtStart
<1> QED
  BY <1>1, <1>2, <1>3, <1>5, <1>6, OthersMove

LEMMA RebaseTruncatesInv ==
  ASSUME SesInv, RebaseTruncates, UNCHANGED turns PROVE SesInv'
<1>1. /\ install.pc = "truncate" /\ state' = Torn /\ install' = [install EXCEPT !.pc = "write"]
      /\ UNCHANGED <<log, onRemote, workTree, stop, fail, began, proven, turns>>
  BY DEF RebaseTruncates
<1>2. /\ install'.pc = "write" /\ install'.at = install.at /\ install'.saved = install.saved
      /\ DOMAIN install' = DOMAIN install
  BY <1>1 DEF SesInv, SesTyped
<1>3. SesTyped' /\ HistoryGrows
  BY <1>1, <1>2 DEF SesInv, SesTyped, HistoryGrows
<1>4. GoodRecord(install.saved)'
  <2>1. \A r : GoodRecord(r) => GoodRecord(r)'
    BY <1>3, RecordsStayGood DEF SesInv
  <2> QED
    BY <1>1, <1>2, <2>1 DEF SesInv, GoodRecords
<1>5. InstallAt' /\ AtStart'
  BY <1>1, <1>2 DEF SesInv, InstallAt, AtStart
<1> QED
  BY <1>1, <1>3, <1>4, <1>5, OthersMove

LEMMA RebaseWritesInv ==
  ASSUME SesInv, RebaseWrites, UNCHANGED turns PROVE SesInv'
<1>1. /\ install.pc = "write" /\ state' = install.saved
      /\ install' = [install EXCEPT !.pc = "done", !.saved = Gone]
      /\ UNCHANGED <<log, onRemote, workTree, stop, fail, began, proven, turns>>
  BY DEF RebaseWrites
<1>2. install'.pc = "done" /\ install'.at = install.at /\ DOMAIN install' = DOMAIN install
  BY <1>1 DEF SesInv, SesTyped
<1>3. SesTyped' /\ HistoryGrows
  BY <1>1, <1>2 DEF SesInv, SesTyped, HistoryGrows
<1>4. GoodRecord(state)'
  <2>1. \A r : GoodRecord(r) => GoodRecord(r)'
    BY <1>3, RecordsStayGood DEF SesInv
  <2> QED
    BY <1>1, <2>1 DEF SesInv, GoodRecords
<1>5. InstallAt' /\ AtStart'
  BY <1>1, <1>2 DEF SesInv, InstallAt, AtStart
<1> QED
  BY <1>1, <1>2, <1>3, <1>4, <1>5, OthersMove

LEMMA PeopleInv ==
  ASSUME SesInv, EditFiles \/ CommitAll \/ Push, turns' = turns + 1 PROVE SesInv'
<1>1. UNCHANGED <<state, stop, fail, install, began, proven>>
  BY DEF EditFiles, CommitAll, Push
<1>2. /\ workTree' \in Tree /\ log' \in Seq(Tree) /\ Len(log') >= Len(log) /\ Len(log) >= 1
      /\ onRemote' \in 1..Len(log') /\ HistoryGrows
  <2>1. CASE EditFiles
    BY <2>1 DEF SesInv, SesTyped, EditFiles, HistoryGrows, Tree, Hooks
  <2>2. CASE CommitAll
    <3>1. workTree \in Tree /\ log' = Append(log, workTree) /\ UNCHANGED <<onRemote, workTree, began, proven>>
      BY <2>2 DEF SesInv, SesTyped, CommitAll
    <3>2. HistoryGrows /\ Len(log') = Len(log) + 1 /\ log' \in Seq(Tree)
      BY <3>1, CommitGrows
    <3> QED
      BY <3>1, <3>2 DEF SesInv, SesTyped
  <2>3. CASE Push
    BY <2>3 DEF SesInv, SesTyped, Push, HistoryGrows
  <2> QED
    BY <2>1, <2>2, <2>3
<1>3. SesTyped'
  BY <1>1, <1>2 DEF SesInv, SesTyped
<1>4. InstallAt' /\ AtStart' /\ (install'.pc \in {"truncate", "write"} => GoodRecord(install.saved)')
  BY <1>1, <1>2, <1>3, InstallStaysGood DEF SesInv, SesTyped, AtStart
<1> QED
  BY <1>1, <1>2, <1>3, <1>4, OthersMove

LEMMA SesStepInv == SesInv /\ [SesNext]_sesVars => SesInv'
<1> SUFFICES ASSUME SesInv, [SesNext]_sesVars PROVE SesInv'
  OBVIOUS
<1>1. CASE UNCHANGED sesVars
  <2>1. SesTyped' /\ HistoryGrows /\ stop' = stop /\ install' = install /\ state' = state /\ fail' = fail
    BY <1>1 DEF SesInv, SesTyped, HistoryGrows, sesVars
  <2>2. InstallAt' /\ AtStart' /\ (install'.pc \in {"truncate", "write"} => GoodRecord(install.saved)')
    BY <1>1, <2>1, InstallStaysGood DEF SesInv, AtStart, sesVars
  <2> QED
    BY <2>1, <2>2, OthersMove
<1>2. CASE SesNext
  BY <1>2, RecordSessionInv, StopBeginsInv, StopScopeInv, ComparePassInv, RunCheckInv, ReadShownInv,
     ReadForPassInv, TruncateInv, WriteStateInv, TurnOverInv, FailureWritesInv, InstallCommitsInv,
     RebaseReadsInv, RebaseTruncatesInv, RebaseWritesInv, PeopleInv, InstallWritesInv, FailureReadsInv
     DEF SesNext
<1> QED
  BY <1>1, <1>2

LEMMA SesInvSafe == SesInv => SessionsSafe
<1> SUFFICES ASSUME SesInv PROVE SessionsSafe
  OBVIOUS
<1>1. StopSees /\ ChangesAreChecked /\ stop.building \in BOOLEAN
  BY DEF SesInv, StopTyped
<1> QED
  BY <1>1 DEF StopSees, SessionsSafe, SkipIsProven, HandoffIsComplete

\* No turn ends unblocked with a file no check has seen.
THEOREM SessionsStaySafe == SesSpec => []SessionsSafe
<1>1. SesSpec => []SesInv
  BY SesInitInv, SesStepInv, PTL DEF SesSpec
<1> QED
  BY <1>1, SesInvSafe, PTL

-----------------------------------------------------------------------------
(* Plans.                                                                   *)
(* A tree that passes as a feature on next, with code changed and no plan   *)
(* put back to its released text, passes as the release: both checks look   *)
(* at the same plans, and the feature is held to the later stage.           *)

LEMMA Ranks == Rank("Draft") = 1 /\ Rank("Ready") = 2 /\ Rank("Complete") = 3
<1>1. DOMAIN Stages = 1..3 /\ Stages[1] = "Draft" /\ Stages[2] = "Ready" /\ Stages[3] = "Complete"
  BY DEF Stages
<1>2. ASSUME NEW s \in {"Draft", "Ready", "Complete"}
      PROVE  Rank(s) \in 1..3 /\ Stages[Rank(s)] = s
  <2>1. \E i \in DOMAIN Stages : Stages[i] = s
    BY <1>1
  <2>2. Rank(s) \in DOMAIN Stages /\ Stages[Rank(s)] = s
    BY <2>1 DEF Rank
  <2> QED
    BY <1>1, <2>2
<1> HIDE DEF Stages
<1>3. Rank("Draft") \in 1..3 /\ Stages[Rank("Draft")] = "Draft"
      /\ Rank("Ready") \in 1..3 /\ Stages[Rank("Ready")] = "Ready"
      /\ Rank("Complete") \in 1..3 /\ Stages[Rank("Complete")] = "Complete"
  BY <1>2
<1>4. \A i \in 1..3 : i = 1 \/ i = 2 \/ i = 3
  OBVIOUS
<1> QED
  BY <1>1, <1>3, <1>4

LEMMA StatusRanks ==
  \A text : /\ PlanStatus(text) \in {"Draft", "Ready", "Complete"}
            /\ Rank(PlanStatus(text)) \in 1..3
            /\ Rank(PlanStatus(text)) >= Rank("Complete") => PlanStatus(text) = "Complete"
  BY Ranks DEF PlanStatus

\* The changed plans among all the changed names.
LEMMA NamedPlans ==
  ASSUME NEW t, NEW old PROVE PlanChanges(t, old) \cap Plans = ChangedPlans(t, old)
  BY PlanConstants DEF PlanChanges, ChangedPlans, ChangedCode

LEMMA FeatureIsRelease ==
  ASSUME NEW t, NEW old, NEW rel, PlansPass(t, old, rel),
         ~PlanningOnly(PlanChanges(t, old)), ~UpdateOnly(t, old),
         ChangedPlans(t, old) \subseteq ChangedPlans(t, rel)
  PROVE  /\ PlansPass(t, rel, rel)
         /\ ~Small(t, rel) => \E p \in ChangedPlans(t, rel) :
              t.plan[p] # Absent /\ PlanStatus(t.plan[p]) = "Complete"
<1> DEFINE names == PlanChanges(t, old) \cup ReleasedPlans(t, old, rel)
           names2 == PlanChanges(t, rel) \cup ReleasedPlans(t, rel, rel)
           stage2 == IF PlanningOnly(PlanChanges(t, rel)) THEN "Draft" ELSE "Complete"
           plans == ApplicablePlans(t, names)
           Reaches(p, s) == Rank(PlanStatus(t.plan[p])) >= Rank(s)
           Passes3(ps, s) == \A p \in ps :
             Reaches(p, s) \/ (PlanStatus(t.plan[p]) = "Draft" /\ \E q \in ps : Reaches(q, s))
<1>1. names \cap Plans = ChangedPlans(t, rel) /\ names2 \cap Plans = ChangedPlans(t, rel)
  <2>1. ChangedPlans(t, rel) \subseteq Plans
    BY DEF ChangedPlans
  <2>2. names2 \cap Plans = ChangedPlans(t, rel)
    BY NamedPlans DEF ReleasedPlans
  <2>3. CASE old = rel
    BY <2>2, <2>3
  <2>4. CASE old # rel
    BY <2>1, <2>4, NamedPlans DEF ReleasedPlans
  <2> QED
    BY <2>2, <2>3, <2>4
<1>2. ApplicablePlans(t, names2) = plans
  BY <1>1 DEF ApplicablePlans
<1>3. names # {}
  BY DEF PlanningOnly
<1>4. /\ names # {} /\ plans = {} => Small(t, rel)
      /\ \A p \in plans : ValidPlan(t, p, p \in names)
      /\ Passes3(plans, "Complete")
  BY DEF PlansPass
<1>5. plans \subseteq Plans
  BY DEF ApplicablePlans, OpenPlans
<1>6. \A p \in plans : Reaches(p, "Complete") => Reaches(p, stage2) /\ PlanStatus(t.plan[p]) = "Complete"
  BY Ranks, StatusRanks
<1>7. PlansPass(t, rel, rel)
  <2>1. names2 # {} /\ plans = {} => Small(t, rel)
    BY <1>3, <1>4
  <2>2. ASSUME NEW p \in plans PROVE ValidPlan(t, p, p \in names2)
    <3>1. (p \in names) <=> (p \in names2)
      BY <1>1, <1>5
    <3>2. ValidPlan(t, p, p \in names)
      BY <1>4
    <3> QED
      BY <3>1, <3>2 DEF ValidPlan, ReadinessHolds
  <2>3. Passes3(plans, stage2)
    BY <1>4, <1>6
  <2> HIDE DEF plans
  <2> QED
    BY <1>2, <2>1, <2>2, <2>3 DEF PlansPass
<1>8. ASSUME ~Small(t, rel)
      PROVE  \E p \in ChangedPlans(t, rel) : t.plan[p] # Absent /\ PlanStatus(t.plan[p]) = "Complete"
  <2>1. PICK q \in plans : PlanStatus(t.plan[q]) = "Complete"
    BY <1>3, <1>4, <1>6, <1>8
  <2>2. q \notin OpenPlans(t)
    BY <2>1 DEF OpenPlans
  <2>3. q \in names \cap Plans /\ t.plan[q] # Absent
    BY <2>2 DEF ApplicablePlans
  <2> QED
    BY <1>1, <2>1, <2>3
<1> QED
  BY <1>7, <1>8

\* A verified update changes nothing that plans are checked with.
LEMMA UpdateKeepsRest ==
  ASSUME NEW t, NEW old, UpdateOnly(t, old)
  PROVE  /\ \A p \in Plans : t.plan[p] = old.plan[p]
         /\ t.r = old.r /\ t.lines["t"] = old.lines["t"]
         /\ ~PlanningOnly(PlanChanges(t, old))
<1>1. PlanChanges(t, old) = {"he"}
  BY DEF UpdateOnly, UpdateWritten
<1>2. "he" \notin Plans /\ "he" # "r" /\ "he" \notin Code /\ "t" \in Code
  BY PlanConstants DEF Code, Sources
<1>3. ChangedPlans(t, old) = {} /\ ChangedCode(t, old) = {}
  BY <1>1, <1>2 DEF PlanChanges, ChangedPlans, ChangedCode
<1>4. t.r = old.r
  BY <1>1, <1>2 DEF PlanChanges
<1> QED
  BY <1>1, <1>2, <1>3, <1>4 DEF ChangedPlans, ChangedCode, PlanningOnly

LEMMA UpdateStaysLive ==
  ASSUME NEW t, NEW old, UpdateOnly(t, old),
         \A p \in Plans : old.plan[p] = "proves r" => old.r = "check" /\ RequirementCovered(old)
  PROVE  \A p \in Plans : t.plan[p] = "proves r" => t.r = "check" /\ RequirementCovered(t)
BY UpdateKeepsRest DEF RequirementCovered

LEMMA PlansInitInv == PlansInit => PlansSafe
<1> SUFFICES ASSUME PlansInit PROVE PlansSafe
  OBVIOUS
<1>1. next = FirstTree /\ release = FirstTree /\ lastLanding = "none"
  BY DEF PlansInit
<1>2. \A p \in Plans : FirstTree.plan[p] = Absent
  BY DEF FirstTree
<1>3. Absent # "proves r"
  BY PlanConstants DEF PlanTexts, Completes
<1> QED
  BY <1>1, <1>2, <1>3 DEF PlansSafe, FeatureSeesRelease, BigWorkIsPlanned, PlansNameLiveRequirements

\* What a feature that changes code is to a release, when it lands on the next it was
\* checked with.
LEMMA LandingIsRelease ==
  ASSUME NEW t, ChangePasses(t, next, release), Landing(t) = "work"
  PROVE  /\ PlansPass(t, release, release) /\ RequirementsPass(t)
         /\ ~Small(t, release) => \E p \in ChangedPlans(t, release) :
              t.plan[p] # Absent /\ PlanStatus(t.plan[p]) = "Complete"
<1> DEFINE P == PlanningOnly(PlanChanges(t, next))
           U == UpdateOnly(t, next)
           S == ChangedPlans(t, next) \subseteq ChangedPlans(t, release)
<1>1. Landing(t) = CASE P -> "planning"
                     [] U -> IF lastLanding = "behind" THEN "behind" ELSE "update"
                     [] ~P /\ ~U /\ S -> "work"
                     [] OTHER -> "reverting"
  BY DEF Landing
<1>2. ~P /\ ~U /\ S
  <2> HIDE DEF P, U, S
  <2> QED
    BY <1>1
<1> QED
  BY <1>2, FeatureIsRelease DEF ChangePasses

LEMMA PassingNamesLive ==
  ASSUME NEW t, RequirementsPass(t), NEW p \in Plans, t.plan[p] = "proves r"
  PROVE  t.r = "check" /\ RequirementCovered(t)
  BY DEF RequirementsPass, RequirementProven, NamesRequirement

LEMMA PlansStepInv == PlansSafe /\ [PlansNext]_planVars => PlansSafe'
<1> SUFFICES ASSUME PlansSafe, [PlansNext]_planVars PROVE PlansSafe'
  OBVIOUS
<1>1. CASE UNCHANGED <<next, release, lastLanding>>
  BY <1>1 DEF PlansSafe, FeatureSeesRelease, BigWorkIsPlanned, PlansNameLiveRequirements
<1>2. ASSUME NEW t, ChangePasses(t, next, release), next' = t, release' = release,
             lastLanding' = Landing(t)
      PROVE  PlansSafe'
  <2>1. lastLanding' = "work" =>
          /\ PlansPass(t, release, release) /\ RequirementsPass(t)
          /\ ~Small(t, release) => \E p \in ChangedPlans(t, release) :
               t.plan[p] # Absent /\ PlanStatus(t.plan[p]) = "Complete"
    BY <1>2, LandingIsRelease
  <2>2. lastLanding' # "behind" => \A p \in Plans :
          t.plan[p] = "proves r" => t.r = "check" /\ RequirementCovered(t)
    <3>1. CASE ~UpdateOnly(t, next)
      BY <1>2, <3>1, PassingNamesLive DEF ChangePasses
    <3>2. CASE UpdateOnly(t, next)
      <4>1. ~PlanningOnly(PlanChanges(t, next))
        BY <3>2, UpdateKeepsRest
      <4>2. lastLanding = "behind" => lastLanding' = "behind"
        BY <1>2, <3>2, <4>1 DEF Landing
      <4>3. lastLanding # "behind" => \A p \in Plans :
              next.plan[p] = "proves r" => next.r = "check" /\ RequirementCovered(next)
        BY DEF PlansSafe, PlansNameLiveRequirements
      <4> QED
        BY <3>2, <4>2, <4>3, UpdateStaysLive
    <3> QED
      BY <3>1, <3>2
  <2> QED
    BY <1>2, <2>1, <2>2 DEF PlansSafe, FeatureSeesRelease, BigWorkIsPlanned,
       PlansNameLiveRequirements
<1>3. CASE LandFeature
  BY <1>2, <1>3 DEF LandFeature
<1>4. CASE OthersLand
  BY <1>2, <1>4 DEF OthersLand
<1>5. CASE LandBehind
  BY <1>5 DEF LandBehind, PlansSafe, FeatureSeesRelease, BigWorkIsPlanned,
     PlansNameLiveRequirements
<1>6. CASE ReleaseNext
  <2>1. /\ next' = next /\ release' = next /\ lastLanding' = "none"
        /\ \A p \in Plans : next.plan[p] = "proves r" => next.r = "check" /\ RequirementCovered(next)
    <3>1. /\ next' = next /\ release' = next /\ lastLanding' = "none"
          /\ ChangePasses(next, release, release)
      BY <1>6 DEF ReleaseNext
    <3>2. \A p \in Plans :
            release.plan[p] = "proves r" => release.r = "check" /\ RequirementCovered(release)
      BY DEF PlansSafe, PlansNameLiveRequirements
    <3>3. CASE UpdateOnly(next, release)
      BY <3>1, <3>2, <3>3, UpdateStaysLive
    <3>4. CASE ~UpdateOnly(next, release)
      BY <3>1, <3>4, PassingNamesLive DEF ChangePasses
    <3> QED
      BY <3>3, <3>4
  <2> QED
    BY <2>1 DEF PlansSafe, FeatureSeesRelease, BigWorkIsPlanned, PlansNameLiveRequirements
<1> QED
  BY <1>1, <1>3, <1>4, <1>5, <1>6 DEF PlansNext, EditTree, RebaseWork, planVars

\* Whatever features and releases follow each other, one that changes code and lands on
\* the next it was checked with can be released and, when the whole is big, is planned,
\* and the requirements that plans prove are live.
THEOREM PlansStaySafe == PlansSpec => []PlansSafe
  BY PlansInitInv, PlansStepInv, PTL DEF PlansSpec

-----------------------------------------------------------------------------
(* The impact of a change.  Expand is a recursive function of the number of *)
(* rounds: that it exists, that its rounds only grow and that the last one  *)
(* is closed is shown by an induction over a set of numbers.                *)

LEMMA ByRounds ==
  ASSUME NEW T \in SUBSET Nat, 0 \in T, \A n \in T : n + 1 \in T
  PROVE  T = Nat
<1> SUFFICES ASSUME Nat \ T # {} PROVE FALSE
  OBVIOUS
<1>1. PICK n \in Nat \ T : \A m \in Nat \ T : n <= m
  BY LeastNat
<1>2. n # 0 /\ n - 1 \in Nat
  BY <1>1
<1>3. n - 1 \in T
  BY <1>1, <1>2
<1>4. (n - 1) + 1 = n
  BY <1>1
<1> QED
  BY <1>1, <1>3, <1>4

Rounds(more, selected, tree, N) ==
  more = [n \in 0..N |-> IF n = 0 THEN selected
                         ELSE more[n - 1] \cup Dependents(more[n - 1], tree)]

LEMMA RoundsExist ==
  ASSUME NEW selected, NEW tree, NEW N \in Nat
  PROVE  \E more : Rounds(more, selected, tree, N)
<1> DEFINE T == {m \in Nat : \E more : Rounds(more, selected, tree, m)}
<1>1. 0 \in T
  <2> DEFINE first == [n \in 0..0 |-> selected]
  <2>1. first = [n \in 0..0 |-> IF n = 0 THEN selected
                                ELSE first[n - 1] \cup Dependents(first[n - 1], tree)]
    OBVIOUS
  <2> QED
    BY <2>1 DEF Rounds
<1>2. ASSUME NEW m \in T PROVE m + 1 \in T
  <2>1. PICK more : Rounds(more, selected, tree, m)
    OBVIOUS
  <2> DEFINE longer == [n \in 0..(m + 1) |->
                          IF n <= m THEN more[n] ELSE more[m] \cup Dependents(more[m], tree)]
  <2>2. \A n \in 0..m : more[n] = IF n = 0 THEN selected
                                  ELSE more[n - 1] \cup Dependents(more[n - 1], tree)
    BY <2>1 DEF Rounds
  <2>3. ASSUME NEW n \in 0..(m + 1)
        PROVE  longer[n] = IF n = 0 THEN selected
                         ELSE longer[n - 1] \cup Dependents(longer[n - 1], tree)
    <3>1. CASE n <= m
      <4>1. n \in 0..m /\ longer[n] = more[n] /\ (n # 0 => longer[n - 1] = more[n - 1])
        BY <3>1
      <4> QED
        BY <4>1, <2>2
    <3>2. CASE n = m + 1
      <4>1. n # 0 /\ n - 1 = m /\ m \in 0..(m + 1) /\ ~(n <= m)
        BY <3>2
      <4>2. longer[n] = more[m] \cup Dependents(more[m], tree) /\ longer[m] = more[m]
        BY <4>1
      <4> QED
        BY <4>1, <4>2
    <3> QED
      BY <3>1, <3>2
  <2>4. longer = [n \in 0..(m + 1) |-> IF n = 0 THEN selected
                                     ELSE longer[n - 1] \cup Dependents(longer[n - 1], tree)]
    <3> HIDE DEF longer
    <3>1. DOMAIN longer = 0..(m + 1) /\ longer = [n \in 0..(m + 1) |-> longer[n]]
      BY DEF longer
    <3> QED
      BY <2>3, <3>1
  <2> HIDE DEF longer
  <2>5. Rounds(longer, selected, tree, m + 1)
    BY <2>4 DEF Rounds
  <2> QED
    BY <2>5
<1> HIDE DEF T
<1>3. T = Nat
  BY <1>1, <1>2, ByRounds DEF T
<1> QED
  BY <1>3 DEF T

\* expand_dependents: the least set that holds the selected packages and the dependents
\* of all it holds.
LEMMA ExpandClosed ==
  ASSUME NEW selected \in SUBSET Packages, NEW tree
  PROVE  /\ Expand(selected, tree) \in SUBSET Packages
         /\ selected \subseteq Expand(selected, tree)
         /\ Dependents(Expand(selected, tree), tree) \subseteq Expand(selected, tree)
         /\ \A set : selected \cup Dependents(set, tree) \subseteq set
              => Expand(selected, tree) \subseteq set
<1> DEFINE N == Cardinality(Packages)
<1>1. N \in Nat
  BY ImpactConstants, FS_CardinalityType
<1> HIDE DEF N
<1>2. PICK more : Rounds(more, selected, tree, N) /\ Expand(selected, tree) = more[N]
  <2>1. \E more : Rounds(more, selected, tree, N)
    BY <1>1, RoundsExist
  <2> DEFINE some == CHOOSE more : Rounds(more, selected, tree, N)
  <2>2. Rounds(some, selected, tree, N)
    BY <2>1
  <2>3. Expand(selected, tree) = some[N]
    BY DEF Expand, Rounds, N
  <2> QED
    BY <2>2, <2>3
<1>3. /\ more[0] = selected
      /\ \A n \in 0..N : n + 1 \in 0..N => more[n + 1] = more[n] \cup Dependents(more[n], tree)
  <2>1. \A n \in 0..N : more[n] = IF n = 0 THEN selected
                                  ELSE more[n - 1] \cup Dependents(more[n - 1], tree)
    BY <1>2 DEF Rounds
  <2>2. ASSUME NEW n \in 0..N, n + 1 \in 0..N
        PROVE  more[n + 1] = more[n] \cup Dependents(more[n], tree)
    <3>1. n + 1 # 0 /\ (n + 1) - 1 = n
      OBVIOUS
    <3> QED
      BY <2>1, <2>2, <3>1
  <2>3. more[0] = selected
    <3>1. 0 \in 0..N
      BY <1>1
    <3> QED
      BY <2>1, <3>1, Zenon
  <2> QED
    BY <2>2, <2>3
<1>4. \A n \in 0..N : more[n] \in SUBSET Packages
  <2> DEFINE T == {n \in Nat : n \in 0..N => more[n] \in SUBSET Packages}
  <2>1. 0 \in T
    BY <1>3
  <2>2. ASSUME NEW n \in T PROVE n + 1 \in T
    BY <1>1, <1>3 DEF Dependents
  <2> HIDE DEF T
  <2>3. T = Nat
    BY <2>1, <2>2, ByRounds DEF T
  <2> QED
    BY <1>1, <2>3 DEF T
<1>5. \A n \in 0..N : selected \subseteq more[n]
  <2> DEFINE T == {n \in Nat : n \in 0..N => selected \subseteq more[n]}
  <2>1. 0 \in T
    BY <1>3
  <2>2. ASSUME NEW n \in T PROVE n + 1 \in T
    BY <1>1, <1>3
  <2> HIDE DEF T
  <2>3. T = Nat
    BY <2>1, <2>2, ByRounds DEF T
  <2> QED
    BY <1>1, <2>3 DEF T
<1>6. ASSUME NEW set, selected \cup Dependents(set, tree) \subseteq set
      PROVE  \A n \in 0..N : more[n] \subseteq set
  <2> DEFINE T == {n \in Nat : n \in 0..N => more[n] \subseteq set}
  <2>1. 0 \in T
    BY <1>3, <1>6
  <2>2. ASSUME NEW n \in T PROVE n + 1 \in T
    <3>1. SUFFICES ASSUME n + 1 \in 0..N PROVE more[n + 1] \subseteq set
      OBVIOUS
    <3>2. n \in 0..N /\ more[n] \subseteq set
      BY <1>1, <3>1
    <3>3. Dependents(more[n], tree) \subseteq Dependents(set, tree)
      BY <3>2 DEF Dependents
    <3> QED
      BY <1>3, <1>6, <3>1, <3>2, <3>3
  <2> HIDE DEF T
  <2>3. T = Nat
    BY <2>1, <2>2, ByRounds DEF T
  <2> QED
    BY <1>1, <2>3 DEF T
(* A round that adds nothing is closed, and at most N rounds add something. *)
<1>7. \A n \in 0..N : Dependents(more[n], tree) \subseteq more[n] \/ Cardinality(more[n]) >= n
  <2> DEFINE Closed(n) == Dependents(more[n], tree) \subseteq more[n]
             T == {n \in Nat : n \in 0..N => Closed(n) \/ Cardinality(more[n]) >= n}
  <2>0. \A n \in 0..N : IsFiniteSet(more[n]) /\ Cardinality(more[n]) \in Nat
    BY <1>4, ImpactConstants, FS_Subset, FS_CardinalityType
  <2>1. 0 \in T
    BY <1>1, <2>0
  <2>2. ASSUME NEW n \in T PROVE n + 1 \in T
    <3>1. SUFFICES ASSUME n + 1 \in 0..N, ~Closed(n + 1) PROVE Cardinality(more[n + 1]) >= n + 1
      BY DEF T
    <3>2. n \in 0..N /\ (Closed(n) \/ Cardinality(more[n]) >= n)
      BY <1>1, <3>1
    <3>3. more[n + 1] = more[n] \cup Dependents(more[n], tree)
      BY <1>3, <3>1, <3>2
    <3>4. ~Closed(n)
      <4>1. Closed(n) => more[n + 1] = more[n]
        BY <3>3
      <4> QED
        BY <3>1, <4>1
    <3>5. more[n] \subseteq more[n + 1] /\ more[n] # more[n + 1]
      BY <3>3, <3>4
    <3>6. /\ Cardinality(more[n]) <= Cardinality(more[n + 1])
          /\ Cardinality(more[n]) # Cardinality(more[n + 1])
      BY <2>0, <3>1, <3>5, FS_Subset
    <3> HIDE DEF Closed
    <3> QED
      BY <1>1, <2>0, <3>1, <3>2, <3>4, <3>6
  <2> HIDE DEF T
  <2>3. T = Nat
    BY <2>1, <2>2, ByRounds DEF T
  <2> QED
    BY <1>1, <2>3 DEF T
<1>8. Dependents(more[N], tree) \subseteq more[N]
  <2>1. CASE Cardinality(more[N]) >= N
    <3>1. more[N] \in SUBSET Packages
      BY <1>1, <1>4
    <3>2. Cardinality(more[N]) <= N /\ Cardinality(more[N]) \in Nat
          /\ (N = Cardinality(more[N]) => Packages = more[N])
      BY <3>1, ImpactConstants, FS_Subset, FS_CardinalityType DEF N
    <3>3. more[N] = Packages
      BY <1>1, <2>1, <3>2
    <3> QED
      BY <3>3 DEF Dependents
  <2> QED
    BY <1>1, <1>7, <2>1
<1> QED
  BY <1>1, <1>2, <1>4, <1>5, <1>6, <1>8

LEMMA ExpandGrows ==
  ASSUME NEW some \in SUBSET Packages, NEW others \in SUBSET Packages, some \subseteq others,
         NEW tree
  PROVE  Expand(some, tree) \subseteq Expand(others, tree)
BY ExpandClosed

-----------------------------------------------------------------------------
LEMMA SelectedPackages ==
  ASSUME NEW names \in SUBSET Files, NEW tree
  PROVE  /\ PackagesFor(names, tree) \in SUBSET Packages
         /\ \A f \in names : PackagesFor({f}, tree) \subseteq PackagesFor(names, tree)
BY DEF PackagesFor, Everyone

LEMMA CoveredPackages ==
  ASSUME NEW before, NEW after
  PROVE  Covered(before, after) \in SUBSET Packages
<1> DEFINE names == Differing(before, after) \ Installed(before, after)
<1>1. PackagesFor(names, after) \in SUBSET Packages
  <2>1. names \in SUBSET Files
    BY DEF Differing
  <2> HIDE DEF names
  <2> QED
    BY <2>1, SelectedPackages
<1>2. Expand(PackagesFor(names, after), after) \in SUBSET Packages
  <2> HIDE DEF names
  <2> QED
    BY <1>1, ExpandClosed
<1> QED
  BY <1>2 DEF Covered, Affected, ChangedPackages

\* The selection leaves out only packages for which nothing their gates read changed.
LEMMA FactsCovered ==
  ASSUME NEW before \in Trees, NEW after \in Trees, NEW p \in Packages,
         Facts(p, before) # Facts(p, after)
  PROVE  p \in Covered(before, after)
<1> DEFINE names == Differing(before, after) \ Installed(before, after)
<1>1. names \in SUBSET Files /\ Installed(before, after) \subseteq {Scaffold}
  BY DEF Differing, Installed
<1>2. PackagesFor(names, after) \in SUBSET Packages
  BY <1>1, SelectedPackages
<1>3. CASE \E f \in Reads[p] : before[f] # after[f]
  <2>1. PICK f \in Reads[p] : before[f] # after[f]
    BY <1>3
  <2>2. /\ f # Scaffold
        /\ \A set \in SUBSET Packages :
             PackagesFor({f}, after) \cup Dependents(set, after) \subseteq set => p \in set
    BY ReadsAreDeclared
  <2>3. f \in names
    BY <1>1, <2>1, <2>2, ImpactConstants DEF Differing
  <2>4. PackagesFor({f}, after) \subseteq PackagesFor(names, after)
    BY <1>1, <2>3, SelectedPackages
  <2>5. p \in Expand(PackagesFor(names, after), after)
    <3> HIDE DEF names
    <3> DEFINE S == Expand(PackagesFor(names, after), after)
    <3>1. S \in SUBSET Packages /\ PackagesFor(names, after) \subseteq S
          /\ Dependents(S, after) \subseteq S
      BY <1>2, ExpandClosed
    <3> HIDE DEF S
    <3>2. p \in S
      BY <2>2, <2>4, <3>1
    <3> QED
      BY <3>2 DEF S
  <2>6. Differing(before, after) # Installed(before, after)
    BY <2>3
  <2> QED
    BY <2>5, <2>6 DEF Covered, Affected, ChangedPackages
<1>4. CASE \E f \in {GateList, Scaffold} : f \in names
  <2>1. PackagesFor(names, after) = Packages
    BY <1>4 DEF PackagesFor, Everyone
  <2>2. p \in Expand(PackagesFor(names, after), after)
    <3> HIDE DEF names
    <3> QED
      BY <1>2, <2>1, ExpandClosed
  <2> QED
    BY <1>4, <2>2 DEF Covered, Affected, ChangedPackages
<1>5. CASE before[GateList] # after[GateList]
  BY <1>1, <1>4, <1>5, ImpactConstants DEF Differing
<1>6. CASE /\ before[Scaffold] # after[Scaffold]
           /\ ~({before[Scaffold], after[Scaffold]} \subseteq Releases)
  <2>1. Installed(before, after) = {}
    BY <1>6 DEF Installed
  <2>2. Scaffold \in names
    BY <1>6, <2>1, ImpactConstants DEF Differing
  <2> QED
    BY <1>4, <2>2
<1>7. ASSUME \A f \in Reads[p] : before[f] = after[f], before[GateList] = after[GateList],
             \/ before[Scaffold] = after[Scaffold]
             \/ {before[Scaffold], after[Scaffold]} \subseteq Releases
      PROVE  FALSE
  <2>1. Restrict(before, Reads[p]) = Restrict(after, Reads[p])
    BY <1>7 DEF Restrict
  <2>2. Facts(p, before) = Facts(p, after)
    BY <1>7, <2>1 DEF Facts
  <2> QED
    BY <2>2
<1> QED
  BY <1>3, <1>5, <1>6, <1>7

-----------------------------------------------------------------------------
(* The base branch and the task branch.  A branch that is not behind its    *)
(* base left it as it is, so what CI found of it holds on the base.         *)

TopicStates == [tree : Trees, over : Nat, from : Trees]

ImpTyped ==
  /\ trunk \in [tree : Trees, at : Nat]
  /\ topic \in TopicStates
  /\ sent # NotSent => sent \in TopicStates
  /\ verdict \in {"none", "passed", "failed"}
  /\ current \in SUBSET Packages /\ missed \in SUBSET Packages

LeftTrunkAt(branch) ==
  /\ branch.over <= trunk.at
  /\ branch.over = trunk.at => branch.from = trunk.tree

BranchesLeft == LeftTrunkAt(topic) /\ (sent # NotSent => LeftTrunkAt(sent))

VerdictHolds ==
  sent # NotSent /\ verdict = "passed" =>
    \A p \in Covered(sent.from, sent.tree) : GatesPass(p, sent.tree)

AllJudged == \A p \in Packages : NothingUnjudged(p)

ImpInv == ImpTyped /\ BranchesLeft /\ VerdictHolds /\ AllJudged

StaysGreen ==
  \A p \in Packages :
    sent # NotSent /\ sent' = NotSent /\ verdict = "passed" /\ sent.over = trunk.at
      /\ GatesPass(p, trunk.tree)
      => GatesPass(p, trunk'.tree)

LEMMA ImpInitInv == ImpactInit => ImpInv
<1> SUFFICES ASSUME ImpactInit PROVE ImpInv
  OBVIOUS
<1>1. ImpTyped
  BY ImpactConstants DEF ImpactInit, ImpTyped, TopicStates
<1>2. BranchesLeft /\ VerdictHolds
  BY DEF ImpactInit, BranchesLeft, LeftTrunkAt, VerdictHolds
<1>3. AllJudged
  BY DEF ImpactInit, AllJudged, NothingUnjudged
<1> QED
  BY <1>1, <1>2, <1>3 DEF ImpInv

\* A tree that takes the files of another is a tree.
LEMMA TreesMix ==
  ASSUME NEW a \in Trees, NEW b \in Trees, NEW c \in Trees
  PROVE  [f \in Files |-> IF a[f] # b[f] THEN a[f] ELSE c[f]] \in Trees
<1> DEFINE t == [f \in Files |-> IF a[f] # b[f] THEN a[f] ELSE c[f]]
<1>1. \A f \in Files : a[f] \in Versions[f] /\ c[f] \in Versions[f]
  BY DEF Trees
<1>2. \A f \in Files : t[f] \in Versions[f] /\ t[f] \in UNION {Versions[g] : g \in Files}
  BY <1>1
<1>3. t \in [Files -> UNION {Versions[g] : g \in Files}]
  BY <1>2
<1> QED
  BY <1>2, <1>3 DEF Trees

LEMMA TreesEdit ==
  ASSUME NEW t \in Trees, NEW f \in Files, NEW v \in Versions[f]
  PROVE  [t EXCEPT ![f] = v] \in Trees
<1>1. t \in [Files -> UNION {Versions[g] : g \in Files}] /\ \A g \in Files : t[g] \in Versions[g]
  BY DEF Trees
<1>2. v \in UNION {Versions[g] : g \in Files}
  OBVIOUS
<1>3. [t EXCEPT ![f] = v] \in [Files -> UNION {Versions[g] : g \in Files}]
  BY <1>1, <1>2
<1>4. \A g \in Files : [t EXCEPT ![f] = v][g] \in Versions[g]
  BY <1>1
<1> QED
  BY <1>3, <1>4 DEF Trees

\* However trunk moves: when what changed is judged, hidden or compared by a fresh run, a
\* package that was not given up before is judged or waits for a run that was kept.
LEMMA MoveKeeps ==
  ASSUME ImpInv, NEW tree \in Trees, NEW J \in SUBSET Packages, NEW H \in SUBSET Packages, NEW F,
         MoveTrunk(tree, J, F, H),
         \A p \in Packages : Facts(p, trunk.tree) # Facts(p, tree) =>
           \/ p \in J \cup H
           \/ \E run \in F : p \in Covered(run.before, run.after) /\ Facts(p, run.after) = Facts(p, tree)
  PROVE  /\ trunk' \in [tree : Trees, at : Nat] /\ trunk' = [tree |-> tree, at |-> trunk.at + 1]
         /\ current' \in SUBSET Packages /\ missed' \in SUBSET Packages
         /\ AllJudged'
<1>1. PICK kept \in SUBSET runs :
        /\ runs' = kept \cup F
        /\ missed' = StillSame(missed \cup (Awaiting(runs \ kept) \ current), tree) \cup H
  BY DEF MoveTrunk
<1>2. trunk' = [tree |-> tree, at |-> trunk.at + 1] /\ current' = StillSame(current, tree) \cup J
  BY DEF MoveTrunk
<1>3. /\ trunk.tree \in Trees /\ trunk.at \in Nat
      /\ current \in SUBSET Packages /\ missed \in SUBSET Packages
  BY DEF ImpInv, ImpTyped
<1>4. current' \in SUBSET Packages /\ missed' \in SUBSET Packages
  BY <1>1, <1>2, <1>3 DEF StillSame, Awaiting
<1>5. ASSUME NEW p \in Packages, p \notin current' \cup missed'
      PROVE  \E run \in runs' :
               p \in Covered(run.before, run.after) /\ Facts(p, run.after) = Facts(p, trunk'.tree)
  <2>0. p \notin J \cup H /\ trunk'.tree = tree
    BY <1>1, <1>2, <1>5
  <2>1. CASE Facts(p, trunk.tree) = Facts(p, tree)
    <3>1. p \notin current /\ p \notin missed
      BY <1>1, <1>2, <1>5, <2>1 DEF StillSame
    <3>2. p \notin Awaiting(runs \ kept)
      BY <1>1, <1>5, <2>1, <3>1 DEF StillSame
    <3>3. PICK run \in runs : p \in Covered(run.before, run.after)
                               /\ Facts(p, run.after) = Facts(p, trunk.tree)
      BY <3>1 DEF ImpInv, AllJudged, NothingUnjudged
    <3>4. run \in kept
      BY <3>2, <3>3 DEF Awaiting
    <3> QED
      BY <1>1, <2>0, <2>1, <3>3, <3>4
  <2>2. CASE Facts(p, trunk.tree) # Facts(p, tree)
    <3>1. PICK run \in F : p \in Covered(run.before, run.after) /\ Facts(p, run.after) = Facts(p, tree)
      BY <2>0, <2>2
    <3> QED
      BY <1>1, <2>0, <3>1
  <2> QED
    BY <2>1, <2>2
<1>6. AllJudged'
  BY <1>5 DEF AllJudged, NothingUnjudged
<1> QED
  BY <1>2, <1>3, <1>4, <1>6

\* Any push: what is not judged now was not judged before or is what the push selects.
LEMMA PushedKeeps ==
  ASSUME ImpInv, NEW tree \in Trees, Pushed(tree)
  PROVE  /\ trunk' \in [tree : Trees, at : Nat] /\ trunk'.at = trunk.at + 1
         /\ current' \in SUBSET Packages /\ missed' \in SUBSET Packages
         /\ AllJudged'
<1> DEFINE run == [before |-> trunk.tree, after |-> tree]
<1>1. MoveTrunk(tree, {}, {run}, {})
  BY DEF Pushed
<1>2. run.before = trunk.tree /\ run.after = tree /\ trunk.tree \in Trees
  BY DEF ImpInv, ImpTyped
<1>3. \A p \in Packages : Facts(p, trunk.tree) # Facts(p, tree) => p \in Covered(run.before, run.after)
  BY <1>2, FactsCovered
<1> HIDE DEF run
<1>4. \A p \in Packages : Facts(p, trunk.tree) # Facts(p, tree) =>
        \/ p \in {} \cup {}
        \/ \E one \in {run} : p \in Covered(one.before, one.after) /\ Facts(p, one.after) = Facts(p, tree)
  BY <1>2, <1>3
<1>5. {} \in SUBSET Packages
  OBVIOUS
<1>6. /\ trunk' \in [tree : Trees, at : Nat] /\ trunk' = [tree |-> tree, at |-> trunk.at + 1]
      /\ current' \in SUBSET Packages /\ missed' \in SUBSET Packages
      /\ AllJudged'
  BY <1>1, <1>4, <1>5, MoveKeeps
<1> QED
  BY <1>6

LEMMA SendTopicStep == ASSUME ImpInv, SendTopic PROVE ImpInv' /\ StaysGreen
<1>1. sent' = topic /\ verdict' = "none" /\ UNCHANGED <<trunk, topic, runs, current, missed>>
  BY DEF SendTopic
<1>2. ImpTyped' /\ BranchesLeft' /\ VerdictHolds'
  BY <1>1 DEF ImpInv, ImpTyped, BranchesLeft, LeftTrunkAt, VerdictHolds
<1>3. AllJudged' /\ StaysGreen
  BY <1>1 DEF ImpInv, AllJudged, NothingUnjudged, StaysGreen
<1> QED
  BY <1>2, <1>3 DEF ImpInv

LEMMA PullCheckedStep == ASSUME ImpInv, PullChecked PROVE ImpInv' /\ StaysGreen
<1>1. UNCHANGED <<trunk, topic, sent, runs, current, missed>> /\ verdict' \in {"passed", "failed"}
  BY DEF PullChecked
<1>2. verdict' = "passed" => \A p \in Covered(sent.from, sent.tree) : GatesPass(p, sent.tree)
  BY DEF PullChecked
<1>3. ImpTyped' /\ BranchesLeft'
  BY <1>1 DEF ImpInv, ImpTyped, BranchesLeft, LeftTrunkAt
<1>4. VerdictHolds'
  BY <1>1, <1>2 DEF VerdictHolds
<1>5. AllJudged' /\ StaysGreen
  BY <1>1 DEF ImpInv, AllJudged, NothingUnjudged, StaysGreen
<1> QED
  BY <1>3, <1>4, <1>5 DEF ImpInv

LEMMA MergeTopicStep == ASSUME ImpInv, MergeTopic PROVE ImpInv' /\ StaysGreen
<1>1. /\ sent # NotSent /\ verdict = "passed" /\ sent.over = trunk.at
      /\ MoveTrunk(sent.tree, Covered(sent.from, sent.tree), {}, {})
      /\ trunk' = [tree |-> sent.tree, at |-> trunk.at + 1]
      /\ sent' = NotSent /\ verdict' = "none"
      /\ topic' = IF topic = sent THEN [topic EXCEPT !.over = trunk.at + 1, !.from = sent.tree]
                  ELSE topic
  BY DEF MergeTopic, MoveTrunk
<1>2. /\ sent \in TopicStates /\ topic \in TopicStates /\ trunk.tree \in Trees /\ trunk.at \in Nat
      /\ sent.tree \in Trees /\ sent.from = trunk.tree
  BY <1>1 DEF ImpInv, ImpTyped, BranchesLeft, LeftTrunkAt, TopicStates
<1>3. \A p \in Packages : Facts(p, trunk.tree) # Facts(p, sent.tree) =>
        p \in Covered(sent.from, sent.tree)
  BY <1>2, FactsCovered
<1>4. Covered(sent.from, sent.tree) \in SUBSET Packages
  BY CoveredPackages
<1>8. /\ current' \in SUBSET Packages /\ missed' \in SUBSET Packages
      /\ AllJudged'
  <2>1. \A p \in Packages : Facts(p, trunk.tree) # Facts(p, sent.tree) =>
          \/ p \in Covered(sent.from, sent.tree) \cup {}
          \/ \E run \in {} : p \in Covered(run.before, run.after)
                               /\ Facts(p, run.after) = Facts(p, sent.tree)
    BY <1>3
  <2>2. {} \in SUBSET Packages
    OBVIOUS
  <2> QED
    BY <1>1, <1>2, <1>4, <2>1, <2>2, MoveKeeps
<1>5. ImpTyped'
  <2>1. trunk' \in [tree : Trees, at : Nat]
    BY <1>1, <1>2
  <2>2. topic' \in TopicStates
    <3>1. trunk.at + 1 \in Nat
      BY <1>2
    <3>2. CASE topic = sent
      <4>1. topic' = [topic EXCEPT !.over = trunk.at + 1, !.from = sent.tree]
        BY <1>1, <3>2
      <4> QED
        BY <1>2, <3>1, <4>1 DEF TopicStates
    <3>3. CASE topic # sent
      BY <1>1, <1>2, <3>3
    <3> QED
      BY <3>2, <3>3
  <2> QED
    BY <1>1, <1>8, <2>1, <2>2 DEF ImpTyped
<1>6. BranchesLeft'
  <2>1. LeftTrunkAt(topic)'
    <3>1. CASE topic = sent
      BY <1>1, <1>2, <3>1 DEF LeftTrunkAt, TopicStates
    <3>2. CASE topic # sent
      BY <1>1, <1>2, <3>2 DEF ImpInv, BranchesLeft, LeftTrunkAt, TopicStates
    <3> QED
      BY <3>1, <3>2
  <2> QED
    BY <1>1, <2>1 DEF BranchesLeft
<1>7. VerdictHolds'
  BY <1>1 DEF VerdictHolds
<1>9. StaysGreen
  <2> SUFFICES ASSUME NEW p \in Packages, GatesPass(p, trunk.tree)
               PROVE  GatesPass(p, trunk'.tree)
    BY DEF StaysGreen
  <2>1. trunk'.tree = sent.tree
    BY <1>1
  <2>2. CASE Facts(p, trunk.tree) = Facts(p, sent.tree)
    BY <2>1, <2>2 DEF GatesPass
  <2>3. CASE p \in Covered(sent.from, sent.tree)
    BY <1>1, <2>1, <2>3 DEF ImpInv, VerdictHolds
  <2> QED
    BY <1>3, <2>2, <2>3
<1> QED
  BY <1>5, <1>6, <1>7, <1>8, <1>9 DEF ImpInv

LEMMA EditTopicStep == ASSUME ImpInv, EditTopic PROVE ImpInv' /\ StaysGreen
<1>0. PICK f \in Files : \E v \in Versions[f] : topic' = [topic EXCEPT !.tree[f] = v]
  BY DEF EditTopic
<1>1. PICK v \in Versions[f] : topic' = [topic EXCEPT !.tree[f] = v]
  BY <1>0
<1>2. UNCHANGED <<trunk, sent, verdict, runs, current, missed>>
  BY DEF EditTopic
<1>3. topic \in TopicStates /\ [topic.tree EXCEPT ![f] = v] \in Trees
  BY TreesEdit DEF ImpInv, ImpTyped, TopicStates
<1>4. topic' = [topic EXCEPT !.tree = [topic.tree EXCEPT ![f] = v]]
  BY <1>1
<1>5. topic' \in TopicStates /\ topic'.over = topic.over /\ topic'.from = topic.from
  BY <1>3, <1>4 DEF TopicStates
<1>6. ImpTyped'
  BY <1>2, <1>5 DEF ImpInv, ImpTyped
<1>7. BranchesLeft'
  BY <1>2, <1>5 DEF ImpInv, BranchesLeft, LeftTrunkAt
<1>8. VerdictHolds' /\ AllJudged' /\ StaysGreen
  BY <1>2 DEF ImpInv, VerdictHolds, AllJudged, NothingUnjudged, StaysGreen
<1> QED
  BY <1>6, <1>7, <1>8 DEF ImpInv

LEMMA RebaseTopicStep == ASSUME ImpInv, RebaseTopic PROVE ImpInv' /\ StaysGreen
<1> DEFINE tree == [f \in Files |-> IF topic.tree[f] # topic.from[f] THEN topic.tree[f]
                                     ELSE trunk.tree[f]]
<1>1. topic' = [tree |-> tree, over |-> trunk.at, from |-> trunk.tree]
      /\ UNCHANGED <<trunk, sent, verdict, runs, current, missed>>
  BY DEF RebaseTopic
<1>2. tree \in Trees /\ trunk.tree \in Trees /\ trunk.at \in Nat
  BY TreesMix DEF ImpInv, ImpTyped, TopicStates
<1> HIDE DEF tree
<1>3. ImpTyped'
  BY <1>1, <1>2 DEF ImpInv, ImpTyped, TopicStates
<1>4. BranchesLeft'
  BY <1>1, <1>2 DEF ImpInv, BranchesLeft, LeftTrunkAt
<1>5. VerdictHolds' /\ AllJudged' /\ StaysGreen
  BY <1>1 DEF ImpInv, VerdictHolds, AllJudged, NothingUnjudged, StaysGreen
<1> QED
  BY <1>3, <1>4, <1>5 DEF ImpInv

\* A branch that left the base is behind it once the base moves.
LEMMA BehindAfter ==
  ASSUME ImpInv, trunk' \in [tree : Trees, at : Nat], trunk'.at = trunk.at + 1, topic' = topic,
         sent' \in {sent, NotSent}
  PROVE  BranchesLeft'
<1>1. trunk.at \in Nat /\ topic.over \in Nat /\ (sent # NotSent => sent.over \in Nat)
  BY DEF ImpInv, ImpTyped, TopicStates
<1> QED
  BY <1>1 DEF ImpInv, BranchesLeft, LeftTrunkAt

LEMMA MergeByHandStep == ASSUME ImpInv, MergeByHand PROVE ImpInv' /\ StaysGreen
<1> DEFINE tree == [f \in Files |-> IF sent.tree[f] # sent.from[f] THEN sent.tree[f]
                                     ELSE trunk.tree[f]]
<1>1. /\ sent # NotSent /\ ~(verdict = "passed" /\ sent.over = trunk.at) /\ Pushed(tree)
      /\ sent' = NotSent /\ verdict' = "none" /\ topic' = topic
  BY DEF MergeByHand
<1>2. tree \in Trees
  BY <1>1, TreesMix DEF ImpInv, ImpTyped, TopicStates
<1> HIDE DEF tree
<1>3. /\ trunk' \in [tree : Trees, at : Nat] /\ trunk'.at = trunk.at + 1
      /\ current' \in SUBSET Packages /\ missed' \in SUBSET Packages /\ AllJudged'
  BY <1>1, <1>2, PushedKeeps
<1>4. ImpTyped'
  BY <1>1, <1>3 DEF ImpInv, ImpTyped
<1>5. BranchesLeft'
  BY <1>1, <1>3, BehindAfter
<1>6. VerdictHolds' /\ StaysGreen
  BY <1>1 DEF VerdictHolds, StaysGreen
<1> QED
  BY <1>3, <1>4, <1>5, <1>6 DEF ImpInv

LEMMA PushDirectlyStep == ASSUME ImpInv, PushDirectly PROVE ImpInv' /\ StaysGreen
<1>0. PICK f \in Files : \E v \in Versions[f] : Pushed([trunk.tree EXCEPT ![f] = v])
  BY DEF PushDirectly
<1>1. PICK v \in Versions[f] : Pushed([trunk.tree EXCEPT ![f] = v])
  BY <1>0
<1>2. UNCHANGED <<topic, sent, verdict>>
  BY DEF PushDirectly
<1>3. [trunk.tree EXCEPT ![f] = v] \in Trees
  BY TreesEdit DEF ImpInv, ImpTyped
<1>4. /\ trunk' \in [tree : Trees, at : Nat] /\ trunk'.at = trunk.at + 1
      /\ current' \in SUBSET Packages /\ missed' \in SUBSET Packages /\ AllJudged'
  BY <1>1, <1>3, PushedKeeps
<1>5. ImpTyped'
  BY <1>2, <1>4 DEF ImpInv, ImpTyped
<1>6. BranchesLeft'
  BY <1>2, <1>4, BehindAfter
<1>7. VerdictHolds' /\ StaysGreen
  BY <1>2 DEF ImpInv, VerdictHolds, StaysGreen
<1> QED
  BY <1>4, <1>5, <1>6, <1>7 DEF ImpInv

\* A force push: what CI does not compare is hidden.
LEMMA ForcedKeeps ==
  ASSUME ImpInv, NEW parent \in Trees, NEW tree \in Trees, Forced(parent, tree)
  PROVE  /\ trunk' \in [tree : Trees, at : Nat] /\ trunk'.at = trunk.at + 1
         /\ current' \in SUBSET Packages /\ missed' \in SUBSET Packages
         /\ AllJudged'
<1> DEFINE run == [before |-> parent, after |-> tree]
           H   == {p \in Packages : /\ Facts(p, parent) # Facts(p, trunk.tree)
                                    /\ Facts(p, parent) = Facts(p, tree)}
<1>1. MoveTrunk(tree, {}, {run}, H)
  BY DEF Forced
<1>2. run.before = parent /\ run.after = tree
  OBVIOUS
<1> HIDE DEF run
<1>3. \A p \in Packages : Facts(p, parent) # Facts(p, tree) => p \in Covered(run.before, run.after)
  BY <1>2, FactsCovered
<1>4. \A p \in Packages : Facts(p, trunk.tree) # Facts(p, tree) =>
        \/ p \in {} \cup H
        \/ \E one \in {run} : p \in Covered(one.before, one.after) /\ Facts(p, one.after) = Facts(p, tree)
  <2> SUFFICES ASSUME NEW p \in Packages, Facts(p, trunk.tree) # Facts(p, tree), p \notin H
               PROVE  p \in Covered(run.before, run.after) /\ Facts(p, run.after) = Facts(p, tree)
    OBVIOUS
  <2>1. Facts(p, parent) # Facts(p, tree)
    OBVIOUS
  <2> QED
    BY <1>2, <1>3, <2>1
<1>5. {} \in SUBSET Packages /\ H \in SUBSET Packages
  OBVIOUS
<1> HIDE DEF H
<1>6. /\ trunk' \in [tree : Trees, at : Nat] /\ trunk' = [tree |-> tree, at |-> trunk.at + 1]
      /\ current' \in SUBSET Packages /\ missed' \in SUBSET Packages
      /\ AllJudged'
  BY <1>1, <1>4, <1>5, MoveKeeps
<1> QED
  BY <1>6

LEMMA ForcePushStep == ASSUME ImpInv, ForcePush PROVE ImpInv' /\ StaysGreen
<1>0. PICK f \in Files : \E v \in Versions[f] : \E g \in Files : \E w \in Versions[g] :
        Forced([trunk.tree EXCEPT ![f] = v], [[trunk.tree EXCEPT ![f] = v] EXCEPT ![g] = w])
  BY DEF ForcePush
<1>1. PICK v \in Versions[f] : \E g \in Files : \E w \in Versions[g] :
        Forced([trunk.tree EXCEPT ![f] = v], [[trunk.tree EXCEPT ![f] = v] EXCEPT ![g] = w])
  BY <1>0
<1> DEFINE parent == [trunk.tree EXCEPT ![f] = v]
<1>2. parent \in Trees
  BY TreesEdit DEF ImpInv, ImpTyped
<1>3. \E g \in Files : \E w \in Versions[g] : Forced(parent, [parent EXCEPT ![g] = w])
  BY <1>1
<1> HIDE DEF parent
<1>4. PICK g \in Files : \E w \in Versions[g] : Forced(parent, [parent EXCEPT ![g] = w])
  BY <1>3
<1>5. PICK w \in Versions[g] : Forced(parent, [parent EXCEPT ![g] = w])
  BY <1>4
<1>6. [parent EXCEPT ![g] = w] \in Trees
  BY <1>2, TreesEdit
<1>7. UNCHANGED <<topic, sent, verdict>>
  BY DEF ForcePush
<1>8. /\ trunk' \in [tree : Trees, at : Nat] /\ trunk'.at = trunk.at + 1
      /\ current' \in SUBSET Packages /\ missed' \in SUBSET Packages /\ AllJudged'
  BY <1>2, <1>5, <1>6, ForcedKeeps
<1>9. ImpTyped'
  BY <1>7, <1>8 DEF ImpInv, ImpTyped
<1>10. BranchesLeft'
  BY <1>7, <1>8, BehindAfter
<1>11. VerdictHolds' /\ StaysGreen
  BY <1>7 DEF ImpInv, VerdictHolds, StaysGreen
<1> QED
  BY <1>8, <1>9, <1>10, <1>11 DEF ImpInv

LEMMA TrunkCheckedStep == ASSUME ImpInv, TrunkChecked PROVE ImpInv' /\ StaysGreen
<1>1. PICK done \in runs : runs' = runs \ {done} /\ current' = current \cup Awaiting({done})
  BY DEF TrunkChecked
<1>2. UNCHANGED <<trunk, topic, sent, verdict, missed>>
  BY DEF TrunkChecked
<1>3. Awaiting({done}) \in SUBSET Packages
  BY DEF Awaiting
<1>4. ImpTyped'
  BY <1>1, <1>2, <1>3 DEF ImpInv, ImpTyped
<1>5. BranchesLeft' /\ VerdictHolds' /\ StaysGreen
  BY <1>2 DEF ImpInv, BranchesLeft, LeftTrunkAt, VerdictHolds, StaysGreen
<1>6. AllJudged'
  <2> SUFFICES ASSUME NEW p \in Packages, p \notin current' \cup missed'
               PROVE  \E run \in runs' : p \in Covered(run.before, run.after)
                                         /\ Facts(p, run.after) = Facts(p, trunk'.tree)
    BY DEF AllJudged, NothingUnjudged
  <2>1. PICK run \in runs : p \in Covered(run.before, run.after)
                             /\ Facts(p, run.after) = Facts(p, trunk.tree)
    BY <1>1, <1>2 DEF ImpInv, AllJudged, NothingUnjudged
  <2>2. run # done
    BY <1>1, <2>1 DEF Awaiting
  <2> QED
    BY <1>1, <1>2, <2>1, <2>2
<1> QED
  BY <1>4, <1>5, <1>6 DEF ImpInv

LEMMA ImpStepInv == ImpInv /\ [ImpactNext]_impVars => ImpInv' /\ StaysGreen
<1> SUFFICES ASSUME ImpInv, [ImpactNext]_impVars PROVE ImpInv' /\ StaysGreen
  OBVIOUS
<1>1. CASE UNCHANGED impVars
  <2>1. UNCHANGED <<trunk, topic, sent, verdict, runs, current, missed>>
    BY <1>1 DEF impVars
  <2> QED
    BY <2>1 DEF ImpInv, ImpTyped, BranchesLeft, LeftTrunkAt, VerdictHolds, AllJudged,
       NothingUnjudged, StaysGreen
<1>2. CASE ImpactNext
  BY <1>2, SendTopicStep, PullCheckedStep, MergeTopicStep, EditTopicStep, RebaseTopicStep,
     MergeByHandStep, PushDirectlyStep, ForcePushStep, TrunkCheckedStep DEF ImpactNext
<1> QED
  BY <1>1, <1>2

\* The packages a change leaves out need no check, for any packages, dependencies and
\* trees in which what a package's gates read is declared.
THEOREM ImpactStaysSafe == ImpactSpec => ImpactSafe
<1>1. ImpactSpec => []ImpInv /\ [][StaysGreen]_impVars
  BY ImpInitInv, ImpStepInv, PTL DEF ImpactSpec
<1>2. ImpInv => \A p \in Packages : NothingUnjudged(p)
  BY DEF ImpInv, AllJudged
<1>3. [StaysGreen]_impVars =>
        [\A p \in Packages :
           /\ sent # NotSent /\ sent' = NotSent /\ verdict = "passed" /\ sent.over = trunk.at
           /\ GatesPass(p, trunk.tree)
           => GatesPass(p, trunk'.tree)]_impVars
  BY DEF StaysGreen
<1> QED
  BY <1>1, <1>2, <1>3, PTL DEF ImpactSafe, MergesStayGreen

-----------------------------------------------------------------------------
(* The types of each part. *)

\* What GitHub would say of the pull request stays an answer of its types.
LEMMA PullsToggled ==
  ASSUME NEW p \in Pulls
  PROVE  /\ \A f \in {"strict", "behind", "queue", "threads", "owned"} : [p EXCEPT ![f] = ~p[f]] \in Pulls
         /\ \A c \in Checks : [p EXCEPT !.required = Toggled(p.required, c)] \in Pulls
         /\ \A m \in People : [p EXCEPT !.pushers = Toggled(p.pushers, m)] \in Pulls
         /\ \A cs \in [Checks -> CheckStates] : [p EXCEPT !.checks = cs] \in Pulls
<1>1. \A f \in {"strict", "behind", "queue", "threads", "owned"} : [p EXCEPT ![f] = ~p[f]] \in Pulls
  <2>1. [p EXCEPT !["strict"] = ~p["strict"]] \in Pulls
    BY DEF Pulls
  <2>2. [p EXCEPT !["behind"] = ~p["behind"]] \in Pulls
    BY DEF Pulls
  <2>3. [p EXCEPT !["queue"] = ~p["queue"]] \in Pulls
    BY DEF Pulls
  <2>4. [p EXCEPT !["threads"] = ~p["threads"]] \in Pulls
    BY DEF Pulls
  <2>5. [p EXCEPT !["owned"] = ~p["owned"]] \in Pulls
    BY DEF Pulls
  <2> QED
    BY <2>1, <2>2, <2>3, <2>4, <2>5
<1>2. \A c \in Checks : [p EXCEPT !.required = Toggled(p.required, c)] \in Pulls
  BY DEF Pulls, Toggled
<1>3. \A m \in People : [p EXCEPT !.pushers = Toggled(p.pushers, m)] \in Pulls
  BY DEF Pulls, Toggled
<1>4. \A cs \in [Checks -> CheckStates] : [p EXCEPT !.checks = cs] \in Pulls
  BY DEF Pulls
<1> QED
  BY <1>1, <1>2, <1>3, <1>4

AroundReview ==
  /\ edited \in BOOLEAN /\ judged \subseteq Revisions \X Verdicts
  /\ pullNow \in Pulls /\ reviewEvents \in 0..MaxReviewEvents

LEMMA AroundReviewInit == ReviewInit => AroundReview
<1> SUFFICES ASSUME ReviewInit PROVE AroundReview
  OBVIOUS
<1>1. pullNow \in Pulls
  BY DEF ReviewInit, Pulls, CheckStates
<1>2. edited = FALSE /\ judged = {} /\ reviewEvents = 0
  BY DEF ReviewInit
<1>3. 0 \in 0..MaxReviewEvents
  BY ReviewConstants
<1> QED
  BY <1>1, <1>2, <1>3 DEF AroundReview

LEMMA AroundReviewStep == ReviewInv /\ AroundReview /\ [ReviewNext]_reviewVars => AroundReview'
<1> SUFFICES ASSUME ReviewInv, AroundReview, [ReviewNext]_reviewVars PROVE AroundReview'
  OBVIOUS
<1>1. Event => reviewEvents' \in 0..MaxReviewEvents
  BY ReviewConstants DEF Event, AroundReview
<1>2. ASSUME NEW a \in Reviewers,
             StartReview(a) \/ EndReview(a) \/ KeepEarlier(a) \/ StoreReview(a) \/ KillReview(a)
      PROVE  AroundReview'
  <2>1. CASE StartReview(a) \/ KillReview(a)
    BY <2>1, <1>1 DEF StartReview, KillReview, AroundReview
  <2>2. CASE EndReview(a)
    <3>1. PICK answer \in Outcomes :
            judged' = judged \cup ({<<reviewing[a].rev, answer>>} \cap ({tip} \X Verdicts))
      BY <2>2 DEF EndReview
    <3>2. tip \in Revisions
      BY DEF ReviewInv, ReviewTyped
    <3>3. {<<reviewing[a].rev, answer>>} \cap ({tip} \X Verdicts) \subseteq Revisions \X Verdicts
      BY <3>2
    <3> QED
      BY <2>2, <3>1, <3>3 DEF EndReview, AroundReview
  <2>3. CASE KeepEarlier(a) \/ StoreReview(a)
    BY <2>3 DEF KeepEarlier, StoreReview, AroundReview
  <2> QED
    BY <1>2, <2>1, <2>2, <2>3
<1>3. CASE ReadPull \/ ReadPushers \/ ConfirmPull \/ ShippingNote \/ AdminMerge \/ AbandonShip
  BY <1>3 DEF ReadPull, ReadPushers, ConfirmPull, ShippingNote, AdminMerge, AbandonShip, AroundReview
<1>4. CASE MoveTip
  <2>1. [c \in Checks |-> "pending"] \in [Checks -> CheckStates]
    BY DEF CheckStates
  <2>2. pullNow' \in Pulls
    BY <1>4, <2>1, PullsToggled DEF MoveTip, AroundReview
  <2> QED
    BY <1>4, <1>1, <2>2 DEF MoveTip, AroundReview
<1>5. CASE EditTracked
  BY <1>5, <1>1 DEF EditTracked, AroundReview
<1>6. CASE CheckReports
  <2>1. PICK c \in Checks, s \in CheckStates : pullNow' = [pullNow EXCEPT !.checks[c] = s]
    BY <1>6 DEF CheckReports
  <2>2. pullNow' = [pullNow EXCEPT !.checks = [pullNow.checks EXCEPT ![c] = s]]
    BY <2>1
  <2>3. [pullNow.checks EXCEPT ![c] = s] \in [Checks -> CheckStates]
    BY DEF AroundReview, Pulls
  <2>4. pullNow' \in Pulls
    BY <2>2, <2>3, PullsToggled DEF AroundReview
  <2> QED
    BY <1>6, <2>4 DEF CheckReports, AroundReview
<1>7. CASE RulesChange
  <2>1. pullNow \in Pulls
    BY DEF AroundReview
  <2>2. pullNow' \in Pulls
    <3>1. ASSUME NEW f \in {"strict", "behind", "queue", "threads", "owned"},
                 pullNow' = [pullNow EXCEPT ![f] = ~@]
          PROVE  pullNow' \in Pulls
      <4>1. pullNow' = [pullNow EXCEPT ![f] = ~pullNow[f]]
        BY <3>1
      <4> QED
        BY <4>1, <2>1, PullsToggled
    <3>2. ASSUME NEW c \in Checks, pullNow' = [pullNow EXCEPT !.required = Toggled(@, c)]
          PROVE  pullNow' \in Pulls
      BY <3>2, <2>1, PullsToggled
    <3>3. ASSUME NEW m \in People, pullNow' = [pullNow EXCEPT !.pushers = Toggled(@, m)]
          PROVE  pullNow' \in Pulls
      BY <3>3, <2>1, PullsToggled
    <3> QED
      BY <1>7, <3>1, <3>2, <3>3 DEF RulesChange
  <2> QED
    BY <1>7, <1>1, <2>2 DEF RulesChange, AroundReview
<1>8. CASE UNCHANGED reviewVars
  BY <1>8 DEF reviewVars, AroundReview
<1> QED
  BY <1>2, <1>3, <1>4, <1>5, <1>6, <1>7, <1>8 DEF ReviewNext

\* The types of reviews, records and pull requests.
THEOREM ReviewTyping == ReviewSpec => []ReviewTypeOK
<1>1. ReviewInv /\ AroundReview => ReviewTypeOK
  <2> SUFFICES ASSUME ReviewInv, AroundReview PROVE ReviewTypeOK
    OBVIOUS
  <2>1. \A a \in Reviewers : reviewing[a] \in ReviewingAt
    BY DEF ReviewInv, ReviewTyped
  <2>2. shipment.at \in {"rest", "owners", "checks", "note", "merge"}
    BY DEF ReviewInv, ReviewTyped, ShipmentAt
  <2>3. tip \in Revisions /\ records \in [Revisions -> Outcomes \cup {Nothing0}]
    BY DEF ReviewInv, ReviewTyped
  <2> QED
    BY <2>1, <2>2, <2>3 DEF AroundReview, ReviewTypeOK, ReviewingAt
<1> QED
  BY ReviewInitInv, ReviewNextInv, AroundReviewInit, AroundReviewStep, <1>1, PTL DEF ReviewSpec

-----------------------------------------------------------------------------
LEMMA SentHeadsStep ==
  ShipInv /\ team \subseteq Heads /\ pushed \subseteq Heads /\ [ShipNext]_shipVars
    => team' \subseteq Heads /\ pushed' \subseteq Heads
<1> SUFFICES ASSUME ShipInv, team \subseteq Heads, pushed \subseteq Heads, [ShipNext]_shipVars
             PROVE  team' \subseteq Heads /\ pushed' \subseteq Heads
  OBVIOUS
<1>1. CASE PushPasses
  <2>1. pushing \in Heads
    BY <1>1 DEF PushPasses, ShipInv, ShipTyped
  <2> QED
    BY <1>1, <2>1 DEF PushPasses
<1>2. CASE TeammatePushes /\ UNCHANGED pushed
  <2>1. made + 1 \in Heads
    BY <1>2, ShippingConstants DEF TeammatePushes, NewCommit, Heads, ShipInv, ShipTyped
  <2> QED
    BY <1>2, <2>1 DEF TeammatePushes
<1>3. ShipAround => UNCHANGED <<team, pushed>> \/ (TeammatePushes /\ UNCHANGED pushed)
  BY DEF ShipAround, ShipKilled, shipWorld, Edit, CommitOrRebase, CommitElsewhere, Review,
     PersonMerges, BaseAdvances
<1>4. ShipWork => UNCHANGED <<team, pushed>> \/ PushPasses
  <2> SUFFICES ASSUME ShipWork PROVE UNCHANGED <<team, pushed>> \/ PushPasses
    OBVIOUS
  <2>1. CASE PrePush
    BY <2>1 DEF PrePush
  <2>2. CASE OpenPull /\ UNCHANGED <<checks, pushing, pushed, tested, green, ship>>
    BY <2>2 DEF OpenPull
  <2>3. ASSUME NEW stage, StartShip(stage) PROVE UNCHANGED <<team, pushed>>
    BY <2>3 DEF StartShip, shipWorld
  <2>4. CASE ReadyState \/ DeliveredState \/ ReadChecks \/ Confirm \/ PassReported
    BY <2>4 DEF ReadyState, DeliveredState, ReadChecks, Confirm, PassReported, shipWorld
  <2>5. CASE FirstGuard \/ ReadRemote \/ SecondGuard
    BY <2>5 DEF FirstGuard, SecondGuard, Guard, ReadRemote, shipWorld
  <2>6. CASE MergeShipped \/ DeleteRemote \/ RemoveTree \/ DeleteBranch
    BY <2>6 DEF MergeShipped, DeleteRemote, RemoveTree, DeleteBranch
  <2>7. ASSUME NEW c, CheckRuns(c) PROVE UNCHANGED <<team, pushed>>
    BY <2>7 DEF CheckRuns
  <2>8. CASE BaseChecks
    BY <2>8 DEF BaseChecks
  <2> QED
    BY <2>1, <2>2, <2>3, <2>4, <2>5, <2>6, <2>7, <2>8 DEF ShipWork
<1>5. CASE UNCHANGED shipVars
  BY <1>5 DEF shipVars, shipWorld
<1> QED
  BY <1>1, <1>2, <1>3, <1>4, <1>5 DEF ShipNext

\* The types of commits, refs, checks and the pull request.
THEOREM ShippingTyping == ShipSpec => []ShipTypeOK
<1> DEFINE Sent == team \subseteq Heads /\ pushed \subseteq Heads
<1>1. ShipInit => Sent
  BY DEF ShipInit
<1>2. ShipInv /\ Sent /\ [ShipNext]_shipVars => Sent'
  BY SentHeadsStep
<1>3. ShipInv /\ Sent => ShipTypeOK
  BY DEF ShipInv, ShipTyped, ShipTypeOK
<1> HIDE DEF Sent
<1> QED
  BY ShipInitInv, ShipNextInv, <1>1, <1>2, <1>3, PTL DEF ShipSpec

-----------------------------------------------------------------------------
LEMMA LogIsBounded == SesInv /\ Len(log) <= MaxCommits /\ [SesNext]_sesVars => Len(log') <= MaxCommits
<1> SUFFICES ASSUME SesInv, Len(log) <= MaxCommits, [SesNext]_sesVars PROVE Len(log') <= MaxCommits
  OBVIOUS
<1>1. \A e : Len(log) < MaxCommits /\ log' = Append(log, e) => Len(log') <= MaxCommits
  BY SessionConstants DEF SesInv, SesTyped
<1>2. CASE UNCHANGED log
  BY <1>2
<1>3. CASE InstallCommits
  BY <1>1, <1>3 DEF InstallCommits
<1>4. CASE CommitAll
  BY <1>1, <1>4 DEF CommitAll
<1>5. SesNext => UNCHANGED log \/ InstallCommits \/ CommitAll
  <2>1. RecordSession \/ StopScope \/ ComparePass \/ RunCheck \/ ReadShown \/ ReadForPass
          \/ Truncate \/ WriteState \/ TurnEnds => UNCHANGED log
    BY DEF RecordSession, StopScope, ComparePass, RunCheck, ReadShown, ReadForPass, Truncate,
       WriteState, TurnEnds
  <2>2. RebaseReads \/ RebaseTruncates \/ RebaseWrites \/ EditFiles \/ Push \/ StopKilled
          \/ InstallWrites => UNCHANGED log
    BY DEF RebaseReads, RebaseTruncates, RebaseWrites, EditFiles, Push, StopKilled, InstallWrites
  <2>3. \A claim : StopBegins(claim) => UNCHANGED log
    BY DEF StopBegins
  <2>4. \A h : FailureReads(h) \/ FailureWrites(h) => UNCHANGED log
    BY DEF FailureReads, FailureWrites
  <2> QED
    BY <2>1, <2>2, <2>3, <2>4, Zenon DEF SesNext
<1>6. CASE UNCHANGED sesVars
  BY <1>2, <1>6 DEF sesVars
<1> QED
  BY <1>2, <1>3, <1>4, <1>5, <1>6

\* The types of commits, session files and of what the Stop hook keeps.
THEOREM SessionsTyping == SesSpec => []SesTypeOK
<1> DEFINE Bounded == Len(log) <= MaxCommits
<1>1. SesInit => Bounded
  BY SessionConstants DEF SesInit
<1>2. SesSpec => []SesInv
  BY SesInitInv, SesStepInv, PTL DEF SesSpec
<1>3. SesInv /\ Len(log) <= MaxCommits => SesTypeOK
  <2> SUFFICES ASSUME SesInv, Len(log) <= MaxCommits PROVE SesTypeOK
    OBVIOUS
  <2>1. Len(log) \in 1..MaxCommits
    BY SessionConstants DEF SesInv, SesTyped
  <2>2. state \notin {Gone, Torn} => state.base \in 1..Len(log) /\ DOMAIN state.dirty \subseteq Paths
    BY DEF SesInv, GoodRecords, GoodRecord
  <2> QED
    BY <2>1, <2>2 DEF SesInv, SesTyped, StopTyped, SesTypeOK
<1>4. SesInv /\ Bounded /\ [SesNext]_sesVars => Bounded'
  BY LogIsBounded
<1>5. SesInv /\ Bounded => SesTypeOK
  BY <1>3
<1> HIDE DEF Bounded
<1> QED
  BY <1>1, <1>2, <1>4, <1>5, PTL DEF SesSpec

-----------------------------------------------------------------------------
LEMMA PlanTreesEdited ==
  ASSUME NEW t \in PlanTrees
  PROVE  /\ \A p \in Plans, text \in PlanTexts \cup {Absent} : [t EXCEPT !.plan[p] = text] \in PlanTrees
         /\ \A f \in Code : \A n \in LineCounts[f] : [t EXCEPT !.lines[f] = n] \in PlanTrees
         /\ \A r \in Entries : [t EXCEPT !.r = r] \in PlanTrees
         /\ \A d \in {"none", "accepted"} : [t EXCEPT !.adr = d] \in PlanTrees
         /\ \A h \in Installations : [t EXCEPT !.he = h] \in PlanTrees
<1> DEFINE Records == [plan : [Plans -> PlanTexts \cup {Absent}], lines : [Code -> {Absent} \cup 0..2],
                       r : Entries, adr : {"none", "accepted"}, he : Installations]
<1>1. t \in Records /\ \A f \in Code : t.lines[f] \in LineCounts[f]
  BY DEF PlanTrees
<1>2. \A u \in Records : (\A f \in Code : u.lines[f] \in LineCounts[f]) => u \in PlanTrees
  BY DEF PlanTrees
<1>3. ASSUME NEW p \in Plans, NEW text \in PlanTexts \cup {Absent}
      PROVE  [t EXCEPT !.plan[p] = text] \in PlanTrees
  <2>1. [t EXCEPT !.plan[p] = text] \in Records
    BY <1>1
  <2>2. [t EXCEPT !.plan[p] = text].lines = t.lines
    BY <1>1
  <2> HIDE DEF Records
  <2> QED
    BY <1>1, <1>2, <2>1, <2>2
<1>4. ASSUME NEW f \in Code, NEW n \in LineCounts[f]
      PROVE  [t EXCEPT !.lines[f] = n] \in PlanTrees
  <2>1. n \in {Absent} \cup 0..2
    BY DEF LineCounts, Code, Sources
  <2>2. [t EXCEPT !.lines[f] = n] \in Records
    BY <1>1, <2>1
  <2>3. \A g \in Code : [t EXCEPT !.lines[f] = n].lines[g] = IF g = f THEN n ELSE t.lines[g]
    BY <1>1
  <2> HIDE DEF Records
  <2> QED
    BY <1>1, <1>2, <2>2, <2>3
<1>5. ASSUME NEW r \in Entries PROVE [t EXCEPT !.r = r] \in PlanTrees
  <2>1. [t EXCEPT !.r = r] \in Records /\ [t EXCEPT !.r = r].lines = t.lines
    BY <1>1
  <2> HIDE DEF Records
  <2> QED
    BY <1>1, <1>2, <2>1
<1>6. ASSUME NEW d \in {"none", "accepted"} PROVE [t EXCEPT !.adr = d] \in PlanTrees
  <2>1. [t EXCEPT !.adr = d] \in Records /\ [t EXCEPT !.adr = d].lines = t.lines
    BY <1>1
  <2> HIDE DEF Records
  <2> QED
    BY <1>1, <1>2, <2>1
<1>7. ASSUME NEW h \in Installations PROVE [t EXCEPT !.he = h] \in PlanTrees
  <2>1. [t EXCEPT !.he = h] \in Records /\ [t EXCEPT !.he = h].lines = t.lines
    BY <1>1
  <2> HIDE DEF Records
  <2> QED
    BY <1>1, <1>2, <2>1
<1> QED
  BY <1>3, <1>4, <1>5, <1>6, <1>7

LEMMA OneEditTyped == ASSUME NEW t \in PlanTrees PROVE OneEdit(t) \subseteq PlanTrees
<1>1. ASSUME NEW r \in Entries
      PROVE  [t EXCEPT !.r = r, !.lines["t"] = IF r = "check" THEN 2 ELSE Min({@, 1}),
                       !.lines["rule"] = IF r = "check" THEN 1 ELSE 0] \in PlanTrees
  <2> DEFINE n == IF r = "check" THEN 2 ELSE Min({t.lines["t"], 1})
             m == IF r = "check" THEN 1 ELSE 0
  <2>1. t.lines["t"] \in {0, 1, 2}
    BY DEF PlanTrees, LineCounts, Code, Sources
  <2>2. Min({t.lines["t"], 1}) \in {0, 1}
    BY <2>1 DEF Min
  <2>3. n \in LineCounts["t"] /\ m \in LineCounts["rule"]
    BY <2>2 DEF LineCounts, Code, Sources
  <2> HIDE DEF n, m
  <2>4. [t EXCEPT !.r = r, !.lines["t"] = IF r = "check" THEN 2 ELSE Min({@, 1}),
                  !.lines["rule"] = IF r = "check" THEN 1 ELSE 0]
          = [[[t EXCEPT !.r = r] EXCEPT !.lines["t"] = n] EXCEPT !.lines["rule"] = m]
    BY DEF n, m
  <2>5. [t EXCEPT !.r = r] \in PlanTrees
    BY PlanTreesEdited
  <2>6. [[t EXCEPT !.r = r] EXCEPT !.lines["t"] = n] \in PlanTrees
    BY <2>3, <2>5, PlanTreesEdited DEF Code
  <2> QED
    BY <2>3, <2>4, <2>6, PlanTreesEdited DEF Code, Sources
<1> DEFINE Planned == UNION {{[t EXCEPT !.plan[p] = text] : text \in PlanTexts \cup {Absent}} : p \in Plans}
           Lined   == UNION {{[t EXCEPT !.lines[f] = n] : n \in LineCounts[f]} : f \in Code}
           Entered == {[t EXCEPT !.r = r, !.lines["t"] = IF r = "check" THEN 2 ELSE Min({@, 1}),
                                 !.lines["rule"] = IF r = "check" THEN 1 ELSE 0] : r \in Entries}
           Decided == {[t EXCEPT !.adr = d] : d \in {"none", "accepted"}}
           Updated == {[t EXCEPT !.he = h] : h \in Installations}
<1>2. OneEdit(t) = Planned \cup Lined \cup Entered \cup Decided \cup Updated
  BY Zenon DEF OneEdit
<1>3. /\ \A p \in Plans : \A text \in PlanTexts \cup {Absent} : [t EXCEPT !.plan[p] = text] \in PlanTrees
      /\ \A f \in Code : \A n \in LineCounts[f] : [t EXCEPT !.lines[f] = n] \in PlanTrees
  BY PlanTreesEdited
<1>4. Planned \subseteq PlanTrees
  <2> SUFFICES ASSUME NEW u \in Planned PROVE u \in PlanTrees
    OBVIOUS
  <2>1. \E p \in Plans : \E text \in PlanTexts \cup {Absent} : u = [t EXCEPT !.plan[p] = text]
    OBVIOUS
  <2> QED
    BY <1>3, <2>1, Zenon
<1>5. Lined \subseteq PlanTrees
  <2> SUFFICES ASSUME NEW u \in Lined PROVE u \in PlanTrees
    OBVIOUS
  <2>1. \E f \in Code : \E n \in LineCounts[f] : u = [t EXCEPT !.lines[f] = n]
    OBVIOUS
  <2> QED
    BY <1>3, <2>1, Zenon
<1>6. Entered \subseteq PlanTrees
  BY <1>1, Zenon
<1>7. Decided \subseteq PlanTrees /\ Updated \subseteq PlanTrees
  BY PlanTreesEdited
<1> HIDE DEF Planned, Lined, Entered, Decided, Updated
<1> QED
  BY <1>2, <1>4, <1>5, <1>6, <1>7

LEMMA MergeTyped ==
  ASSUME NEW o \in PlanTrees, NEW a \in PlanTrees, NEW b \in PlanTrees
  PROVE  MergedTree(o, a, b) \in PlanTrees
<1>1. \A x, y, z : Either(x, y, z) \in {y, z}
  BY DEF Either
<1>2. MergedTree(o, a, b).plan \in [Plans -> PlanTexts \cup {Absent}]
  BY <1>1 DEF MergedTree, PlanTrees
<1>3. \A f \in Code : Either(o.lines[f], a.lines[f], b.lines[f]) \in ({Absent} \cup 0..2) \cap LineCounts[f]
  BY <1>1 DEF PlanTrees
<1>4. MergedTree(o, a, b).lines = [f \in Code |-> Either(o.lines[f], a.lines[f], b.lines[f])]
  BY DEF MergedTree
<1>5. /\ Either(o.r, a.r, b.r) \in Entries /\ Either(o.adr, a.adr, b.adr) \in {"none", "accepted"}
      /\ Either(o.he, a.he, b.he) \in Installations
  BY <1>1 DEF PlanTrees
<1> HIDE DEF Code
<1> QED
  BY <1>2, <1>3, <1>4, <1>5 DEF MergedTree, PlanTrees

LEMMA PlansTypeInit == PlansInit => PlansTypeOK
<1> SUFFICES ASSUME PlansInit PROVE PlansTypeOK
  OBVIOUS
<1>1. FirstTree \in PlanTrees
  <2>1. \A f \in Code : FirstTree.lines[f] \in LineCounts[f] /\ FirstTree.lines[f] \in 0..2
    BY DEF FirstTree, LineCounts, Code, Sources
  <2>2. FirstTree.lines \in [Code -> {Absent} \cup 0..2]
    BY <2>1 DEF FirstTree
  <2>3. FirstTree.plan \in [Plans -> PlanTexts \cup {Absent}]
    BY DEF FirstTree
  <2> HIDE DEF Code
  <2> QED
    BY <2>1, <2>2, <2>3 DEF FirstTree, PlanTrees, Entries, Installations
<1>2. 0 \in 0..MaxPlanEdits
  BY PlanConstants
<1> HIDE DEF PlanTrees
<1> QED
  BY <1>1, <1>2 DEF PlansInit, PlansTypeOK

LEMMA PlansTypeStep == PlansTypeOK /\ [PlansNext]_planVars => PlansTypeOK'
<1> SUFFICES ASSUME PlansTypeOK, [PlansNext]_planVars PROVE PlansTypeOK'
  OBVIOUS
<1>0. work \in PlanTrees /\ next \in PlanTrees /\ release \in PlanTrees /\ branched \in PlanTrees
  BY DEF PlansTypeOK
<1>1. CountEdit => planEdits' \in 0..MaxPlanEdits
  <2> SUFFICES ASSUME CountEdit PROVE planEdits' \in 0..MaxPlanEdits
    OBVIOUS
  <2>1. planEdits \in 0..MaxPlanEdits /\ planEdits < MaxPlanEdits /\ planEdits' = planEdits + 1
    BY DEF CountEdit, PlansTypeOK
  <2> QED
    BY <2>1, PlanConstants
<1>2. \A t : Landing(t) \in {"planning", "update", "work", "reverting", "behind"}
  BY DEF Landing
<1>3. CASE EditTree
  <2>1. work' \in PlanTrees
    BY <1>0, <1>3, OneEditTyped DEF EditTree
  <2> QED
    BY <1>0, <1>1, <1>3, <2>1 DEF EditTree, PlansTypeOK
<1>4. CASE LandFeature
  BY <1>0, <1>2, <1>4 DEF LandFeature, PlansTypeOK
<1>5. CASE OthersLand
  <2>1. next' \in PlanTrees /\ lastLanding' \in {"planning", "update", "work", "reverting", "behind"}
    BY <1>0, <1>2, <1>5, OneEditTyped DEF OthersLand
  <2> QED
    BY <1>0, <1>1, <1>5, <2>1 DEF OthersLand, PlansTypeOK
<1>6. CASE RebaseWork
  BY <1>0, <1>6, MergeTyped DEF RebaseWork, PlansTypeOK
<1>7. CASE LandBehind
  BY <1>0, <1>7, MergeTyped DEF LandBehind, PlansTypeOK
<1>8. CASE ReleaseNext
  BY <1>0, <1>8 DEF ReleaseNext, PlansTypeOK
<1>9. CASE UNCHANGED planVars
  BY <1>9 DEF planVars, PlansTypeOK
<1> QED
  BY <1>3, <1>4, <1>5, <1>6, <1>7, <1>8, <1>9 DEF PlansNext

\* The types of plans, sources, requirements and decisions in the four trees.
THEOREM PlansTyping == PlansSpec => []PlansTypeOK
BY PlansTypeInit, PlansTypeStep, PTL DEF PlansSpec

\* The types of the base branch, the task branch and the verdict on it.
THEOREM ImpactTyping == ImpactSpec => []ImpactTypeOK
<1>1. ImpInv => ImpactTypeOK
  BY DEF ImpInv, ImpTyped, TopicStates, ImpactTypeOK
<1> QED
  BY ImpInitInv, ImpStepInv, <1>1, PTL DEF ImpactSpec
==============================================================================
