-------------------------- MODULE ReviewLaneProofs --------------------------
(***************************************************************************)
(* What ReviewLane keeps for every number of heads and groups.  Only a     *)
(* review is open to the lane, so nobody moves the job under it, and what  *)
(* it decides on is the group of the job at the head of the job.  A job    *)
(* that is reviewed, or will be again when it is resumed, carries a head   *)
(* that was validated or that it kept from before.                         *)
(***************************************************************************)
EXTENDS ReviewLane, TLAPS

\* The lane that is not free works on a group of a job in review.
LaneHoldsTheReview ==
    ~At("free") =>
        /\ job.state = "reviewing" /\ lane.group # NoGroup
        /\ lane.at \in {"look", "decide", "recover", "correct"} => lane.group = job.group
        /\ lane.at = "decide" => groups[job.group].head = job.head

\* Where a review goes on or may be taken up again.
Reviewed ==
    \/ job.state \in {"reviewing", "awaiting_merge_approval", "complete", "recovering_worker"}
    \/ job.resume = "reviewing"

ReviewsAreProven == Reviewed => proof.kept \/ proof.head = job.head

\* What a dirty worktree publishes has a number (the bound of the model).
RoomToPublish == ~tree.clean => tree.head < MaxHeads

ReviewInv ==
    /\ ReviewTypeOK
    /\ RoomToPublish
    /\ LaneHoldsTheReview
    /\ ReviewsAreProven
    /\ OfferedHeadIsProven
    /\ OneThreadPerLens

LEMMA ReviewFacts ==
    /\ NoHead \notin Heads /\ NoGroup \notin Groups /\ 1 \in Heads
    /\ Heads \subseteq Int
    /\ \A h \in Heads : h < MaxHeads => h + 1 \in Heads
    /\ "quality" \in Lenses /\ "risk" \in Lenses
    /\ \A lenses : First(lenses) \in Lenses
    /\ NewAttempt \in Attempt /\ NewAttempt.started = 0
    /\ Unproven \in [head : Heads \cup {NoHead}, kept : BOOLEAN]
    /\ Free \in Lanes /\ Free.at = "free"
BY ReviewAssumption
   DEF NoHead, Heads, NoGroup, Lenses, First, NewAttempt, Attempt, Unproven, Free, Lanes,
       Stored, Pending, Failure, Invalid

LEMMA NewGroupType ==
    ASSUME NEW head \in Heads \cup {NoHead}
    PROVE  /\ NewGroup(head) \in Group /\ NewGroup(head).head = head
           /\ \A l \in Lenses : NewGroup(head).lens[l].started <= 1
BY ReviewFacts DEF NewGroup, Group, Lenses

LEMMA EffectType ==
    ASSUME NEW kind \in {"resolve", "validate", "spawn", "recover"}, NEW g \in Groups \cup {NoGroup},
           kind = "spawn" => g # NoGroup
    PROVE  Effect(kind, g) \in Effects
BY DEF Effect, Effects

\* The moves of the state machine keep types; what they do to the job.
LEMMA GoesTypes ==
    ASSUME ReviewTypeOK, NEW state \in JobStates, NEW head \in Heads \cup {NoHead},
           NEW done, NEW begun \in SUBSET Effects, Goes(state, head, done, begun),
           state \in HeadStates => head # NoHead
    PROVE  /\ job' \in Jobs /\ todo' \in SUBSET Effects
           /\ job'.state = state /\ job'.resume = "none" /\ job'.head = head
           /\ job'.group = job.group
<1>1. job \in Jobs /\ todo \in SUBSET Effects
  BY DEF ReviewTypeOK
<1>2. job' = [job EXCEPT !.state = state, !.resume = "none", !.head = head]
  BY DEF Goes
<1>3. todo' \in SUBSET Effects
  BY <1>1 DEF Goes
<1> QED
  BY <1>1, <1>2, <1>3 DEF Jobs

LEMMA StopsTypes ==
    ASSUME ReviewTypeOK, NEW state \in {"failed", "blocked"}, NEW resume \in JobStates \cup {"none"},
           NEW done, Stops(state, resume, done)
    PROVE  /\ job' \in Jobs /\ todo' \in SUBSET Effects
           /\ job'.state = state /\ job'.resume = resume /\ job'.head = job.head
           /\ job'.group = job.group
<1>1. job \in Jobs /\ todo \in SUBSET Effects
  BY DEF ReviewTypeOK
<1>2. job' = [job EXCEPT !.state = state, !.resume = resume]
  BY DEF Stops
<1>3. todo' \in SUBSET Effects
  BY <1>1 DEF Stops
<1> QED
  BY <1>1, <1>2, <1>3 DEF Jobs, JobStates, HeadStates

LEMMA ReviewsTypes ==
    ASSUME ReviewTypeOK, OneThreadPerLens, NEW group \in Groups \cup {NoGroup}, NEW done,
           Reviews(group, done)
    PROVE  /\ job' \in Jobs /\ todo' \in SUBSET Effects /\ groups' \in [Groups -> Group]
           /\ job'.state = "reviewing" /\ job'.resume = "none" /\ job'.head = job.head
           /\ OneThreadPerLens'
<1>1. PICK g \in Groups :
          /\ job' = [job EXCEPT !.state = "reviewing", !.resume = "none", !.group = group]
          /\ todo' = (todo \ done) \cup {Effect("spawn", g)}
          /\ groups' = [h \in Groups |-> IF h = g THEN NewGroup(job.head)
                                         ELSE IF Named(h) THEN groups[h] ELSE NewGroup(NoHead)]
  BY DEF Reviews
<1>2. job \in Jobs /\ todo \in SUBSET Effects /\ groups \in [Groups -> Group]
  BY DEF ReviewTypeOK
<1>3. job.head \in Heads \cup {NoHead}
  BY <1>2 DEF Jobs
<1>4. /\ job' \in Jobs
      /\ job'.state = "reviewing" /\ job'.resume = "none" /\ job'.head = job.head
  BY <1>1, <1>2 DEF Jobs, JobStates, HeadStates
<1>5. todo' \in SUBSET Effects
  BY <1>1, <1>2, EffectType, ReviewFacts
<1>6. NewGroup(job.head) \in Group /\ NewGroup(NoHead) \in Group
  BY <1>3, NewGroupType
<1>7. groups' \in [Groups -> Group]
  BY <1>1, <1>2, <1>6
<1>8. ASSUME NEW h \in Groups, NEW l \in Lenses
      PROVE  groups'[h].lens[l].started <= 1
  <2>1. NewGroup(job.head).lens[l].started <= 1 /\ NewGroup(NoHead).lens[l].started <= 1
    BY <1>3, NewGroupType
  <2>2. groups[h].lens[l].started <= 1
    BY DEF OneThreadPerLens
  <2> QED
    BY <1>1, <2>1, <2>2
<1> QED
  BY <1>4, <1>5, <1>7, <1>8 DEF OneThreadPerLens

\* A write of one attempt.
LEMMA AttemptWritten ==
    ASSUME ReviewTypeOK, OneThreadPerLens, NEW g \in Groups, NEW l \in Lenses,
           NEW attempt \in Attempt, attempt.started <= 1,
           groups' = [groups EXCEPT ![g].lens[l] = attempt]
    PROVE  /\ groups' \in [Groups -> Group] /\ OneThreadPerLens'
           /\ \A h \in Groups : groups'[h].head = groups[h].head
<1>1. groups \in [Groups -> Group]
  BY DEF ReviewTypeOK
<1>2. groups' = [groups EXCEPT ![g] = [groups[g] EXCEPT !.lens =
                     [groups[g].lens EXCEPT ![l] = attempt]]]
  OBVIOUS
<1>3. groups[g].lens \in [Lenses -> Attempt]
  BY <1>1 DEF Group
<1>4. groups' \in [Groups -> Group] /\ \A h \in Groups : groups'[h].head = groups[h].head
  BY <1>1, <1>2, <1>3 DEF Group
<1>5. ASSUME NEW h \in Groups, NEW k \in Lenses
      PROVE  groups'[h].lens[k].started <= 1
  <2>1. groups[h].lens[k].started <= 1
    BY DEF OneThreadPerLens
  <2> QED
    BY <1>1, <1>2, <1>3, <2>1 DEF Group
<1> QED
  BY <1>4, <1>5 DEF OneThreadPerLens

LEMMA StoresTypes ==
    ASSUME ReviewTypeOK, OneThreadPerLens, NEW g \in Groups, NEW l \in Lenses,
           NEW stored \in Stored, Stores(g, l, stored)
    PROVE  /\ groups' \in [Groups -> Group] /\ OneThreadPerLens'
           /\ \A h \in Groups : groups'[h].head = groups[h].head
<1> DEFINE attempt == [groups[g].lens[l] EXCEPT !.stored = stored]
<1>1. groups[g].lens[l] \in Attempt
  BY DEF ReviewTypeOK, Group
<1>2. attempt \in Attempt /\ attempt.started <= 1
  BY <1>1 DEF Attempt, OneThreadPerLens
<1>3. groups' = [groups EXCEPT ![g].lens[l] = attempt]
  BY DEF Stores
<1> HIDE DEF attempt
<1> QED
  BY <1>2, <1>3, AttemptWritten

LEMMA LaneTypes ==
    ASSUME NEW step \in {"look", "decide", "recover", "correct", "spawn", "record", "finish"},
           NEW left \in SUBSET Lenses, NEW lens \in Lenses, NEW group \in Groups \cup {NoGroup},
           Lane(step, left, lens, group)
    PROVE  /\ lane' \in Lanes /\ lane'.at = step /\ lane'.group = group
BY DEF Lane, Lanes

\* A step that leaves a job in review, its head and its proof alone.
LEMMA ReviewGoesOn ==
    ASSUME ReviewInv, job.state = "reviewing", job' \in Jobs, job'.state = job.state,
           job'.resume = job.resume, job'.head = job.head, UNCHANGED proof
    PROVE  /\ ReviewsAreProven' /\ OfferedHeadIsProven'
           /\ job'.resume = "none" /\ NeedsHead' => job'.head # NoHead
<1>1. job.resume = "none" /\ job.head # NoHead
  BY DEF ReviewInv, ReviewTypeOK, NeedsHead, HeadStates
<1>2. OfferedHeadIsProven'
  BY DEF OfferedHeadIsProven
<1>3. ReviewsAreProven'
  BY <1>1 DEF ReviewInv, ReviewsAreProven, Reviewed
<1> QED
  BY <1>1, <1>2, <1>3

\* A step that leaves the job alone while the lane is free.
LEMMA JobStandsStill ==
    ASSUME ReviewInv, At("free"), UNCHANGED <<job, groups, lane, proof>>,
           tree' \in [head : Heads, clean : BOOLEAN], RoomToPublish', todo' \in SUBSET Effects
    PROVE  ReviewInv'
<1>1. ReviewTypeOK'
  BY DEF ReviewInv, ReviewTypeOK, NeedsHead, HeadStates
<1> QED
  BY <1>1 DEF ReviewInv, LaneHoldsTheReview, ReviewsAreProven, Reviewed, OfferedHeadIsProven,
              OneThreadPerLens, At

\* A step that moves the job out of review, or from one state outside to another.
LEMMA JobMovesOn ==
    ASSUME ReviewInv, job' \in Jobs, todo' \in SUBSET Effects, groups' \in [Groups -> Group],
           tree' \in [head : Heads, clean : BOOLEAN], RoomToPublish',
           proof' \in [head : Heads \cup {NoHead}, kept : BOOLEAN],
           lane' \in Lanes, lane'.at = "free", OneThreadPerLens', ReviewsAreProven',
           job'.state \notin {"awaiting_merge_approval", "complete"},
           NeedsHead' => job'.head # NoHead,
           job'.resume # "none" => job'.state \in {"failed", "blocked", "recovering_worker"}
    PROVE  ReviewInv'
<1>1. ReviewTypeOK'
  BY DEF ReviewTypeOK
<1> QED
  BY <1>1 DEF ReviewInv, LaneHoldsTheReview, OfferedHeadIsProven, At

LEMMA EnvironmentStep ==
    ASSUME ReviewInv,
           Commit \/ Soil \/ StartRelease \/ ImplementationFails \/ ApprovalGoesStale \/ Retry
               \/ ContinueReview
    PROVE  ReviewInv'
<1> USE DEF At
<1>1. /\ ReviewTypeOK /\ LaneHoldsTheReview /\ ReviewsAreProven /\ OneThreadPerLens
      /\ RoomToPublish
      /\ job \in Jobs /\ lane \in Lanes
      /\ tree \in [head : Heads, clean : BOOLEAN] /\ groups \in [Groups -> Group]
      /\ todo \in SUBSET Effects /\ proof \in [head : Heads \cup {NoHead}, kept : BOOLEAN]
  BY DEF ReviewInv, ReviewTypeOK
<1>2. {Effect("resolve", NoGroup)} \in SUBSET Effects /\ {Effect("validate", NoGroup)} \in SUBSET Effects
  BY EffectType
<1>3. job.state # "reviewing" => lane.at = "free"
  BY <1>1 DEF LaneHoldsTheReview
<1>4. /\ UNCHANGED groups => OneThreadPerLens'
      /\ UNCHANGED tree => RoomToPublish'
  BY <1>1 DEF OneThreadPerLens, RoomToPublish
<1>5. /\ job.head \in Heads \cup {NoHead} /\ NoHead \in Heads \cup {NoHead}
      /\ job.group \in Groups \cup {NoGroup} /\ job.state \in JobStates
      /\ "resolving_pr_head" \in JobStates /\ "validating" \in JobStates
      /\ "resolving_pr_head" \notin HeadStates
  BY <1>1 DEF Jobs, JobStates, HeadStates
<1>6. CASE Commit \/ Soil
  <2>1. UNCHANGED <<job, todo, groups, lane, proof>>
    BY <1>6 DEF Commit, Soil
  <2>2. tree' \in [head : Heads, clean : BOOLEAN] /\ RoomToPublish'
    <3>1. CASE Commit
      <4>1. tree.head + 1 \in Heads
        BY <1>1, <3>1, ReviewFacts DEF Commit
      <4> QED
        BY <3>1, <4>1 DEF Commit, RoomToPublish
    <3>2. CASE Soil
      BY <1>1, <3>2 DEF Soil, RoomToPublish
    <3> QED
      BY <1>6, <3>1, <3>2
  <2>3. ReviewTypeOK'
    BY <1>1, <2>1, <2>2 DEF ReviewTypeOK, NeedsHead, HeadStates
  <2> QED
    BY <2>1, <2>2, <2>3, <1>1 DEF ReviewInv, LaneHoldsTheReview, ReviewsAreProven, Reviewed,
                      OfferedHeadIsProven, OneThreadPerLens
<1>7. CASE StartRelease
  <2>1. /\ job.state = "implementing" /\ UNCHANGED <<tree, groups, lane, proof>>
        /\ Goes("resolving_pr_head", job.head, {}, {Effect("resolve", NoGroup)})
    BY <1>7 DEF StartRelease
  <2>2. /\ job' \in Jobs /\ todo' \in SUBSET Effects
        /\ job'.state = "resolving_pr_head" /\ job'.resume = "none"
    BY <1>1, <1>2, <1>5, <2>1, GoesTypes
  <2>3. ReviewsAreProven'
    BY <2>2 DEF ReviewsAreProven, Reviewed
  <2> QED
    BY <1>1, <1>3, <1>4, <2>1, <2>2, <2>3, JobMovesOn DEF NeedsHead, HeadStates
<1>8. CASE ApprovalGoesStale \/ ContinueReview
  <2>1. /\ job.state # "reviewing" /\ UNCHANGED <<tree, groups, lane, proof>>
        /\ Goes("resolving_pr_head", NoHead, {}, {Effect("resolve", NoGroup)})
    BY <1>8 DEF ApprovalGoesStale, ContinueReview, Resolves
  <2>2. /\ job' \in Jobs /\ todo' \in SUBSET Effects
        /\ job'.state = "resolving_pr_head" /\ job'.resume = "none"
    BY <1>1, <1>2, <1>5, <2>1, GoesTypes
  <2>3. ReviewsAreProven'
    BY <2>2 DEF ReviewsAreProven, Reviewed
  <2> QED
    BY <1>1, <1>3, <1>4, <2>1, <2>2, <2>3, JobMovesOn DEF NeedsHead, HeadStates
<1>9. CASE ImplementationFails
  <2>1. /\ job.state = "implementing" /\ UNCHANGED <<tree, groups, lane, proof>>
        /\ Stops("failed", job.state, {})
    BY <1>9 DEF ImplementationFails
  <2>2. /\ job' \in Jobs /\ todo' \in SUBSET Effects
        /\ job'.state = "failed" /\ job'.resume = "implementing"
    BY <1>1, <1>5, <2>1, StopsTypes
  <2>3. ReviewsAreProven'
    BY <2>2 DEF ReviewsAreProven, Reviewed
  <2> QED
    BY <1>1, <1>3, <1>4, <2>1, <2>2, <2>3, JobMovesOn DEF NeedsHead, HeadStates
<1>10. CASE Retry
  <2>1. job.state \in {"failed", "blocked"} /\ UNCHANGED <<tree, lane>>
    BY <1>10 DEF Retry
  <2>2. CASE /\ job.resume \in {"implementing", "reviewing"} /\ job.head # NoHead
             /\ Reviews(job.group, {})
             /\ proof' = [proof EXCEPT !.kept = @ \/ job.resume = "implementing"]
    <3>1. /\ job' \in Jobs /\ todo' \in SUBSET Effects /\ groups' \in [Groups -> Group]
          /\ job'.state = "reviewing" /\ job'.resume = "none" /\ job'.head = job.head
          /\ OneThreadPerLens'
      BY <1>1, <1>5, <2>2, ReviewsTypes
    <3>2. /\ proof' \in [head : Heads \cup {NoHead}, kept : BOOLEAN] /\ proof'.head = proof.head
          /\ proof'.kept = (proof.kept \/ job.resume = "implementing")
      BY <1>1, <2>2
    <3>3. ReviewsAreProven'
      BY <1>1, <2>2, <3>1, <3>2 DEF ReviewsAreProven, Reviewed
    <3> QED
      BY <1>1, <1>3, <1>4, <2>1, <2>2, <3>1, <3>2, <3>3, JobMovesOn DEF NeedsHead, HeadStates
  <2>3. CASE /\ Goes("resolving_pr_head", job.head, {}, {Effect("resolve", NoGroup)})
             /\ UNCHANGED <<groups, proof>>
    <3>1. /\ job' \in Jobs /\ todo' \in SUBSET Effects
          /\ job'.state = "resolving_pr_head" /\ job'.resume = "none"
      BY <1>1, <1>2, <1>5, <2>3, GoesTypes
    <3>2. ReviewsAreProven'
      BY <3>1 DEF ReviewsAreProven, Reviewed
    <3> QED
      BY <1>1, <1>3, <1>4, <2>1, <2>3, <3>1, <3>2, JobMovesOn DEF NeedsHead, HeadStates
  <2>4. CASE job.resume = "validating" /\ Validates(job.head, {}) /\ UNCHANGED <<groups, proof>>
    <3>1. job.head \in Heads /\ job.head # NoHead
      BY <1>1, <1>5, <2>4, ReviewFacts DEF ReviewTypeOK, NeedsHead, HeadStates
    <3>2. Goes("validating", job.head, {}, {Effect("validate", NoGroup)})
      BY <2>4 DEF Validates
    <3>3. /\ job' \in Jobs /\ todo' \in SUBSET Effects
          /\ job'.state = "validating" /\ job'.resume = "none" /\ job'.head = job.head
      BY <1>1, <1>2, <1>5, <3>1, <3>2, GoesTypes
    <3>4. ReviewsAreProven'
      BY <3>3 DEF ReviewsAreProven, Reviewed
    <3> QED
      BY <1>1, <1>3, <1>4, <2>1, <2>4, <3>1, <3>3, <3>4, JobMovesOn DEF NeedsHead, HeadStates
  <2> QED
    BY <1>10, <2>2, <2>3, <2>4 DEF Retry
<1> QED
  BY <1>6, <1>7, <1>8, <1>9, <1>10

\* The steps of the lane for an effect: an effect that runs finds the job where it
\* was to find it, and the lane free.
LEMMA EffectStep ==
    ASSUME ReviewInv, NEW e \in todo,
           \/ SkipEffect(e) \/ ResolvePrHead(e) \/ ApplyPrHead(e) \/ RunValidation(e) \/ ApplyValidation(e)
           \/ EffectFails(e) \/ DeadLetterEffect(e) \/ RecoverWorker(e) \/ BeginSpawnReview(e)
    PROVE  ReviewInv'
<1> USE DEF At
<1>1. /\ ReviewTypeOK /\ LaneHoldsTheReview /\ ReviewsAreProven /\ OneThreadPerLens
      /\ RoomToPublish
      /\ OfferedHeadIsProven
      /\ job \in Jobs /\ lane \in Lanes
      /\ tree \in [head : Heads, clean : BOOLEAN] /\ groups \in [Groups -> Group]
      /\ todo \in SUBSET Effects /\ proof \in [head : Heads \cup {NoHead}, kept : BOOLEAN]
  BY DEF ReviewInv, ReviewTypeOK
<1>2. /\ {Effect("resolve", NoGroup)} \in SUBSET Effects
      /\ {Effect("validate", NoGroup)} \in SUBSET Effects
  BY EffectType
<1>3. /\ e \in Effects
      /\ e.kind \in {"resolve", "validate", "spawn", "recover"} /\ e.group \in Groups \cup {NoGroup}
      /\ e.at \in Heads \cup {NoHead} /\ e.result \in {"none", "pass", "fail"}
  BY <1>1 DEF Effects
<1>4. /\ UNCHANGED groups => OneThreadPerLens'
      /\ UNCHANGED tree => RoomToPublish'
  BY <1>1 DEF OneThreadPerLens, RoomToPublish
<1>5. /\ job.head \in Heads \cup {NoHead} /\ NoHead \in Heads \cup {NoHead}
      /\ job.group \in Groups \cup {NoGroup} /\ job.state \in JobStates
      /\ "resolving_pr_head" \in JobStates /\ "validating" \in JobStates
      /\ "implementing" \in JobStates
      /\ "resolving_pr_head" \notin HeadStates
      /\ "implementing" \notin HeadStates
      /\ {} \in SUBSET Effects
  BY <1>1 DEF Jobs, JobStates, HeadStates
<1>6. ASSUME NEW kind \in {"resolve", "validate", "spawn", "recover"}, Runs(e, kind)
      PROVE  /\ lane.at = "free" /\ e.kind = kind
             /\ kind = "resolve" => job.state = "resolving_pr_head"
             /\ kind = "validate" => job.state = "validating"
             /\ kind = "spawn" => job.state = "reviewing"
             /\ kind = "recover" => job.state = "recovering_worker"
  BY <1>6 DEF Runs, ExpectedState
<1>7. CASE SkipEffect(e)
  <2>1. /\ lane.at = "free" /\ UNCHANGED <<job, tree, groups, lane, proof>>
        /\ todo' \in SUBSET Effects
    BY <1>1, <1>7 DEF SkipEffect
  <2> QED
    BY <1>1, <1>4, <2>1, JobStandsStill
<1>8. CASE ResolvePrHead(e)
  <2>1. /\ lane.at = "free" /\ UNCHANGED <<job, groups, lane, proof>>
        /\ tree' = IF tree.clean THEN tree ELSE [head |-> tree.head + 1, clean |-> TRUE]
        /\ todo' = (todo \ {e}) \cup {[e EXCEPT !.at = tree'.head]}
    BY <1>6, <1>8 DEF ResolvePrHead
  <2>2. tree' \in [head : Heads, clean : BOOLEAN] /\ RoomToPublish'
    <3>1. CASE tree.clean
      BY <1>1, <2>1, <3>1 DEF RoomToPublish
    <3>2. CASE ~tree.clean
      <4>1. tree.head + 1 \in Heads
        BY <1>1, <3>2, ReviewFacts DEF RoomToPublish
      <4> QED
        BY <2>1, <3>2, <4>1 DEF RoomToPublish
    <3> QED
      BY <3>1, <3>2
  <2>3. [e EXCEPT !.at = tree'.head] \in Effects
    BY <1>3, <2>2 DEF Effects
  <2>4. todo' \in SUBSET Effects
    BY <1>1, <2>1, <2>3
  <2> QED
    BY <1>1, <2>1, <2>2, <2>4, JobStandsStill
<1>9. CASE ApplyPrHead(e)
  <2>1. /\ lane.at = "free" /\ UNCHANGED <<tree, groups, lane>> /\ e.at # NoHead
        /\ Goes("validating", e.at, {e}, {Effect("validate", NoGroup)})
        /\ proof' = Unproven
    BY <1>6, <1>9 DEF ApplyPrHead, Validates
  <2>2. /\ job' \in Jobs /\ todo' \in SUBSET Effects
        /\ job'.state = "validating" /\ job'.resume = "none" /\ job'.head = e.at
    BY <1>1, <1>2, <1>3, <1>5, <2>1, GoesTypes
  <2>3. ReviewsAreProven'
    BY <2>2 DEF ReviewsAreProven, Reviewed
  <2> QED
    BY <1>1, <1>4, <2>1, <2>2, <2>3, ReviewFacts, JobMovesOn
<1>10. CASE RunValidation(e)
  <2>1. PICK result \in {"pass", "fail"} :
            todo' = (todo \ {e}) \cup {[e EXCEPT !.at = tree.head, !.result = result]}
    BY <1>10 DEF RunValidation
  <2>2. [e EXCEPT !.at = tree.head, !.result = result] \in Effects
    BY <1>1, <1>3 DEF Effects
  <2>3. lane.at = "free" /\ UNCHANGED <<job, tree, groups, lane, proof>>
    BY <1>6, <1>10 DEF RunValidation
  <2>4. todo' \in SUBSET Effects
    BY <1>1, <2>1, <2>2
  <2> QED
    BY <1>1, <1>4, <2>3, <2>4, JobStandsStill
<1>11. CASE ApplyValidation(e)
  <2>1. lane.at = "free" /\ job.state = "validating" /\ UNCHANGED <<tree, lane>>
    BY <1>6, <1>11 DEF ApplyValidation
  <2>2. CASE e.at = job.head /\ Reviews(job.group, {e}) /\ proof' = [head |-> e.at, kept |-> FALSE]
    <3>1. /\ job' \in Jobs /\ todo' \in SUBSET Effects /\ groups' \in [Groups -> Group]
          /\ job'.state = "reviewing" /\ job'.resume = "none" /\ job'.head = job.head
          /\ OneThreadPerLens'
      BY <1>1, <1>5, <2>2, ReviewsTypes
    <3>2. /\ proof' \in [head : Heads \cup {NoHead}, kept : BOOLEAN]
          /\ proof'.head = job'.head
      BY <1>3, <2>2, <3>1
    <3>3. ReviewsAreProven'
      BY <3>2 DEF ReviewsAreProven
    <3>4. job'.head # NoHead
      BY <1>1, <2>1, <3>1 DEF ReviewTypeOK, NeedsHead, HeadStates
    <3> QED
      BY <1>1, <1>4, <2>1, <3>1, <3>2, <3>3, <3>4, JobMovesOn
  <2>3. CASE Goes("implementing", NoHead, {e}, {}) /\ UNCHANGED <<groups, proof>>
    <3>1. /\ job' \in Jobs /\ todo' \in SUBSET Effects
          /\ job'.state = "implementing" /\ job'.resume = "none"
      BY <1>1, <1>5, <2>3, GoesTypes
    <3>2. ReviewsAreProven'
      BY <3>1 DEF ReviewsAreProven, Reviewed
    <3> QED
      BY <1>1, <1>4, <2>1, <2>3, <3>1, <3>2, JobMovesOn DEF NeedsHead, HeadStates
  <2>4. CASE Resolves({e}) /\ UNCHANGED <<groups, proof>>
    <3>1. Goes("resolving_pr_head", NoHead, {e}, {Effect("resolve", NoGroup)})
      BY <2>4 DEF Resolves
    <3>2. /\ job' \in Jobs /\ todo' \in SUBSET Effects
          /\ job'.state = "resolving_pr_head" /\ job'.resume = "none"
      BY <1>1, <1>2, <1>5, <3>1, GoesTypes
    <3>3. ReviewsAreProven'
      BY <3>2 DEF ReviewsAreProven, Reviewed
    <3> QED
      BY <1>1, <1>4, <2>1, <2>4, <3>2, <3>3, JobMovesOn DEF NeedsHead, HeadStates
  <2> QED
    BY <1>11, <2>2, <2>3, <2>4 DEF ApplyValidation
<1>12. CASE EffectFails(e) \/ DeadLetterEffect(e)
  <2>1. /\ lane.at = "free" /\ UNCHANGED <<tree, groups, lane, proof>>
        /\ job.state \in {"resolving_pr_head", "validating", "reviewing", "recovering_worker"}
    BY <1>3, <1>6, <1>12 DEF EffectFails, DeadLetterEffect
  <2>2. Stops("failed", job.state, {e}) \/ Stops("blocked", job.state, {e})
    BY <1>12 DEF EffectFails, DeadLetterEffect
  <2>3. /\ job' \in Jobs /\ todo' \in SUBSET Effects
        /\ job'.state \in {"failed", "blocked"} /\ job'.resume = job.state /\ job'.head = job.head
    BY <1>1, <1>5, <2>2, StopsTypes
  <2>4. ReviewsAreProven'
    BY <1>1, <2>1, <2>3 DEF ReviewsAreProven, Reviewed
  <2>5. NeedsHead' => job'.head # NoHead
    BY <1>1, <2>1, <2>3 DEF NeedsHead, HeadStates, ReviewTypeOK
  <2> QED
    BY <1>1, <1>4, <2>1, <2>3, <2>4, <2>5, JobMovesOn
<1>13. CASE RecoverWorker(e)
  <2>1. /\ lane.at = "free" /\ job.state = "recovering_worker" /\ UNCHANGED <<tree, lane, proof>>
        /\ Reviews(NoGroup, {e})
    BY <1>6, <1>13 DEF RecoverWorker
  <2>2. /\ job' \in Jobs /\ todo' \in SUBSET Effects /\ groups' \in [Groups -> Group]
        /\ job'.state = "reviewing" /\ job'.resume = "none" /\ job'.head = job.head
        /\ OneThreadPerLens'
    BY <1>1, <2>1, ReviewsTypes
  <2>3. ReviewsAreProven'
    BY <1>1, <2>1, <2>2 DEF ReviewsAreProven, Reviewed
  <2>4. job'.head # NoHead
    BY <1>1, <2>1, <2>2 DEF ReviewTypeOK, NeedsHead, HeadStates
  <2> QED
    BY <1>1, <1>4, <2>1, <2>2, <2>3, <2>4, JobMovesOn
<1>14. CASE BeginSpawnReview(e)
  <2>1. /\ job.state = "reviewing" /\ UNCHANGED <<job, tree, todo, groups, proof>>
        /\ Lane("spawn", Lenses, "quality", e.group)
    BY <1>6, <1>14 DEF BeginSpawnReview
  <2>2. lane' \in Lanes /\ lane'.at = "spawn" /\ lane'.group = e.group
    BY <1>3, <2>1, LaneTypes, ReviewFacts
  <2>3. lane'.group # NoGroup
    BY <1>3, <1>6, <1>14, <2>2 DEF BeginSpawnReview, Effects
  <2>4. LaneHoldsTheReview'
    BY <2>1, <2>2, <2>3 DEF LaneHoldsTheReview
  <2> QED
    BY <1>1, <1>4, <2>1, <2>2, <2>4
       DEF ReviewInv, ReviewTypeOK, NeedsHead, HeadStates, ReviewsAreProven, Reviewed, OfferedHeadIsProven
<1> QED
  BY <1>7, <1>8, <1>9, <1>10, <1>11, <1>12, <1>13, <1>14

\* The steps of the lane over the threads of a group.
LEMMA LaneStep ==
    ASSUME ReviewInv,
           \/ AdoptOrSpawn \/ RecordThread \/ RegisterReviewThread \/ CompleteSpawnReview
           \/ Reconcile \/ PassBy \/ BlockUnowned \/ RegisterWorkerRecovery \/ ApplyWorkerRecovery
           \/ HandleThreadIdle \/ SendFormatCorrection \/ Decide \/ EndOfPass \/ LoseLane
    PROVE  ReviewInv'
<1> USE DEF At
<1>1. /\ ReviewTypeOK /\ LaneHoldsTheReview /\ ReviewsAreProven /\ OneThreadPerLens
      /\ RoomToPublish
      /\ OfferedHeadIsProven
      /\ job \in Jobs /\ lane \in Lanes
      /\ tree \in [head : Heads, clean : BOOLEAN] /\ groups \in [Groups -> Group]
      /\ todo \in SUBSET Effects /\ proof \in [head : Heads \cup {NoHead}, kept : BOOLEAN]
  BY DEF ReviewInv, ReviewTypeOK
<1>2. /\ lane.left \in SUBSET Lenses /\ lane.lens \in Lenses /\ lane.group \in Groups \cup {NoGroup}
      /\ \A l : lane.left \ {l} \in SUBSET Lenses
      /\ First(lane.left) \in Lenses /\ NextLens \in Lenses /\ {} \in SUBSET Lenses
      /\ Lenses \in SUBSET Lenses /\ "quality" \in Lenses
  BY <1>1, ReviewFacts DEF Lanes, NextLens
<1>3. lane.at # "free" => job.state = "reviewing" /\ lane.group \in Groups /\ lane.group # NoGroup
  BY <1>1, <1>2 DEF LaneHoldsTheReview
<1>4. /\ UNCHANGED groups => OneThreadPerLens'
      /\ UNCHANGED tree => RoomToPublish' /\ tree' \in [head : Heads, clean : BOOLEAN]
  BY <1>1 DEF OneThreadPerLens, RoomToPublish
<1>5. /\ job.head \in Heads \cup {NoHead} /\ NoHead \in Heads \cup {NoHead}
      /\ job.group \in Groups \cup {NoGroup} /\ job.state \in JobStates
      /\ "none" \in JobStates \cup {"none"}
  BY <1>1 DEF Jobs
\* A step within a review: it leaves the job alone, or at most gives it a group.
<1>6. ASSUME job.state = "reviewing", job' \in Jobs, job'.state = job.state, job'.resume = job.resume,
             job'.head = job.head, todo' \in SUBSET Effects, groups' \in [Groups -> Group],
             OneThreadPerLens', lane' \in Lanes, UNCHANGED <<tree, proof>>, LaneHoldsTheReview'
      PROVE  ReviewInv'
  <2>1. /\ ReviewsAreProven' /\ OfferedHeadIsProven'
        /\ job'.resume = "none" /\ NeedsHead' => job'.head # NoHead
    BY <1>6, ReviewGoesOn
  <2>2. ReviewTypeOK'
    BY <1>1, <1>6, <2>1 DEF ReviewTypeOK
  <2> QED
    BY <1>4, <1>6, <2>1, <2>2 DEF ReviewInv
<1>7. UNCHANGED job => job' \in Jobs /\ job'.state = job.state /\ job'.resume = job.resume
                         /\ job'.head = job.head /\ job'.group = job.group
  BY <1>1
<1>8. lane' = Free => lane' \in Lanes /\ lane'.at = "free" /\ LaneHoldsTheReview'
  BY ReviewFacts DEF LaneHoldsTheReview
<1>9. CASE AdoptOrSpawn
  <2> DEFINE l == First(lane.left)
             g == lane.group
  <2>1. /\ lane.at = "spawn" /\ UNCHANGED <<job, tree, todo, proof>>
        /\ Lane("spawn", lane.left \ {l}, l, g) \/ Lane("record", lane.left, l, g)
        /\ \/ UNCHANGED groups
           \/ groups' = [groups EXCEPT ![g].lens[l].named = TRUE]
           \/ /\ groups[g].lens[l].started = 0
              /\ groups' = [groups EXCEPT ![g].lens[l].started = @ + 1]
    BY <1>9 DEF AdoptOrSpawn
  <2>2. lane' \in Lanes /\ lane'.at \in {"spawn", "record"} /\ lane'.group = lane.group
    BY <1>2, <2>1, LaneTypes
  <2>3. groups' \in [Groups -> Group] /\ OneThreadPerLens'
    <3>1. CASE UNCHANGED groups
      BY <1>1, <1>4, <3>1
    <3>2. g \in Groups /\ l \in Lenses /\ groups[g].lens[l] \in Attempt
      BY <1>1, <1>2, <1>3, <2>1 DEF Group
    <3>3. CASE groups' = [groups EXCEPT ![g].lens[l].named = TRUE]
      <4> DEFINE attempt == [groups[g].lens[l] EXCEPT !.named = TRUE]
      <4>1. attempt \in Attempt /\ attempt.started <= 1
        BY <1>1, <3>2 DEF Attempt, OneThreadPerLens
      <4>2. groups' = [groups EXCEPT ![g].lens[l] = attempt]
        BY <3>3
      <4> HIDE DEF attempt, l, g
      <4> QED
        BY <1>1, <3>2, <4>1, <4>2, AttemptWritten
    <3>4. CASE /\ groups[g].lens[l].started = 0
               /\ groups' = [groups EXCEPT ![g].lens[l].started = @ + 1]
      <4> DEFINE attempt == [groups[g].lens[l] EXCEPT !.started = 1]
      <4>1. attempt \in Attempt /\ attempt.started <= 1
        BY <3>2 DEF Attempt
      <4>2. groups' = [groups EXCEPT ![g].lens[l] = attempt]
        BY <3>4
      <4> HIDE DEF attempt, l, g
      <4> QED
        BY <1>1, <3>2, <4>1, <4>2, AttemptWritten
    <3> QED
      BY <2>1, <3>1, <3>3, <3>4
  <2>4. LaneHoldsTheReview'
    BY <1>3, <2>1, <2>2 DEF LaneHoldsTheReview
  <2> QED
    BY <1>1, <1>3, <1>6, <1>7, <2>1, <2>2, <2>3, <2>4
<1>10. CASE RecordThread
  <2>1. /\ lane.at = "record" /\ UNCHANGED <<job, tree, todo, proof>>
        /\ groups' = [groups EXCEPT ![lane.group].lens[lane.lens].named = TRUE]
        /\ Lane("spawn", lane.left \ {lane.lens}, lane.lens, lane.group)
    BY <1>10 DEF RecordThread
  <2>2. lane' \in Lanes /\ lane'.at = "spawn" /\ lane'.group = lane.group
    BY <1>2, <2>1, LaneTypes
  <2>3. groups' \in [Groups -> Group] /\ OneThreadPerLens'
    <3> DEFINE attempt == [groups[lane.group].lens[lane.lens] EXCEPT !.named = TRUE]
    <3>1. lane.group \in Groups /\ groups[lane.group].lens[lane.lens] \in Attempt
      BY <1>1, <1>2, <1>3, <2>1 DEF Group
    <3>2. attempt \in Attempt /\ attempt.started <= 1
      BY <1>1, <1>2, <3>1 DEF Attempt, OneThreadPerLens
    <3>3. groups' = [groups EXCEPT ![lane.group].lens[lane.lens] = attempt]
      BY <2>1
    <3> HIDE DEF attempt
    <3> QED
      BY <1>1, <1>2, <3>1, <3>2, <3>3, AttemptWritten
  <2>4. LaneHoldsTheReview'
    BY <1>3, <2>1, <2>2 DEF LaneHoldsTheReview
  <2> QED
    BY <1>1, <1>3, <1>6, <1>7, <2>1, <2>2, <2>3, <2>4
<1>11. CASE RegisterReviewThread
  <2>1. /\ lane.at = "spawn" /\ UNCHANGED <<tree, todo, proof>>
        /\ job' = [job EXCEPT !.group = lane.group]
        /\ groups' = [g \in Groups |-> IF Awaited(g) \/ g = lane.group THEN groups[g]
                                       ELSE NewGroup(NoHead)]
        /\ Lane("finish", {}, "quality", lane.group)
    BY <1>11 DEF RegisterReviewThread
  <2>2. lane' \in Lanes /\ lane'.at = "finish" /\ lane'.group = lane.group
    BY <1>2, <2>1, LaneTypes
  <2>3. /\ job' \in Jobs /\ job'.state = job.state /\ job'.resume = job.resume
        /\ job'.head = job.head
    BY <1>1, <1>2, <2>1 DEF Jobs
  <2>4. groups' \in [Groups -> Group]
    BY <1>1, <1>5, <2>1, NewGroupType
  <2>5. OneThreadPerLens'
    <3> SUFFICES ASSUME NEW g \in Groups, NEW l \in Lenses
                 PROVE  groups'[g].lens[l].started <= 1
      BY DEF OneThreadPerLens
    <3>1. groups[g].lens[l].started <= 1 /\ NewGroup(NoHead).lens[l].started <= 1
      BY <1>1, <1>5, NewGroupType DEF OneThreadPerLens
    <3> QED
      BY <2>1, <3>1
  <2>6. LaneHoldsTheReview'
    BY <1>3, <2>1, <2>2, <2>3 DEF LaneHoldsTheReview
  <2> QED
    BY <1>1, <1>3, <1>6, <2>1, <2>2, <2>3, <2>4, <2>5, <2>6
<1>12. CASE CompleteSpawnReview \/ EndOfPass \/ LoseLane
  <2>1. /\ lane.at # "free" /\ lane' = Free /\ UNCHANGED <<job, tree, groups, proof>>
        /\ todo' \in SUBSET Effects
    BY <1>1, <1>12 DEF CompleteSpawnReview, EndOfPass, LoseLane
  <2> QED
    BY <1>1, <1>3, <1>4, <1>6, <1>7, <1>8, <2>1
<1>13. CASE Reconcile
  <2>1. /\ job.state = "reviewing" /\ job.group # NoGroup
        /\ Lane("look", Lenses, "quality", job.group) /\ UNCHANGED <<job, tree, todo, groups, proof>>
    BY <1>13 DEF Reconcile
  <2>2. lane' \in Lanes /\ lane'.at = "look" /\ lane'.group = job.group
    BY <1>2, <1>5, <2>1, LaneTypes
  <2>3. LaneHoldsTheReview'
    BY <2>1, <2>2 DEF LaneHoldsTheReview
  <2> QED
    BY <1>1, <1>4, <1>6, <1>7, <2>1, <2>2, <2>3
<1>14. CASE PassBy
  <2>1. /\ lane.at = "look" /\ Lane("look", lane.left \ {NextLens}, NextLens, lane.group)
        /\ UNCHANGED <<job, tree, todo, groups, proof>>
    BY <1>14 DEF PassBy, Looks, GoesOn
  <2>2. lane' \in Lanes /\ lane'.at = "look" /\ lane'.group = lane.group
    BY <1>2, <2>1, LaneTypes
  <2>3. LaneHoldsTheReview'
    BY <1>1, <2>1, <2>2 DEF LaneHoldsTheReview
  <2> QED
    BY <1>1, <1>3, <1>4, <1>6, <1>7, <2>1, <2>2, <2>3
<1>15. CASE BlockUnowned
  <2>1. /\ Stops("blocked", "none", {}) /\ lane' = Free /\ UNCHANGED <<tree, groups, proof>>
    BY <1>15 DEF BlockUnowned
  <2>2. /\ job' \in Jobs /\ todo' \in SUBSET Effects
        /\ job'.state = "blocked" /\ job'.resume = "none"
    BY <1>1, <1>5, <2>1, StopsTypes
  <2>3. ReviewsAreProven' /\ ~NeedsHead'
    BY <2>2 DEF ReviewsAreProven, Reviewed, NeedsHead, HeadStates
  <2> QED
    BY <1>1, <1>4, <1>8, <2>1, <2>2, <2>3, JobMovesOn
<1>16. CASE RegisterWorkerRecovery
  <2>1. /\ lane.at = "look" /\ UNCHANGED <<job, tree, todo, proof>>
        /\ Lane("recover", lane.left \ {NextLens}, NextLens, lane.group)
        /\ \/ \E recovery \in {"detected", "owner"} : Stores(lane.group, NextLens, recovery)
           \/ UNCHANGED groups
    BY <1>16 DEF RegisterWorkerRecovery, Looks, GoesOn
  <2>2. lane' \in Lanes /\ lane'.at = "recover" /\ lane'.group = lane.group
    BY <1>2, <2>1, LaneTypes
  <2>3. groups' \in [Groups -> Group] /\ OneThreadPerLens'
    <3>1. \A recovery \in {"detected", "owner"} : recovery \in Stored
      BY DEF Stored, Pending, Failure
    <3> QED
      BY <1>1, <1>2, <1>3, <1>4, <2>1, <3>1, StoresTypes
  <2>4. LaneHoldsTheReview'
    BY <1>1, <2>1, <2>2 DEF LaneHoldsTheReview
  <2> QED
    BY <1>1, <1>3, <1>6, <1>7, <2>1, <2>2, <2>3, <2>4
<1>17. CASE ApplyWorkerRecovery
  <2>1. lane.at = "recover" /\ lane' = Free /\ UNCHANGED <<tree, proof>>
    BY <1>17 DEF ApplyWorkerRecovery
  <2>2. job.state = "reviewing" /\ lane.group \in Groups
    BY <1>3, <2>1
  <2>3. CASE Stops("failed", job.state, {}) /\ UNCHANGED groups
    <3>1. /\ job' \in Jobs /\ todo' \in SUBSET Effects
          /\ job'.state = "failed" /\ job'.resume = "reviewing" /\ job'.head = job.head
      BY <1>1, <1>5, <2>2, <2>3, StopsTypes
    <3>2. ReviewsAreProven' /\ job'.head # NoHead
      BY <1>1, <2>1, <2>2, <3>1 DEF ReviewsAreProven, Reviewed, ReviewTypeOK, NeedsHead, HeadStates
    <3> QED
      BY <1>1, <1>4, <1>8, <2>1, <2>3, <3>1, <3>2, JobMovesOn
  <2>4. CASE /\ job' = [job EXCEPT !.state = "recovering_worker", !.resume = job.state]
             /\ todo' = todo \cup {Effect("recover", NoGroup)}
             /\ Stores(lane.group, lane.lens, "retiring")
    <3>1. "retiring" \in Stored
      BY DEF Stored, Pending, Failure
    <3>2. groups' \in [Groups -> Group] /\ OneThreadPerLens'
      BY <1>1, <1>2, <2>2, <2>4, <3>1, StoresTypes
    <3>3. /\ job' \in Jobs /\ job'.state = "recovering_worker" /\ job'.resume = "reviewing"
          /\ job'.head = job.head
      BY <1>1, <2>2, <2>4 DEF Jobs, JobStates
    <3>4. todo' \in SUBSET Effects
      BY <1>1, <2>4, EffectType
    <3>5. ReviewsAreProven' /\ job'.head # NoHead
      BY <1>1, <2>1, <2>2, <3>3 DEF ReviewsAreProven, Reviewed, ReviewTypeOK, NeedsHead, HeadStates
    <3> QED
      BY <1>1, <1>4, <1>8, <2>1, <3>2, <3>3, <3>4, <3>5, JobMovesOn
  <2> QED
    BY <1>17, <2>3, <2>4 DEF ApplyWorkerRecovery
<1>18. CASE HandleThreadIdle
  <2>1. /\ lane.at = "look" /\ groups[lane.group].head = job.head
        /\ UNCHANGED <<job, tree, todo, proof>>
    BY <1>18 DEF HandleThreadIdle, Looks
  <2>2. PICK said \in Outputs(Evidence) :
            /\ Stores(lane.group, NextLens, Settled(Evidence, said))
            /\ GoesOn(IF Settled(Evidence, said) = "claimed" THEN "correct" ELSE "decide")
    BY <1>18 DEF HandleThreadIdle
  <2>3. Settled(Evidence, said) \in Stored
    <3>1. Evidence \in Stored \ Failure
      BY <1>1, <1>2, <1>3, <1>18, <2>1 DEF HandleThreadIdle, Evidence, Group, Attempt
    <3>2. said \in Stored
      BY <2>2, <3>1 DEF Outputs, Stored, Pending, Invalid, Failure
    <3> HIDE DEF Evidence
    <3> QED
      BY <3>2 DEF Settled, Stored, Pending, Invalid
  <2>4. Lane("correct", lane.left \ {NextLens}, NextLens, lane.group)
          \/ Lane("decide", lane.left \ {NextLens}, NextLens, lane.group)
    BY <2>2 DEF GoesOn
  <2>5. lane' \in Lanes /\ lane'.at \in {"correct", "decide"} /\ lane'.group = lane.group
    BY <1>2, <2>4, LaneTypes
  <2>6. /\ groups' \in [Groups -> Group] /\ OneThreadPerLens'
        /\ \A h \in Groups : groups'[h].head = groups[h].head
    BY <1>1, <1>2, <1>3, <2>1, <2>2, <2>3, StoresTypes
  <2>7. LaneHoldsTheReview'
    BY <1>1, <1>3, <2>1, <2>5, <2>6 DEF LaneHoldsTheReview
  <2> QED
    BY <1>1, <1>3, <1>6, <1>7, <2>1, <2>5, <2>6, <2>7
<1>19. CASE SendFormatCorrection
  <2>1. /\ lane.at = "correct" /\ Stores(lane.group, lane.lens, "correction")
        /\ Lane("look", lane.left, lane.lens, lane.group) /\ UNCHANGED <<job, tree, todo, proof>>
    BY <1>19 DEF SendFormatCorrection
  <2>2. lane' \in Lanes /\ lane'.at = "look" /\ lane'.group = lane.group
    BY <1>2, <2>1, LaneTypes
  <2>3. groups' \in [Groups -> Group] /\ OneThreadPerLens'
    <3>1. "correction" \in Stored
      BY DEF Stored, Pending
    <3> QED
      BY <1>1, <1>2, <1>3, <2>1, <3>1, StoresTypes
  <2>4. LaneHoldsTheReview'
    BY <1>1, <2>1, <2>2 DEF LaneHoldsTheReview
  <2> QED
    BY <1>1, <1>3, <1>6, <1>7, <2>1, <2>2, <2>3, <2>4
<1>20. CASE Decide
  <2> DEFINE verdict == AssessReviewGroup(groups[lane.group].lens)
  <2>1. /\ lane.at = "decide" /\ job.state = "reviewing" /\ lane.group \in Groups
        /\ lane.group = job.group /\ groups[job.group].head = job.head
        /\ UNCHANGED <<tree, proof>>
    BY <1>1, <1>3, <1>20 DEF Decide, LaneHoldsTheReview
  <2>2. CASE verdict = "pending"
    <3>1. Lane("look", lane.left, lane.lens, lane.group) /\ UNCHANGED <<job, todo, groups>>
      BY <1>20, <2>2 DEF Decide
    <3>2. lane' \in Lanes /\ lane'.at = "look" /\ lane'.group = lane.group
      BY <1>2, <3>1, LaneTypes
    <3>3. LaneHoldsTheReview'
      BY <1>1, <2>1, <3>1, <3>2 DEF LaneHoldsTheReview
    <3> QED
      BY <1>1, <1>4, <1>6, <1>7, <2>1, <3>1, <3>2, <3>3
  <2>3. CASE Stops("blocked", "none", {}) /\ UNCHANGED groups /\ lane' = Free
    <3>1. /\ job' \in Jobs /\ todo' \in SUBSET Effects
          /\ job'.state = "blocked" /\ job'.resume = "none"
      BY <1>1, <1>5, <2>3, StopsTypes
    <3>2. ReviewsAreProven' /\ ~NeedsHead'
      BY <3>1 DEF ReviewsAreProven, Reviewed, NeedsHead, HeadStates
    <3> QED
      BY <1>1, <1>4, <1>8, <2>1, <2>3, <3>1, <3>2, JobMovesOn
  <2>4. ASSUME NEW state \in {"implementing", "awaiting_merge_approval", "complete"},
               state # "implementing" => verdict = "pass", Completes(state), lane' = Free
        PROVE  ReviewInv'
    <3>1. CASE UNCHANGED <<job, todo, groups>>
      BY <1>1, <1>4, <1>6, <1>7, <1>8, <2>1, <2>4, <3>1
    <3>2. CASE ~groups[lane.group].completed
      <4>1. /\ Goes(state, IF state = "implementing" THEN NoHead ELSE job.head, {}, {})
            /\ groups' = [groups EXCEPT ![lane.group].completed = TRUE]
        BY <2>4, <3>2 DEF Completes
      <4>2. /\ state \in JobStates /\ {} \in SUBSET Effects
            /\ (IF state = "implementing" THEN NoHead ELSE job.head) \in Heads \cup {NoHead}
            /\ job.head # NoHead /\ job.group # NoGroup
        BY <1>1, <1>3, <1>5, <2>1 DEF JobStates, ReviewTypeOK, NeedsHead, HeadStates
      <4>3. /\ job' \in Jobs /\ todo' \in SUBSET Effects /\ job'.state = state
            /\ job'.resume = "none" /\ job'.group = job.group
            /\ job'.head = IF state = "implementing" THEN NoHead ELSE job.head
        <5>1. state \in HeadStates => (IF state = "implementing" THEN NoHead ELSE job.head) # NoHead
          BY <4>2 DEF HeadStates
        <5> QED
          BY <1>1, <4>1, <4>2, <5>1, GoesTypes
      <4>4. /\ groups' \in [Groups -> Group]
            /\ \A g \in Groups : groups'[g].head = groups[g].head /\ groups'[g].lens = groups[g].lens
        BY <1>1, <2>1, <4>1 DEF Group
      <4>5. OneThreadPerLens'
        BY <1>1, <4>4 DEF OneThreadPerLens
      <4>6. ReviewsAreProven'
        BY <1>1, <2>1, <4>3 DEF ReviewsAreProven, Reviewed
      <4>7. NeedsHead' => job'.head # NoHead
        BY <4>2, <4>3 DEF NeedsHead, HeadStates
      <4>8. OfferedHeadIsProven'
        <5> SUFFICES ASSUME job'.state \in {"awaiting_merge_approval", "complete"}
                     PROVE  /\ job'.group # NoGroup /\ groups'[job'.group].head = job'.head
                            /\ \A l \in Lenses : groups'[job'.group].lens[l].stored = "pass"
                            /\ proof'.kept \/ proof'.head = job'.head
          BY DEF OfferedHeadIsProven
        <5>1. state # "implementing" /\ job'.head = job.head
          BY <4>3
        <5>2. \A l \in Lenses : groups[lane.group].lens[l].stored = "pass"
          BY <2>4, <5>1 DEF AssessReviewGroup
        <5>3. proof.kept \/ proof.head = job.head
          BY <1>1, <2>1 DEF ReviewsAreProven, Reviewed
        <5> QED
          BY <2>1, <4>2, <4>3, <4>4, <5>1, <5>2, <5>3
      <4>9. ReviewTypeOK'
        BY <1>1, <1>8, <2>1, <2>4, <4>3, <4>4, <4>7 DEF ReviewTypeOK
      <4> QED
        BY <1>4, <1>8, <2>1, <2>4, <4>5, <4>6, <4>8, <4>9 DEF ReviewInv
    <3> QED
      BY <2>4, <3>1, <3>2 DEF Completes
  <2> QED
    BY <1>20, <2>2, <2>3, <2>4 DEF Decide
<1> QED
  BY <1>9, <1>10, <1>11, <1>12, <1>13, <1>14, <1>15, <1>16, <1>17, <1>18, <1>19, <1>20

LEMMA ReviewInitially == ReviewInit => ReviewInv
<1> SUFFICES ASSUME ReviewInit PROVE ReviewInv
  OBVIOUS
<1>1. /\ job.state = "implementing" /\ job.resume = "none" /\ job \in Jobs
  BY ReviewFacts DEF ReviewInit, Jobs, JobStates
<1>2. /\ tree = [head |-> 1, clean |-> TRUE] /\ todo = {} /\ lane = Free /\ proof = Unproven
      /\ groups = [g \in Groups |-> NewGroup(NoHead)]
  BY DEF ReviewInit
<1>3. groups \in [Groups -> Group] /\ OneThreadPerLens
  BY <1>2, NewGroupType DEF OneThreadPerLens
<1>4. ReviewTypeOK /\ RoomToPublish
  BY <1>1, <1>2, <1>3, ReviewFacts DEF ReviewTypeOK, NeedsHead, HeadStates, RoomToPublish
<1> QED
  BY <1>1, <1>2, <1>3, <1>4, ReviewFacts
     DEF ReviewInv, LaneHoldsTheReview, At, ReviewsAreProven, Reviewed, OfferedHeadIsProven

LEMMA ReviewStep == ReviewInv /\ [ReviewNext]_reviewVars => ReviewInv'
<1> SUFFICES ASSUME ReviewInv, [ReviewNext]_reviewVars PROVE ReviewInv'
  OBVIOUS
<1>1. CASE UNCHANGED reviewVars
  <2>1. UNCHANGED <<job, tree, todo, groups, lane, proof>>
    BY <1>1 DEF reviewVars
  <2>2. ReviewTypeOK' /\ RoomToPublish' /\ OneThreadPerLens'
    BY <2>1 DEF ReviewInv, ReviewTypeOK, NeedsHead, RoomToPublish, OneThreadPerLens
  <2> QED
    BY <2>1, <2>2 DEF ReviewInv, LaneHoldsTheReview, At, ReviewsAreProven, Reviewed, OfferedHeadIsProven
<1>2. CASE ReviewNext
  BY <1>2, EnvironmentStep, EffectStep, LaneStep DEF ReviewNext
<1> QED
  BY <1>1, <1>2

\* The inductive invariant: what the lane relies on while it waits, and what a job
\* carries from one review to the next.
THEOREM ReviewInvariant == ReviewSpec => []ReviewInv
BY ReviewInitially, ReviewStep, PTL DEF ReviewSpec

\* A job has its head, its types and a state to resume wherever the code relies on them.
THEOREM ReviewTypes == ReviewSpec => []ReviewTypeOK
<1>1. ReviewInv => ReviewTypeOK
  BY DEF ReviewInv
<1> QED
  BY <1>1, ReviewInvariant, PTL

\* Whatever is offered was reviewed by both lenses and validated at that very head.
THEOREM OfferTheorem == ReviewSpec => []OfferedHeadIsProven
<1>1. ReviewInv => OfferedHeadIsProven
  BY DEF ReviewInv
<1> QED
  BY <1>1, ReviewInvariant, PTL

\* A lens has one thread, wherever the loop was lost.
THEOREM ThreadTheorem == ReviewSpec => []OneThreadPerLens
<1>1. ReviewInv => OneThreadPerLens
  BY DEF ReviewInv
<1> QED
  BY <1>1, ReviewInvariant, PTL
=============================================================================
