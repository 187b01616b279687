----------------------------- MODULE ReviewLane -----------------------------
(***************************************************************************)
(* How a job proves its pull request: the head is resolved, validated and  *)
(* reviewed by two threads, one per lens, and the group of their verdicts  *)
(* sends the job on.  One lane runs the job's effects and reconciles its   *)
(* reviews, a step at a time; its loop may be lost between any two writes. *)
(* Worktree and branch are one: a commit moves the head of both.  The      *)
(* buttons of the owner, the navigator that starts a release and the       *)
(* worker that moves the tree are the environment.                         *)
(***************************************************************************)
EXTENDS Integers, FiniteSets

CONSTANTS
    MaxHeads,       \* heads of the branch
    Groups          \* bound: places for the groups that the job or an effect names

ASSUME ReviewAssumption == MaxHeads \in Nat \ {0} /\ 0 \notin Groups

VARIABLES
    job,            \* the row of jobs, with the group of its review_thread_id
    tree,           \* head of the branch, and whether the worktree is clean
    todo,           \* pending effects
    groups,         \* pairs of review attempts, one for each spawn_review
    lane,           \* where the lane of the job is
    proof           \* the head that was validated last, or that it was kept from before

reviewVars == <<job, tree, todo, groups, lane, proof>>

Lenses == {"quality", "risk"}
Heads == 1 .. MaxHeads
NoHead == 0
NoGroup == 0

JobStates == {"implementing", "resolving_pr_head", "validating", "reviewing",
              "awaiting_merge_approval", "complete", "failed", "blocked", "recovering_worker"}
\* A job that is blocked for its configuration has nothing to resume.
Jobs == [origin : {"requested", "adopted_pr"}, state : JobStates, resume : JobStates \cup {"none"},
         head : Heads \cup {NoHead}, group : Groups \cup {NoGroup}]

\* An attempt: the threads that were started for it, whether it names one, and
\* the evidence it stores.  There is none while the thread works, or works again
\* on a correction; evidence is invalid when the claim of a correction was the
\* last that was written of it, or when a block was written over a verdict
\* ("spoiled"); of a thread that failed there is what the job is to be told.
Failure == {"detected", "owner", "retiring"}
Pending == {"none", "correction"} \cup Failure
Invalid == {"claimed", "spoiled"}
Stored == {"pass", "changes", "blocked", "garbled"} \cup Pending \cup Invalid
Attempt == [started : Nat, named : BOOLEAN, stored : Stored]
NewAttempt == [started |-> 0, named |-> FALSE, stored |-> "none"]
NewGroup(head) == [head |-> head, completed |-> FALSE, lens |-> [l \in Lenses |-> NewAttempt]]
Group == [head : Heads \cup {NoHead}, completed : BOOLEAN, lens : [Lenses -> Attempt]]

\* What a resolution or a validation found is kept with its effect.
Effects ==
    {e \in [kind : {"resolve", "validate", "spawn", "recover"}, group : Groups \cup {NoGroup},
            at : Heads \cup {NoHead}, result : {"none", "pass", "fail"}] :
        e.kind = "spawn" => e.group # NoGroup}
Effect(kind, g) == [kind |-> kind, group |-> g, at |-> NoHead, result |-> "none"]

Free == [at |-> "free", left |-> {}, lens |-> "quality", group |-> NoGroup]
Lanes == [at : {"free", "look", "decide", "recover", "correct", "spawn", "record", "finish"},
          left : SUBSET Lenses, lens : Lenses, group : Groups \cup {NoGroup}]

\* The rows have their types, no job is validated, reviewed or offered without a
\* head, now or when it is resumed, and only one that stopped or recovers has a
\* state to resume (transitionResolvingPrHead, resumeFromExistingPr).
HeadStates == {"validating", "reviewing", "awaiting_merge_approval", "recovering_worker"}
NeedsHead ==
    \/ job.state \in HeadStates
    \/ job.resume \in {"validating", "reviewing"}
ReviewTypeOK ==
    /\ job \in Jobs
    /\ tree \in [head : Heads, clean : BOOLEAN]
    /\ todo \in SUBSET Effects
    /\ groups \in [Groups -> Group]
    /\ lane \in Lanes
    /\ proof \in [head : Heads \cup {NoHead}, kept : BOOLEAN]
    /\ NeedsHead => job.head # NoHead
    /\ job.resume # "none" => job.state \in {"failed", "blocked", "recovering_worker"}

Unproven == [head |-> NoHead, kept |-> FALSE]

\* A job that was requested, in the hands of the navigator, or one that adopted
\* an existing pull request with its head.
ReviewInit ==
    /\ \E origin \in {"requested", "adopted_pr"} :
          job = [origin |-> origin, state |-> "implementing", resume |-> "none",
                 head |-> IF origin = "requested" THEN NoHead ELSE 1, group |-> NoGroup]
    /\ tree = [head |-> 1, clean |-> TRUE]
    /\ todo = {} /\ groups = [g \in Groups |-> NewGroup(NoHead)]
    /\ lane = Free /\ proof = Unproven

-----------------------------------------------------------------------------
(* The state machine: to a state, with the effects that are over and begun.  *)

Goes(state, head, done, begun) ==
    /\ job' = [job EXCEPT !.state = state, !.resume = "none", !.head = head]
    /\ todo' = (todo \ done) \cup begun
Resolves(done) == Goes("resolving_pr_head", NoHead, done, {Effect("resolve", NoGroup)})
Validates(head, done) == Goes("validating", head, done, {Effect("validate", NoGroup)})
Stops(state, resume, done) ==
    /\ job' = [job EXCEPT !.state = state, !.resume = resume]
    /\ todo' = todo \ done

\* A group that neither the job nor an effect names is out of the model, and
\* its place is that of the next one.
Awaited(g) == Effect("spawn", g) \in todo
Named(g) == g = job.group \/ Awaited(g)
Reviews(group, done) ==
    \E g \in Groups :
        /\ ~Named(g)
        /\ job' = [job EXCEPT !.state = "reviewing", !.resume = "none", !.group = group]
        /\ todo' = (todo \ done) \cup {Effect("spawn", g)}
        /\ groups' = [h \in Groups |-> IF h = g THEN NewGroup(job.head)
                                       ELSE IF Named(h) THEN groups[h] ELSE NewGroup(NoHead)]

-----------------------------------------------------------------------------
(* The environment. *)

Commit ==
    /\ tree.head < MaxHeads
    /\ tree' = [head |-> tree.head + 1, clean |-> TRUE]
    /\ UNCHANGED <<job, todo, groups, lane, proof>>

Soil ==
    /\ tree.clean /\ tree.head < MaxHeads
    /\ tree' = [tree EXCEPT !.clean = FALSE]
    /\ UNCHANGED <<job, todo, groups, lane, proof>>

StartRelease ==
    /\ job.state = "implementing"
    /\ Goes("resolving_pr_head", job.head, {}, {Effect("resolve", NoGroup)})
    /\ UNCHANGED <<tree, groups, lane, proof>>

ImplementationFails ==
    /\ job.state = "implementing" /\ job.origin = "adopted_pr"
    /\ Stops("failed", job.state, {})
    /\ UNCHANGED <<tree, groups, lane, proof>>

\* An approval finds another head, or its time runs out.
ApprovalGoesStale ==
    /\ job.state = "awaiting_merge_approval"
    /\ Resolves({})
    /\ UNCHANGED <<tree, groups, lane, proof>>

\* Mutated form of Retry: goes to the review also when the job has no head.
RetryWithoutHead ==
    /\ job.state \in {"failed", "blocked"} /\ job.resume \in {"implementing", "reviewing"}
    /\ Reviews(job.group, {})
    /\ UNCHANGED <<tree, lane, proof>>

\* A job that failed early goes back to its pull request, and if it still has a
\* head straight into its review.
Retry ==
    /\ job.state \in {"failed", "blocked"} /\ job.resume \notin {"none", "recovering_worker"}
    /\ \/ /\ job.resume \in {"implementing", "reviewing"} /\ job.head # NoHead
          /\ Reviews(job.group, {})
          /\ proof' = [proof EXCEPT !.kept = @ \/ job.resume = "implementing"]
       \/ /\ job.resume = "resolving_pr_head" \/ (job.resume = "implementing" /\ job.head = NoHead)
          /\ Goes("resolving_pr_head", job.head, {}, {Effect("resolve", NoGroup)})
          /\ UNCHANGED <<groups, proof>>
       \/ /\ job.resume = "validating"
          /\ Validates(job.head, {})
          /\ UNCHANGED <<groups, proof>>
    /\ UNCHANGED <<tree, lane>>

ContinueReview ==
    /\ job.state = "blocked" /\ job.resume = "none"
    /\ Resolves({})
    /\ UNCHANGED <<tree, groups, lane, proof>>

-----------------------------------------------------------------------------
(* The lane: effects.  One that finds the job in another state is done.      *)

ExpectedState ==
    [resolve |-> "resolving_pr_head", validate |-> "validating", spawn |-> "reviewing",
     recover |-> "recovering_worker"]
Runs(e, kind) ==
    lane.at = "free" /\ e.kind = kind /\ job.state = ExpectedState[kind]

SkipEffect(e) ==
    /\ lane.at = "free" /\ job.state # ExpectedState[e.kind]
    /\ todo' = todo \ {e}
    /\ UNCHANGED <<job, tree, groups, lane, proof>>

\* A worktree that is not clean is published first, which makes a new head; the
\* head is kept with the effect before the job is told of it.
ResolvePrHead(e) ==
    /\ Runs(e, "resolve") /\ e.at = NoHead
    /\ tree' = IF tree.clean THEN tree ELSE [head |-> tree.head + 1, clean |-> TRUE]
    /\ todo' = (todo \ {e}) \cup {[e EXCEPT !.at = tree'.head]}
    /\ UNCHANGED <<job, groups, lane, proof>>

ApplyPrHead(e) ==
    /\ Runs(e, "resolve") /\ e.at # NoHead
    /\ Validates(e.at, {e})
    /\ proof' = Unproven
    /\ UNCHANGED <<tree, groups, lane>>

\* The commands run at the head that the worktree has by then.
RunValidation(e) ==
    /\ Runs(e, "validate") /\ e.result = "none"
    /\ \E result \in {"pass", "fail"} :
          todo' = (todo \ {e}) \cup {[e EXCEPT !.at = tree.head, !.result = result]}
    /\ UNCHANGED <<job, tree, groups, lane, proof>>

\* A pass of another head than the validation was begun for is refused.
ApplyValidation(e) ==
    /\ Runs(e, "validate")
    /\ \/ /\ e.result = "pass" /\ e.at = job.head
          /\ Reviews(job.group, {e})
          /\ proof' = [head |-> e.at, kept |-> FALSE]
       \/ /\ e.result = "fail" /\ e.at = job.head
          /\ Goes("implementing", NoHead, {e}, {})
          /\ UNCHANGED <<groups, proof>>
       \/ /\ e.result = "fail" /\ e.at # job.head
          /\ Resolves({e})
          /\ UNCHANGED <<groups, proof>>
    /\ UNCHANGED <<tree, lane>>

\* The pull request has no head, or the validation cannot run.
EffectFails(e) ==
    /\ Runs(e, "resolve") \/ Runs(e, "validate")
    /\ e.at = NoHead
    /\ Stops("failed", job.state, {e})
    /\ UNCHANGED <<tree, groups, lane, proof>>

\* The attempts of an effect run out.
DeadLetterEffect(e) ==
    /\ Runs(e, e.kind)
    /\ Stops("blocked", job.state, {e})
    /\ UNCHANGED <<tree, groups, lane, proof>>

\* The threads are retired, and the review begins anew.
RecoverWorker(e) ==
    /\ Runs(e, "recover")
    /\ Reviews(NoGroup, {e})
    /\ UNCHANGED <<tree, lane, proof>>

-----------------------------------------------------------------------------
(* The lane: spawn_review.                                                   *)

First(lenses) == IF "quality" \in lenses THEN "quality" ELSE "risk"
Lane(step, left, lens, group) ==
    lane' = [at |-> step, left |-> left, lens |-> lens, group |-> group]
At(step) == lane.at = step

BeginSpawnReview(e) ==
    /\ Runs(e, "spawn")
    /\ Lane("spawn", Lenses, "quality", e.group)
    /\ UNCHANGED <<job, tree, todo, groups, proof>>

\* Mutated form of AdoptOrSpawn: knows only the threads that it has named.
SpawnUnlessNamed ==
    LET l == First(lane.left)
        g == lane.group
    IN  /\ At("spawn") /\ lane.left # {}
        /\ \/ /\ groups[g].lens[l].named
              /\ Lane("spawn", lane.left \ {l}, l, g)
              /\ UNCHANGED groups
           \/ /\ ~groups[g].lens[l].named
              /\ Lane("record", lane.left, l, g)
              /\ groups' = [groups EXCEPT ![g].lens[l].started = @ + 1]
        /\ UNCHANGED <<job, tree, todo, proof>>

\* An attempt has the thread it names, or else the one with its title, or else
\* it is given a new one.
AdoptOrSpawn ==
    LET l == First(lane.left)
        g == lane.group
        attempt == groups[g].lens[l]
        Continues == Lane("spawn", lane.left \ {l}, l, g)
    IN  /\ At("spawn") /\ lane.left # {}
        /\ \/ attempt.named /\ Continues /\ UNCHANGED groups
           \/ ~attempt.named /\ attempt.started = 1
              /\ Continues /\ groups' = [groups EXCEPT ![g].lens[l].named = TRUE]
           \/ ~attempt.named /\ attempt.started = 0
              /\ Lane("record", lane.left, l, g)
              /\ groups' = [groups EXCEPT ![g].lens[l].started = @ + 1]
        /\ UNCHANGED <<job, tree, todo, proof>>

RecordThread ==
    /\ At("record")
    /\ groups' = [groups EXCEPT ![lane.group].lens[lane.lens].named = TRUE]
    /\ Lane("spawn", lane.left \ {lane.lens}, lane.lens, lane.group)
    /\ UNCHANGED <<job, tree, todo, proof>>

RegisterReviewThread ==
    /\ At("spawn") /\ lane.left = {}
    /\ job' = [job EXCEPT !.group = lane.group]
    /\ groups' = [g \in Groups |-> IF Awaited(g) \/ g = lane.group THEN groups[g] ELSE NewGroup(NoHead)]
    /\ Lane("finish", {}, "quality", lane.group)
    /\ UNCHANGED <<tree, todo, proof>>

CompleteSpawnReview ==
    /\ At("finish")
    /\ todo' = todo \ {Effect("spawn", lane.group)}
    /\ lane' = Free
    /\ UNCHANGED <<job, tree, groups, proof>>

-----------------------------------------------------------------------------
(* The lane: a pass over the threads of the group, while no effect is due.   *)

Reconcile ==
    /\ At("free") /\ job.state = "reviewing" /\ job.group # NoGroup
    /\ Lane("look", Lenses, "quality", job.group)
    /\ UNCHANGED <<job, tree, todo, groups, proof>>

\* The evidence of the thread that is looked at next, and where the pass goes.
NextLens == First(lane.left)
Evidence == groups[lane.group].lens[NextLens].stored
Looks == At("look") /\ lane.left # {}
GoesOn(step) == Lane(step, lane.left \ {NextLens}, NextLens, lane.group)
Stores(g, l, stored) == groups' = [groups EXCEPT ![g].lens[l].stored = stored]

\* It still runs, or its failure was recorded, or it is about another head.
PassBy ==
    /\ Looks
    /\ Evidence \in Pending \ {"detected"} \/ groups[lane.group].head # job.head
    /\ GoesOn("look")
    /\ UNCHANGED <<job, tree, todo, groups, proof>>

\* Only a job that adopted its pull request has an implementation thread.
BlockUnowned ==
    /\ Looks /\ Evidence \notin Failure /\ job.origin = "requested"
    /\ Stops("blocked", "none", {}) /\ lane' = Free
    /\ UNCHANGED <<tree, groups, proof>>

\* A failure is recorded, and the job is told of it in another transaction.
RegisterWorkerRecovery ==
    /\ Looks
    /\ \/ Evidence \in {"none", "correction"}
          /\ \E recovery \in {"detected", "owner"} : Stores(lane.group, NextLens, recovery)
       \/ Evidence = "detected" /\ UNCHANGED groups
    /\ GoesOn("recover")
    /\ UNCHANGED <<job, tree, todo, proof>>

ApplyWorkerRecovery ==
    LET recovery == groups[lane.group].lens[lane.lens].stored
    IN  /\ At("recover") /\ lane' = Free
        /\ \/ /\ recovery = "owner"
              /\ Stops("failed", job.state, {})
              /\ UNCHANGED groups
           \/ /\ recovery = "detected"
              /\ job' = [job EXCEPT !.state = "recovering_worker", !.resume = job.state]
              /\ todo' = todo \cup {Effect("recover", NoGroup)}
              /\ Stores(lane.group, lane.lens, "retiring")
        /\ UNCHANGED <<tree, proof>>

\* What an idle thread may have said, when that is stored.
Outputs(stored) ==
    CASE stored \in {"none", "correction", "blocked"} -> {"pass", "changes", "garbled"}
      [] stored \in {"claimed", "garbled"} -> {"garbled"}
      [] stored \in {"pass", "changes", "spoiled"} -> {stored}

\* What its handler stores.  A block is written over the verdict that is there,
\* and changes are not asked for twice of one head.
EnvironmentIsSound == tree.clean /\ tree.head = job.head
Settled(stored, said) ==
    CASE ~EnvironmentIsSound \/ stored \in {"changes", "spoiled"} ->
             IF stored \in {"pass", "changes", "spoiled"} THEN "spoiled" ELSE "blocked"
      [] OTHER ->
             IF said # "garbled" THEN said
             ELSE IF stored \in {"claimed", "correction", "garbled"} THEN "garbled" ELSE "claimed"

HandleThreadIdle ==
    /\ Looks /\ Evidence \notin Failure
    /\ job.origin = "adopted_pr" /\ groups[lane.group].head = job.head
    /\ \E said \in Outputs(Evidence) :
          /\ Stores(lane.group, NextLens, Settled(Evidence, said))
          /\ GoesOn(IF Settled(Evidence, said) = "claimed" THEN "correct" ELSE "decide")
    /\ UNCHANGED <<job, tree, todo, proof>>

SendFormatCorrection ==
    /\ At("correct")
    /\ Stores(lane.group, lane.lens, "correction")
    /\ Lane("look", lane.left, lane.lens, lane.group)
    /\ UNCHANGED <<job, tree, todo, proof>>

\* Mutated form of AssessReviewGroup: a lens that is not settled has no say.
AssessSettledLenses(lens) ==
    LET Is(l, some) == lens[l].stored \in some
        settled == {l \in Lenses : ~Is(l, Pending \cup Invalid)}
    IN  CASE settled = {} -> "pending"
          [] \E l \in settled : Is(l, {"blocked", "garbled"}) -> "blocked"
          [] \A l \in settled : Is(l, {"pass"}) -> "pass"
          [] OTHER -> "changes"

\* The lenses in their order: the first that is not settled decides.
AssessReviewGroup(lens) ==
    LET Is(l, some) == lens[l].stored \in some
        unsettled == {l \in Lenses : Is(l, Pending \cup Invalid)}
    IN  CASE unsettled # {} -> IF Is(First(unsettled), Pending) THEN "pending" ELSE "blocked"
          [] \E l \in Lenses : Is(l, {"blocked", "garbled"}) -> "blocked"
          [] \A l \in Lenses : Is(l, {"pass"}) -> "pass"
          [] OTHER -> "changes"

\* The event of a group completes its attempts, and they are completed once:
\* the transaction of a second event is rolled back.
Completes(state) ==
    IF groups[lane.group].completed
    THEN UNCHANGED <<job, todo, groups>>
    ELSE /\ Goes(state, IF state = "implementing" THEN NoHead ELSE job.head, {}, {})
         /\ groups' = [groups EXCEPT ![lane.group].completed = TRUE]

\* A head that passed may still owe its documentation, and a group that passed
\* is blocked when the diff cannot be read.
Decide ==
    LET verdict == AssessReviewGroup(groups[lane.group].lens)
    IN  /\ At("decide")
        /\ IF verdict = "pending"
           THEN Lane("look", lane.left, lane.lens, lane.group) /\ UNCHANGED <<job, todo, groups>>
           ELSE lane' = Free
        /\ \/ verdict = "pending"
           \/ verdict \in {"blocked", "pass"} /\ Stops("blocked", "none", {}) /\ UNCHANGED groups
           \/ verdict = "changes" /\ Completes("implementing")
           \/ /\ verdict = "pass"
              /\ \E state \in {"implementing", "awaiting_merge_approval", "complete"} : Completes(state)
        /\ UNCHANGED <<tree, proof>>

EndOfPass ==
    /\ At("look") /\ lane.left = {} /\ lane' = Free
    /\ UNCHANGED <<job, tree, todo, groups, proof>>

\* The loop is lost, or an effect fails and backs off: nothing is undone.
LoseLane ==
    /\ ~At("free") /\ lane' = Free
    /\ UNCHANGED <<job, tree, todo, groups, proof>>

-----------------------------------------------------------------------------
ReviewNext ==
    \/ Commit \/ Soil \/ StartRelease \/ ImplementationFails \/ ApprovalGoesStale
    \/ Retry \/ ContinueReview
    \/ \E e \in todo :
          \/ SkipEffect(e) \/ ResolvePrHead(e) \/ ApplyPrHead(e) \/ RunValidation(e) \/ ApplyValidation(e)
          \/ EffectFails(e) \/ DeadLetterEffect(e) \/ RecoverWorker(e) \/ BeginSpawnReview(e)
    \/ AdoptOrSpawn \/ RecordThread \/ RegisterReviewThread \/ CompleteSpawnReview
    \/ Reconcile \/ PassBy \/ BlockUnowned \/ RegisterWorkerRecovery \/ ApplyWorkerRecovery
    \/ HandleThreadIdle \/ SendFormatCorrection \/ Decide \/ EndOfPass \/ LoseLane

ReviewSpec == ReviewInit /\ [][ReviewNext]_reviewVars

-----------------------------------------------------------------------------
(* Properties. *)

\* A job offers its pull request, or completes with it, only at the head that its
\* group reviewed, and only if both lenses passed that very head and it was the last
\* to be validated: whatever was committed, garbled, blocked, retried or reviewed
\* before, and wherever the loop was lost (assessReviewGroup, executorEvidenceGate,
\* transitionReviewing).  A job that failed early with a head is excepted: its
\* retry reviews the head that it kept, which nobody validates (resumeFromExistingPr).
OfferedHeadIsProven ==
    job.state \in {"awaiting_merge_approval", "complete"} =>
        /\ job.group # NoGroup /\ groups[job.group].head = job.head
        /\ \A l \in Lenses : groups[job.group].lens[l].stored = "pass"
        /\ proof.kept \/ proof.head = job.head

\* No lens is ever given two threads, although the loop may be lost between the
\* call that starts a thread and the write that names it: what runs next finds the
\* thread by its title (adoptOrSpawn takes two of a title for split-brain execution).
OneThreadPerLens ==
    \A g \in Groups, l \in Lenses : groups[g].lens[l].started <= 1

=============================================================================
