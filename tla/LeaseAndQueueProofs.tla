-------------------------- MODULE LeaseAndQueueProofs --------------------------
(* Theorems about the two halves of the control plane that stand alone: the   *)
(* executor lease, for any number of competing loops, any lease length and    *)
(* any bound on generations; and the admission queue, for any finite set of   *)
(* jobs, any projects and any sequence of settings of the concurrency cap.    *)
EXTENDS ExecutorLease, Admissions, FiniteSetTheorems, TLAPS

-----------------------------------------------------------------------------
(* The executor lease *)

\* The lease row and the loops keep their shape: acquiring is the only action
\* that changes a generation, and its guard keeps it in range.
LEMMA LeaseTypeStep ==
  ASSUME LeaseTypeOK, [LeaseNext]_leaseVars
  PROVE  LeaseTypeOK'
<1> USE LeaseAssumption DEF LeaseTypeOK, Owners, Generations
<1>1. ASSUME NEW e \in Executors, AcquireExecutorLease(e)
      PROVE  LeaseTypeOK'
  BY <1>1 DEF AcquireExecutorLease
<1>2. ASSUME NEW e \in Executors, RenewExecutorLease(e)
      PROVE  LeaseTypeOK'
  BY <1>2 DEF RenewExecutorLease
<1>3. ASSUME NEW e \in Executors, LoseLease(e)
      PROVE  LeaseTypeOK'
  BY <1>3 DEF LoseLease
<1>4. ASSUME NEW e \in Executors, ReleaseExecutorLease(e)
      PROVE  LeaseTypeOK'
  BY <1>4 DEF ReleaseExecutorLease
<1>5. CASE LeaseTick
  BY <1>5 DEF LeaseTick
<1>6. CASE UNCHANGED leaseVars
  BY <1>6 DEF leaseVars
<1>7. QED
  BY <1>1, <1>2, <1>3, <1>4, <1>5, <1>6 DEF LeaseNext

\* The initial row and loops have their shape.
LEMMA LeaseTypeInit == LeaseInit => LeaseTypeOK
BY LeaseAssumption DEF LeaseInit, LeaseTypeOK, Owners, Generations

\* LeaseTypeOK, always.
THEOREM LeaseTypeCorrect == LeaseSpec => []LeaseTypeOK
BY LeaseTypeInit, LeaseTypeStep, PTL DEF LeaseSpec

-----------------------------------------------------------------------------
\* GenerationNamesOneLoop is inductive once the types are known: an acquiring
\* loop takes a generation above every one in use, and the row's owner changes
\* without its generation only when the row is freed by the loop that works
\* under it, which leaves that generation in the same step.
LEMMA GenerationNamesOneLoopStep ==
  ASSUME LeaseTypeOK, GenerationNamesOneLoop, [LeaseNext]_leaseVars
  PROVE  GenerationNamesOneLoop'
<1> USE LeaseAssumption DEF LeaseTypeOK, Owners, Generations
<1>1. ASSUME NEW e \in Executors, AcquireExecutorLease(e)
      PROVE  GenerationNamesOneLoop'
  <2>1. /\ executorLease' = [owner |-> e, generation |-> executorLease.generation + 1, ttl |-> LeaseMs]
        /\ acquired' = [acquired EXCEPT ![e] = executorLease.generation + 1]
    BY <1>1 DEF AcquireExecutorLease
  <2>2. \A f \in Executors : acquired[f] # 0 => acquired[f] <= executorLease.generation
    BY DEF GenerationNamesOneLoop
  <2>3. executorLease.generation \in Nat
    OBVIOUS
  <2>4. \A f \in Executors : acquired[f] \in Nat /\ acquired[f] <= executorLease.generation
    BY <2>2, <2>3
  <2>5. QED
    BY <2>1, <2>3, <2>4 DEF GenerationNamesOneLoop
<1>2. ASSUME NEW e \in Executors, RenewExecutorLease(e)
      PROVE  GenerationNamesOneLoop'
  BY <1>2 DEF RenewExecutorLease, GenerationNamesOneLoop
<1>3. ASSUME NEW e \in Executors, LoseLease(e)
      PROVE  GenerationNamesOneLoop'
  BY <1>3 DEF LoseLease, GenerationNamesOneLoop
<1>4. ASSUME NEW e \in Executors, ReleaseExecutorLease(e)
      PROVE  GenerationNamesOneLoop'
  BY <1>4 DEF ReleaseExecutorLease, GenerationNamesOneLoop
<1>5. CASE LeaseTick
  BY <1>5 DEF LeaseTick, GenerationNamesOneLoop
<1>6. CASE UNCHANGED leaseVars
  BY <1>6 DEF leaseVars, GenerationNamesOneLoop
<1>7. QED
  BY <1>1, <1>2, <1>3, <1>4, <1>5, <1>6 DEF LeaseNext

\* A generation names one loop, for every number of competing loops: the fence
\* (owner, generation) of a durable write cannot be shared or inherited.
THEOREM GenerationsNameOneLoop == LeaseSpec => []GenerationNamesOneLoop
<1>1. LeaseInit => GenerationNamesOneLoop
  BY DEF LeaseInit, GenerationNamesOneLoop
<1>2. QED
  BY <1>1, GenerationNamesOneLoopStep, LeaseTypeCorrect, PTL DEF LeaseSpec

-----------------------------------------------------------------------------
\* What a fence is worth: two loops are never both current, so of the loops that
\* believe they lead at most one can write.
FencedLoop(e) == acquired[e] # 0 /\ IsExecutorLeaseCurrent(e, acquired[e])

\* isExecutorLeaseCurrent lets at most one loop through at any time.
THEOREM AtMostOneFencedLoop ==
  LeaseSpec => [](\A e, f \in Executors : FencedLoop(e) /\ FencedLoop(f) => e = f)
<1>1. GenerationNamesOneLoop =>
        \A e, f \in Executors : FencedLoop(e) /\ FencedLoop(f) => e = f
  BY DEF GenerationNamesOneLoop, FencedLoop, IsExecutorLeaseCurrent
<1>2. QED
  BY <1>1, GenerationsNameOneLoop, PTL

\* A stale fence stays stale: once the row has moved past generation g, or its
\* lease of g was dropped, no later step makes the pair (owner, g) current again,
\* so a write delayed past a takeover is refused for ever.
StaleFence(g) ==
    \/ executorLease.generation > g
    \/ executorLease.generation = g /\ executorLease.ttl = 0

\* No action of any loop revives a stale fence: an expired lease cannot be
\* renewed, and a new one has a new generation.
THEOREM StaleFencesStayStale ==
  ASSUME NEW g \in Nat
  PROVE  LeaseSpec => [][StaleFence(g) => StaleFence(g)']_leaseVars
<1>1. LeaseTypeOK /\ [LeaseNext]_leaseVars => [StaleFence(g) => StaleFence(g)']_leaseVars
  <2> SUFFICES ASSUME LeaseTypeOK, LeaseNext, StaleFence(g)
               PROVE  StaleFence(g)'
    BY DEF leaseVars
  <2> USE LeaseAssumption DEF LeaseTypeOK, Owners, Generations, StaleFence
  <2>1. ASSUME NEW e \in Executors, AcquireExecutorLease(e)
        PROVE  StaleFence(g)'
    BY <2>1 DEF AcquireExecutorLease
  <2>2. ASSUME NEW e \in Executors, RenewExecutorLease(e)
        PROVE  StaleFence(g)'
    BY <2>2 DEF RenewExecutorLease, IsExecutorLeaseCurrent
  <2>3. ASSUME NEW e \in Executors, LoseLease(e)
        PROVE  StaleFence(g)'
    BY <2>3 DEF LoseLease
  <2>4. ASSUME NEW e \in Executors, ReleaseExecutorLease(e)
        PROVE  StaleFence(g)'
    BY <2>4 DEF ReleaseExecutorLease
  <2>5. CASE LeaseTick
    BY <2>5 DEF LeaseTick
  <2>6. QED
    BY <2>1, <2>2, <2>3, <2>4, <2>5 DEF LeaseNext
<1>2. QED
  BY <1>1, LeaseTypeCorrect, PTL DEF LeaseSpec

-----------------------------------------------------------------------------
(* The admission queue *)

\* A row of job_admissions
Rows == [state : AdmissionStates, seq : 0 .. MaxSeq, resumeEvent : ResumeEvents]

\* What MoveTo does to the rows: one state changes and nothing else.
LEMMA MoveToRows ==
  ASSUME AdmissionsTypeOK, NEW j \in Jobs, NEW state \in AdmissionStates, MoveTo(j, state)
  PROVE  /\ admission' \in [Jobs -> Rows]
         /\ admission'[j].state = state
         /\ \A i \in Jobs \ {j} : admission'[i] = admission[i]
         /\ \A i \in Jobs : admission'[i].seq = admission[i].seq
         /\ UNCHANGED <<nextSeq, cap, paused>>
<1>1. admission \in [Jobs -> Rows]
  BY DEF AdmissionsTypeOK, Rows
<1>2. admission' = [admission EXCEPT ![j] = [admission[j] EXCEPT !.state = state]]
  BY DEF MoveTo
<1>3. [admission[j] EXCEPT !.state = state] \in Rows
  BY <1>1 DEF Rows
<1>4. /\ [admission[j] EXCEPT !.state = state].state = state
      /\ [admission[j] EXCEPT !.state = state].seq = admission[j].seq
  BY <1>1 DEF Rows
<1>5. QED
  BY <1>1, <1>2, <1>3, <1>4 DEF MoveTo

\* What Enqueue does to the rows: one row is written anew with the next number.
LEMMA EnqueueRows ==
  ASSUME AdmissionsTypeOK, NEW j \in Jobs, NEW resumeEvent \in ResumeEvents,
         Enqueue(j, resumeEvent)
  PROVE  /\ admission' \in [Jobs -> Rows]
         /\ admission'[j] = [state |-> "queued", seq |-> nextSeq, resumeEvent |-> resumeEvent]
         /\ \A i \in Jobs \ {j} : admission'[i] = admission[i]
         /\ nextSeq' = nextSeq + 1 /\ nextSeq \in 1 .. MaxSeq
         /\ UNCHANGED <<cap, paused>>
<1>1. admission \in [Jobs -> Rows]
  BY DEF AdmissionsTypeOK, Rows
<1>2. nextSeq \in 1 .. MaxSeq
  BY AdmissionsAssumption DEF AdmissionsTypeOK, Enqueue
<1>3. [state |-> "queued", seq |-> nextSeq, resumeEvent |-> resumeEvent] \in Rows
  BY <1>2, AdmissionsAssumption DEF Rows, AdmissionStates
<1>4. QED
  BY <1>1, <1>2, <1>3 DEF Enqueue

\* What may become of the rows in a step, whatever the action: a case split used
\* by every proof below.
LEMMA AdmissionCases ==
  ASSUME AdmissionsTypeOK, [AdmissionsNext]_admissionVars
  PROVE  \/ \E j \in Jobs, resumeEvent \in ResumeEvents :
              admission[j].state \in {"none", "released"} /\ Enqueue(j, resumeEvent)
         \/ \E j \in Jobs : Admit(j)
         \/ \E j \in Jobs : Drain(j)
         \/ \E j \in Jobs : Release(j)
         \/ admission' = admission /\ nextSeq' = nextSeq /\ cap' \in Caps /\ paused' \subseteq Brakes
<1> USE DEF AdmissionsTypeOK
<1>1. ASSUME NEW j \in Jobs, Queue(j)
      PROVE  admission[j].state \in {"none", "released"} /\ Enqueue(j, "CONFIRMED")
  BY <1>1 DEF Queue
<1>2. ASSUME NEW j \in Jobs, NEW resumeEvent, Requeue(j, resumeEvent)
      PROVE  admission[j].state \in {"none", "released"} /\ Enqueue(j, resumeEvent)
  BY <1>2 DEF Requeue
<1>3. ASSUME NEW c \in Caps, ConfigureCap(c)
      PROVE  admission' = admission /\ nextSeq' = nextSeq /\ cap' \in Caps /\ paused' \subseteq Brakes
  BY <1>3 DEF ConfigureCap
<1>4. ASSUME NEW p \in Brakes, SetPaused(p)
      PROVE  admission' = admission /\ nextSeq' = nextSeq /\ cap' \in Caps /\ paused' \subseteq Brakes
  BY <1>4 DEF SetPaused
<1>5. CASE UNCHANGED admissionVars
  BY <1>5 DEF admissionVars
<1>6. QED
  BY <1>1, <1>2, <1>3, <1>4, <1>5 DEF AdmissionsNext, ResumeEvents

-----------------------------------------------------------------------------
\* A step keeps the shape of the tables.
LEMMA AdmissionsTypeStep ==
  ASSUME AdmissionsTypeOK, [AdmissionsNext]_admissionVars
  PROVE  AdmissionsTypeOK'
<1>1. ASSUME NEW j \in Jobs, NEW resumeEvent \in ResumeEvents, Enqueue(j, resumeEvent)
      PROVE  AdmissionsTypeOK'
  <2>1. /\ admission' \in [Jobs -> Rows]
        /\ nextSeq' = nextSeq + 1 /\ nextSeq \in 1 .. MaxSeq
        /\ UNCHANGED <<cap, paused>>
    BY <1>1, EnqueueRows
  <2>2. nextSeq' \in 1 .. MaxSeq + 1
    BY <2>1, AdmissionsAssumption
  <2>3. QED
    BY <2>1, <2>2 DEF AdmissionsTypeOK, Rows
<1>2. ASSUME NEW j \in Jobs, NEW state \in AdmissionStates, MoveTo(j, state)
      PROVE  AdmissionsTypeOK'
  <2>1. admission' \in [Jobs -> Rows] /\ UNCHANGED <<nextSeq, cap, paused>>
    BY <1>2, MoveToRows
  <2>2. QED
    BY <2>1 DEF AdmissionsTypeOK, Rows
<1>3. CASE admission' = admission /\ nextSeq' = nextSeq /\ cap' \in Caps /\ paused' \subseteq Brakes
  BY <1>3 DEF AdmissionsTypeOK
<1>4. QED
  BY <1>1, <1>2, <1>3, AdmissionCases DEF Admit, Drain, Release, AdmissionStates

\* The initial tables have their shape.
LEMMA AdmissionsTypeInit == AdmissionsInit => AdmissionsTypeOK
BY AdmissionsAssumption
DEF AdmissionsInit, AdmissionsTypeOK, AdmissionStates, ResumeEvents

\* The tables keep their shape, for every queue, cap and brake.
THEOREM AdmissionsTypeCorrect == AdmissionsSpec => []AdmissionsTypeOK
BY AdmissionsTypeInit, AdmissionsTypeStep, PTL DEF AdmissionsSpec

-----------------------------------------------------------------------------
\* SequenceIsTotal speaks of rows that were queued; that the others still carry
\* the number 0 makes it inductive.
SequenceInv ==
    /\ SequenceIsTotal
    /\ \A j \in Jobs : admission[j].state = "none" => admission[j].seq = 0

\* A fresh number is larger than every number in use, so the order stays total.
LEMMA SequenceStep ==
  ASSUME AdmissionsTypeOK, SequenceInv, [AdmissionsNext]_admissionVars
  PROVE  SequenceInv'
<1>1. ASSUME NEW j \in Jobs, NEW resumeEvent \in ResumeEvents, Enqueue(j, resumeEvent)
      PROVE  SequenceInv'
  <2>1. /\ admission'[j] = [state |-> "queued", seq |-> nextSeq, resumeEvent |-> resumeEvent]
        /\ \A i \in Jobs \ {j} : admission'[i] = admission[i]
        /\ nextSeq' = nextSeq + 1
        /\ nextSeq \in 1 .. MaxSeq
    BY <1>1, EnqueueRows
  <2>2. \A i \in Jobs : admission[i].seq \in Nat /\ admission[i].seq < nextSeq
    BY AdmissionsAssumption DEF SequenceInv, SequenceIsTotal, AdmissionsTypeOK
  <2>3. \A i \in Jobs : admission'[i].state # "none" => admission'[i].seq \in 1 .. nextSeq' - 1
    BY <2>1, <2>2, AdmissionsAssumption DEF SequenceInv, SequenceIsTotal, AdmissionsTypeOK
  <2>4. \A i, k \in Jobs : i # k /\ admission'[i].state # "none" => admission'[i].seq # admission'[k].seq
    BY <2>1, <2>2, AdmissionsAssumption DEF SequenceInv, SequenceIsTotal
  <2>5. \A i \in Jobs : admission'[i].state = "none" => admission'[i].seq = 0
    BY <2>1 DEF SequenceInv
  <2>6. QED
    BY <2>3, <2>4, <2>5 DEF SequenceInv, SequenceIsTotal
<1>2. ASSUME NEW j \in Jobs, NEW state \in AdmissionStates \ {"none"}, MoveTo(j, state),
             admission[j].state # "none"
      PROVE  SequenceInv'
  BY <1>2, MoveToRows DEF SequenceInv, SequenceIsTotal
<1>3. CASE admission' = admission /\ nextSeq' = nextSeq
  BY <1>3 DEF SequenceInv, SequenceIsTotal
<1>4. ASSUME NEW j \in Jobs, Admit(j)
      PROVE  admission[j].state # "none"
  BY <1>4 DEF Admit, selectOldestEligibleAdmissions, Oldest, Candidates, QueuedHeads, Queued
<1>5. QED
  BY <1>1, <1>2, <1>3, <1>4, AdmissionCases DEF Admit, Drain, Release, AdmissionStates

\* The queue order is total for any number of jobs queued and requeued.
THEOREM SequenceAlwaysTotal == AdmissionsSpec => []SequenceIsTotal
<1>1. AdmissionsInit => SequenceInv
  BY DEF AdmissionsInit, SequenceInv, SequenceIsTotal
<1>2. SequenceInv => SequenceIsTotal
  BY DEF SequenceInv
<1>3. QED
  BY <1>1, <1>2, SequenceStep, AdmissionsTypeCorrect, PTL DEF AdmissionsSpec

-----------------------------------------------------------------------------
\* What the scheduler's choice guarantees, whatever projects it is told are held:
\* a job at the head of its project's queue, whose project is neither paused nor
\* held, and a free slot for it.
LEMMA SelectedIsEligible ==
  ASSUME AdmissionsTypeOK, NEW held, NEW j \in selectOldestEligibleAdmissions(held)
  PROVE  /\ j \in Jobs /\ admission[j].state = "queued"
         /\ ProjectOf[j] \notin paused /\ ProjectOf[j] \notin held
         /\ \A i \in Jobs : admission[i].state = "queued" /\ ProjectOf[i] = ProjectOf[j] =>
              admission[j].seq <= admission[i].seq
         /\ Cardinality(Occupied) < cap
<1>1. j \in QueuedHeads /\ ProjectOf[j] \notin paused \cup held
  BY DEF selectOldestEligibleAdmissions, Candidates, Oldest
<1>2. /\ j \in Jobs /\ admission[j].state = "queued"
      /\ \A i \in Jobs : admission[i].state = "queued" /\ ProjectOf[i] = ProjectOf[j] =>
           admission[j].seq <= admission[i].seq
  BY <1>1 DEF QueuedHeads, Queued
<1>3. Cardinality(Occupied) < cap
  <2> DEFINE S == {k \in Candidates : ProjectOf[k] \notin paused \cup held}
             Before == {k \in S : admission[k].seq < admission[j].seq}
  <2>1. Cardinality(Before) < AvailableSlots
    BY DEF selectOldestEligibleAdmissions, Oldest
  <2>2. Before \in SUBSET Jobs /\ Occupied \in SUBSET Jobs
    BY DEF Candidates, Oldest, QueuedHeads, Queued, Occupied
  <2>3. Cardinality(Before) \in Nat /\ Cardinality(Occupied) \in Nat
    BY <2>2, AdmissionsAssumption, FS_Subset, FS_CardinalityType
  <2>4. cap \in Nat
    BY AdmissionsAssumption DEF AdmissionsTypeOK
  <2>5. QED
    BY <2>1, <2>3, <2>4 DEF AvailableSlots
<1>4. QED
  BY <1>1, <1>2, <1>3

\* Only Admit makes a job occupy a slot.
LEMMA OccupiedStep ==
  ASSUME AdmissionsTypeOK, [AdmissionsNext]_admissionVars
  PROVE  \/ Occupied' \subseteq Occupied
         \/ \E j \in Jobs : Admit(j) /\ j \notin Occupied /\ Occupied' = Occupied \cup {j}
<1> USE DEF Occupied
<1>1. ASSUME NEW j \in Jobs, NEW resumeEvent \in ResumeEvents, Enqueue(j, resumeEvent)
      PROVE  Occupied' \subseteq Occupied
  <2>1. /\ admission'[j] = [state |-> "queued", seq |-> nextSeq, resumeEvent |-> resumeEvent]
        /\ \A i \in Jobs \ {j} : admission'[i] = admission[i]
    BY <1>1, EnqueueRows
  <2>2. admission'[j].state = "queued"
    BY <2>1
  <2>3. QED
    BY <2>1, <2>2
<1>2. ASSUME NEW j \in Jobs, Admit(j)
      PROVE  j \notin Occupied /\ Occupied' = Occupied \cup {j}
  <2>1. admission[j].state = "queued"
    BY <1>2, SelectedIsEligible DEF Admit
  <2>2. MoveTo(j, "admitted") /\ "admitted" \in AdmissionStates
    BY <1>2 DEF Admit, AdmissionStates
  <2>3. /\ admission'[j].state = "admitted"
        /\ \A i \in Jobs \ {j} : admission'[i] = admission[i]
    BY <2>2, MoveToRows
  <2>4. QED
    BY <2>1, <2>3
<1>3. ASSUME NEW j \in Jobs, Drain(j)
      PROVE  Occupied' \subseteq Occupied
  <2>1. MoveTo(j, "draining") /\ admission[j].state = "admitted" /\ "draining" \in AdmissionStates
    BY <1>3 DEF Drain, AdmissionStates
  <2>2. QED
    BY <2>1, MoveToRows
<1>4. ASSUME NEW j \in Jobs, Release(j)
      PROVE  Occupied' \subseteq Occupied
  <2>1. MoveTo(j, "released") /\ "released" \in AdmissionStates
    BY <1>4 DEF Release, AdmissionStates
  <2>2. QED
    BY <2>1, MoveToRows
<1>5. CASE admission' = admission
  BY <1>5
<1>6. QED
  BY <1>1, <1>2, <1>3, <1>4, <1>5, AdmissionCases

-----------------------------------------------------------------------------
\* A project never runs two jobs, however many are queued, requeued and released.
THEOREM ProjectsRunOneJob == AdmissionsSpec => []OneJobPerProject
<1>1. AdmissionsInit => OneJobPerProject
  BY DEF AdmissionsInit, OneJobPerProject, Occupied
<1>2. AdmissionsTypeOK /\ OneJobPerProject /\ [AdmissionsNext]_admissionVars => OneJobPerProject'
  <2> SUFFICES ASSUME AdmissionsTypeOK, OneJobPerProject, [AdmissionsNext]_admissionVars
               PROVE  OneJobPerProject'
    OBVIOUS
  <2>1. CASE Occupied' \subseteq Occupied
    BY <2>1 DEF OneJobPerProject
  <2>2. ASSUME NEW j \in Jobs, Admit(j), Occupied' = Occupied \cup {j}
        PROVE  OneJobPerProject'
    <3>1. ProjectOf[j] \notin OccupiedProjects
      BY <2>2, SelectedIsEligible DEF Admit
    <3>2. QED
      BY <2>2, <3>1 DEF OneJobPerProject, OccupiedProjects
  <2>3. QED
    BY <2>1, <2>2, OccupiedStep
<1>3. QED
  BY <1>1, <1>2, AdmissionsTypeCorrect, PTL DEF AdmissionsSpec

\* Admission respects the cap in force, even one lowered below what already runs.
THEOREM AdmissionsWithinCap == AdmissionsSpec => AdmissionWithinCap
<1>1. AdmissionsTypeOK /\ [AdmissionsNext]_admissionVars =>
        (Cardinality(Occupied') > Cardinality(Occupied) => Cardinality(Occupied') <= cap)
  <2> SUFFICES ASSUME AdmissionsTypeOK, [AdmissionsNext]_admissionVars,
                      Cardinality(Occupied') > Cardinality(Occupied)
               PROVE  Cardinality(Occupied') <= cap
    OBVIOUS
  <2>1. IsFiniteSet(Occupied) /\ Cardinality(Occupied) \in Nat
    <3>1. Occupied \in SUBSET Jobs
      BY DEF Occupied
    <3>2. QED
      BY <3>1, AdmissionsAssumption, FS_Subset, FS_CardinalityType
  <2>2. CASE Occupied' \subseteq Occupied
    <3>1. Cardinality(Occupied') <= Cardinality(Occupied) /\ Cardinality(Occupied') \in Nat
      BY <2>1, <2>2, FS_Subset, FS_CardinalityType
    <3>2. QED
      BY <2>1, <3>1
  <2>3. ASSUME NEW j \in Jobs, Admit(j), j \notin Occupied, Occupied' = Occupied \cup {j}
        PROVE  Cardinality(Occupied') <= cap
    <3>1. Cardinality(Occupied') = Cardinality(Occupied) + 1
      BY <2>1, <2>3, FS_AddElement
    <3>2. Cardinality(Occupied) < cap
      BY <2>3, SelectedIsEligible DEF Admit
    <3>3. cap \in Nat
      BY AdmissionsAssumption DEF AdmissionsTypeOK
    <3>4. QED
      BY <2>1, <3>1, <3>2, <3>3
  <2>4. QED
    BY <2>2, <2>3, OccupiedStep
<1>2. QED
  BY <1>1, AdmissionsTypeCorrect, PTL DEF AdmissionsSpec, AdmissionWithinCap

\* The order of a project's queue is the order of its admissions.
THEOREM ProjectsAreFifo == AdmissionsSpec => FifoPerProject
<1> DEFINE InOrder ==
      \A j \in Jobs : admission[j].state = "queued" /\ admission'[j].state = "admitted" =>
         /\ ProjectOf[j] \notin paused
         /\ \A i \in Jobs \ {j} :
              admission[i].state = "queued" /\ ProjectOf[i] = ProjectOf[j] =>
                admission[j].seq < admission[i].seq
<1>1. AdmissionsTypeOK /\ SequenceIsTotal /\ [AdmissionsNext]_admissionVars => InOrder
  <2> SUFFICES ASSUME AdmissionsTypeOK, SequenceIsTotal, [AdmissionsNext]_admissionVars,
                      NEW j \in Jobs, admission[j].state = "queued", admission'[j].state = "admitted"
               PROVE  /\ ProjectOf[j] \notin paused
                      /\ \A i \in Jobs \ {j} :
                           admission[i].state = "queued" /\ ProjectOf[i] = ProjectOf[j] =>
                             admission[j].seq < admission[i].seq
    OBVIOUS
  <2>1. Admit(j)
    <3>1. j \notin Occupied /\ j \in Occupied'
      BY DEF Occupied
    <3>2. QED
      BY <3>1, OccupiedStep
  <2>2. /\ ProjectOf[j] \notin paused
        /\ \A i \in Jobs : admission[i].state = "queued" /\ ProjectOf[i] = ProjectOf[j] =>
             admission[j].seq <= admission[i].seq
    BY <2>1, SelectedIsEligible DEF Admit
  <2>3. \A i \in Jobs \ {j} : admission[i].seq # admission[j].seq
    BY DEF SequenceIsTotal
  <2>4. \A i \in Jobs : admission[i].seq \in Int
    BY AdmissionsAssumption DEF AdmissionsTypeOK
  <2>5. QED
    BY <2>2, <2>3, <2>4
<1>2. QED
  BY <1>1, SequenceAlwaysTotal, AdmissionsTypeCorrect, PTL DEF AdmissionsSpec, FifoPerProject
=============================================================================
