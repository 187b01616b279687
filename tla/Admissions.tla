------------------------------ MODULE Admissions ------------------------------
(***************************************************************************)
(* The admission queue (table job_admissions) and the scheduler that       *)
(* empties it: what the control plane promises about slots and projects,   *)
(* whatever the jobs are doing.  A job is queued, admitted to one of the   *)
(* configured slots, drained and released; a project runs one job at a     *)
(* time, in queue order.                                                   *)
(***************************************************************************)
EXTENDS Integers, FiniteSets

CONSTANTS
    Jobs, Projects,
    ProjectOf,      \* ProjectOf[j]: the project job j belongs to
    Caps,           \* the values "Maximum concurrent jobs" is set to
    Brakes,         \* the projects the failure brake may stop
    MaxSeq          \* bound: queue sequence numbers

ASSUME AdmissionsAssumption ==
    /\ IsFiniteSet(Jobs)
    /\ ProjectOf \in [Jobs -> Projects]
    /\ Caps \subseteq Nat \ {0} /\ Caps # {}
    /\ Brakes \subseteq Projects
    /\ MaxSeq \in Nat \ {0}

VARIABLES
    admission,      \* table job_admissions
    nextSeq,        \* autonomy_sequence.next_queue_seq
    cap,            \* the configured concurrency cap
    paused          \* projects held by the failure brake

admissionVars == <<admission, nextSeq, cap, paused>>

AdmissionStates == {"none", "queued", "admitted", "draining", "released"}
ResumeEvents == {"CONFIRMED", "CONTINUE_REVIEW", "RETRY"}

Queued == {j \in Jobs : admission[j].state = "queued"}
Occupied == {j \in Jobs : admission[j].state \in {"admitted", "draining"}}
OccupiedProjects == {ProjectOf[j] : j \in Occupied}
\* Mutated form of AvailableSlots: running jobs are not counted.
AvailableSlotsOfCap == cap

AvailableSlots == IF Cardinality(Occupied) < cap THEN cap - Cardinality(Occupied) ELSE 0

-----------------------------------------------------------------------------
(* The scheduler *)

\* Mutated form of QueuedHeads: every queued admission, not one per project.
QueuedHeadsUngrouped ==
    Queued

\* listOldestQueuedPerProject, without its LIMIT
QueuedHeads ==
    {j \in Queued : \A k \in Queued :
        ProjectOf[k] = ProjectOf[j] => admission[j].seq <= admission[k].seq}

\* The n oldest admissions of S.
Oldest(S, n) ==
    {j \in S : Cardinality({k \in S : admission[k].seq < admission[j].seq}) < n}

\* As many heads as there are slots, occupied or free.
Candidates == Oldest(QueuedHeads, Cardinality(Occupied) + AvailableSlots)

\* Mutated form of selectOldestEligibleAdmissions: projects that already run a job are not dropped.
selectOldestOfAnyProject(heldProjects) ==
    Oldest({j \in Candidates : ProjectOf[j] \notin paused}, AvailableSlots)

\* Only then are the heads of paused projects, and of projects that already run
\* a job, dropped.
selectOldestEligibleAdmissions(heldProjects) ==
    Oldest({j \in Candidates : ProjectOf[j] \notin paused \cup heldProjects}, AvailableSlots)

-----------------------------------------------------------------------------
AdmissionsInit ==
    /\ admission = [j \in Jobs |-> [state |-> "none", seq |-> 0, resumeEvent |-> "CONFIRMED"]]
    /\ nextSeq = 1
    /\ cap \in Caps
    /\ paused = {}

\* Mutated form of Enqueue: a requeued job takes its old place.
EnqueueAtOldSequence(j, resumeEvent) ==
    /\ admission' = [admission EXCEPT ![j] =
                        [state |-> "queued", seq |-> IF admission[j].seq = 0 THEN nextSeq ELSE admission[j].seq, resumeEvent |-> resumeEvent]]
    /\ nextSeq' = IF admission[j].seq = 0 THEN nextSeq + 1 ELSE nextSeq
    /\ UNCHANGED <<cap, paused>>

\* queueAdmissionInTransaction: a fresh sequence number, whoever queues.
Enqueue(j, resumeEvent) ==
    /\ nextSeq <= MaxSeq
    /\ admission' = [admission EXCEPT ![j] =
                        [state |-> "queued", seq |-> nextSeq, resumeEvent |-> resumeEvent]]
    /\ nextSeq' = nextSeq + 1
    /\ UNCHANGED <<cap, paused>>

Queue(j) == admission[j].state = "none" /\ Enqueue(j, "CONFIRMED")

Requeue(j, resumeEvent) == admission[j].state = "released" /\ Enqueue(j, resumeEvent)

MoveTo(j, state) ==
    /\ admission' = [admission EXCEPT ![j].state = state]
    /\ UNCHANGED <<nextSeq, cap, paused>>

Admit(j) ==
    /\ j \in selectOldestEligibleAdmissions(OccupiedProjects)
    /\ MoveTo(j, "admitted")

Drain(j) == admission[j].state = "admitted" /\ MoveTo(j, "draining")

\* A queued admission is released when its job is cancelled.
Release(j) == admission[j].state \in {"queued", "draining"} /\ MoveTo(j, "released")

\* The cap is read at every pass; lowering it preempts nothing.
ConfigureCap(c) ==
    /\ cap' = c
    /\ UNCHANGED <<admission, nextSeq, paused>>

\* The failure brake stops a project; /resume starts it again.
SetPaused(p) ==
    /\ paused' = IF p \in paused THEN paused \ {p} ELSE paused \cup {p}
    /\ UNCHANGED <<admission, nextSeq, cap>>

AdmissionsNext ==
    \/ \E j \in Jobs :
         \/ Queue(j)
         \/ \E resumeEvent \in {"CONTINUE_REVIEW", "RETRY"} : Requeue(j, resumeEvent)
         \/ Admit(j)
         \/ Drain(j)
         \/ Release(j)
    \/ \E c \in Caps : ConfigureCap(c)
    \/ \E p \in Brakes : SetPaused(p)

AdmissionsSpec == AdmissionsInit /\ [][AdmissionsNext]_admissionVars

(* The scheduler runs at every pass of the loop, and a job that was admitted *)
(* ends sooner or later and is drained and released.                         *)
FairAdmissionsSpec ==
    /\ AdmissionsSpec
    /\ WF_admissionVars(\E j \in Jobs : Admit(j))
    /\ \A j \in Jobs : WF_admissionVars(Drain(j))
    /\ \A j \in Jobs : WF_admissionVars(admission[j].state = "draining" /\ Release(j))

-----------------------------------------------------------------------------
\* Every variable has the shape its table gives it.
AdmissionsTypeOK ==
    /\ admission \in [Jobs -> [state : AdmissionStates, seq : 0 .. MaxSeq, resumeEvent : ResumeEvents]]
    /\ nextSeq \in 1 .. MaxSeq + 1
    /\ cap \in Caps
    /\ paused \subseteq Brakes

\* Two admissions that have ever been queued have different sequence numbers, all
\* below the next one: the queue order is total.
SequenceIsTotal ==
    \A i, j \in Jobs :
        /\ admission[i].state # "none" => admission[i].seq \in 1 .. nextSeq - 1
        /\ i # j /\ admission[i].state # "none" => admission[i].seq # admission[j].seq

\* A project runs one job at a time.
OneJobPerProject ==
    \A i, j \in Occupied : ProjectOf[i] = ProjectOf[j] => i = j

\* Admitting a job never takes more slots than the cap in force, even when the
\* cap was just lowered under running jobs.
AdmissionWithinCap ==
    [][Cardinality(Occupied') > Cardinality(Occupied) => Cardinality(Occupied') <= cap]_admissionVars

\* Within a project jobs are admitted in the order they were queued, and never
\* while the project is paused.
FifoPerProject ==
    [][\A j \in Jobs : admission[j].state = "queued" /\ admission'[j].state = "admitted" =>
         /\ ProjectOf[j] \notin paused
         /\ \A i \in Jobs \ {j} :
              admission[i].state = "queued" /\ ProjectOf[i] = ProjectOf[j] =>
                admission[j].seq < admission[i].seq]_admissionVars

\* With no project paused, nobody waits in the queue for ever: later arrivals
\* and requeued jobs go behind, and the heads of held projects do not fill the
\* scheduler's candidate list.
QueuedJobsAreServed ==
    \A j \in Jobs : ~<>[](admission[j].state = "queued" /\ paused = {})

\* docs/configuration.md:397 says of a paused project that "other projects are
\* unaffected": while a slot is free and some project that is neither paused nor
\* running a job has one queued, the scheduler finds a job to admit.
PausedProjectsDoNotBlockOthers ==
    AvailableSlots > 0 /\ (\E j \in Queued : ProjectOf[j] \notin paused \cup OccupiedProjects) =>
        selectOldestEligibleAdmissions(OccupiedProjects) # {}
=============================================================================
