---------------------------- MODULE Obligations ----------------------------
(***************************************************************************)
(* What the agent is owed.  A delegation fans work out to BB threads and   *)
(* joins their results; a watch waits for one thread to land.  The         *)
(* executor loop sweeps both: it awaits BB for each thread, claims in the  *)
(* table what is due, and only then enqueues the turn that wakes the       *)
(* agent.  A sweep holds no fence: that of a lost loop goes on beside that *)
(* of the next one, and the delegating tool publishes its threads one by   *)
(* one meanwhile.  Schedules, texts and the cap on watches are left out.   *)
(***************************************************************************)
EXTENDS Integers, FiniteSets

CONSTANTS
    Delegations,
    MaxTasks,           \* MAX_DELEGATION_THREADS
    MaxOpen,            \* MAX_OPEN_DELEGATIONS
    Watches,            \* rows of monitors that watch one and the same thread
    Sweepers,           \* loops; one that lost the executor lease still sweeps
    NoItem

ASSUME ObligationsAssumption ==
    /\ Delegations \cap Watches = {} /\ NoItem \notin Delegations \cup Watches
    /\ IsFiniteSet(Delegations)
    /\ MaxTasks \in Nat \ {0} /\ MaxOpen \in Nat \ {0}

VARIABLES
    delegations,    \* table delegations, and whether the deadline has passed
    members,        \* table delegation_threads
    publishing,     \* the tool call that publishes a delegation
    monitors,       \* table monitors
    sweeps,         \* where the sweep of each loop is
    wakes,          \* turns enqueued for each claim
    reported        \* what the turn of each join said

obligationVars == <<delegations, members, publishing, monitors, sweeps, wakes, reported>>

Tasks == 1 .. MaxTasks
Items == Delegations \cup Watches
\* A claim on an item: it is due, or its thread t (a watch has one) stalls.
Due == 0
Claims == Due .. MaxTasks
NoClaim == -1

NoDelegation == [state |-> "none", sealed |-> FALSE, expired |-> FALSE]
NoMember == [state |-> "none", notified |-> FALSE]
NoWatch == [state |-> "none", settling |-> FALSE, notified |-> FALSE]
\* The row swept, the threads still to ask for, whether the deadline had passed
\* when it began, what it read again since, and the claim it owes a turn for.
NoSweep == [of |-> NoItem, at |-> "none", rest |-> {}, late |-> FALSE,
            sealed |-> FALSE, running |-> {}, settled |-> {}, owes |-> NoClaim]

DelegationRow == [state : {"none", "open", "fired", "failed", "cancelled"},
                  sealed : BOOLEAN, expired : BOOLEAN]
MemberRow == [state : {"none", "running", "settled"}, notified : BOOLEAN]
Publication == [at : {"none", "spawn", "add", "seal"}, started : 0 .. MaxTasks]
MonitorRow == [state : {"none", "armed", "done", "cancelled"},
               settling : BOOLEAN, notified : BOOLEAN]
Sweep == [of : Items \cup {NoItem}, at : {"none", "settle", "stall", "status", "quiet"},
          rest : SUBSET Tasks, late : BOOLEAN, sealed : BOOLEAN,
          running : SUBSET Tasks, settled : SUBSET Tasks, owes : Claims \cup {NoClaim}]
Report == [settled : SUBSET Tasks, late : BOOLEAN]

ObligationsTypeOK ==
    /\ delegations \in [Delegations -> DelegationRow]
    /\ members \in [Delegations -> [Tasks -> MemberRow]]
    /\ publishing \in [Delegations -> Publication]
    /\ monitors \in [Watches -> MonitorRow]
    /\ sweeps \in [Sweepers -> Sweep]
    /\ wakes \in [Items -> [Claims -> Nat]]
    /\ reported \in [Delegations -> Report]

ObligationsInit ==
    /\ delegations = [d \in Delegations |-> NoDelegation]
    /\ members = [d \in Delegations |-> [t \in Tasks |-> NoMember]]
    /\ publishing = [d \in Delegations |-> [at |-> "none", started |-> 0]]
    /\ monitors = [w \in Watches |-> NoWatch]
    /\ sweeps = [s \in Sweepers |-> NoSweep]
    /\ wakes = [i \in Items |-> [c \in Claims |-> 0]]
    /\ reported = [d \in Delegations |-> [settled |-> {}, late |-> FALSE]]

-----------------------------------------------------------------------------
(* The delegating tool: one transaction per thread, with a spawn before it. *)

Open(d) == delegations[d].state = "open"
InState(d, state) == {t \in Tasks : members[d][t].state = state}
\* The tool's step, and what it is at after it
Publishes(d, from, to) ==
    publishing[d].at = from /\ publishing' = [publishing EXCEPT ![d].at = to]
toolOnly == <<monitors, sweeps, wakes, reported>>

CreateDelegation(d) ==
    /\ delegations[d].state = "none"
    /\ Cardinality({e \in Delegations : Open(e)}) < MaxOpen
    /\ Publishes(d, "none", "spawn")
    /\ delegations' = [delegations EXCEPT ![d].state = "open"]
    /\ UNCHANGED <<members, toolOnly>>

SpawnMember(d) ==
    /\ publishing[d].started < MaxTasks
    /\ Publishes(d, "spawn", "add")
    /\ UNCHANGED <<delegations, members, toolOnly>>

\* The first spawn fails: there is nothing to wait for.
CancelDelegation(d) ==
    /\ publishing[d].started = 0
    /\ Publishes(d, "spawn", "none")
    /\ delegations' = IF Open(d) THEN [delegations EXCEPT ![d].state = "cancelled"] ELSE delegations
    /\ UNCHANGED <<members, toolOnly>>

\* A member that is rejected, because the join is over, ends the fan-out.
AddDelegationThread(d) ==
    LET t == publishing[d].started + 1
    IN  /\ publishing[d].at = "add"
        /\ IF Open(d)
           THEN /\ members' = [members EXCEPT ![d][t].state = "running"]
                /\ publishing' = [publishing EXCEPT ![d] = [at |-> "spawn", started |-> t]]
           ELSE /\ publishing' = [publishing EXCEPT ![d].at = "seal"]
                /\ UNCHANGED members
        /\ UNCHANGED <<delegations, toolOnly>>

\* The tasks are all started, the next could not be, or one was rejected.
SealDelegation(d) ==
    /\ \/ Publishes(d, "spawn", "none") /\ publishing[d].started > 0
       \/ Publishes(d, "seal", "none")
    /\ delegations' = IF Open(d) THEN [delegations EXCEPT ![d].sealed = TRUE] ELSE delegations
    /\ UNCHANGED <<members, toolOnly>>

\* runControllerMutation throws: the turn is no longer the caller's.
ToolStops(d) ==
    /\ publishing[d].at # "none"
    /\ publishing' = [publishing EXCEPT ![d].at = "none"]
    /\ UNCHANGED <<delegations, members, toolOnly>>

-----------------------------------------------------------------------------
(* The sweep over open delegations (processDueDelegations). *)

Sweeping(s, at) == sweeps[s].at = at /\ sweeps[s].owes = NoClaim
Go(s, sweep) == sweeps' = [sweeps EXCEPT ![s] = sweep]
IsNext(s, t) == t \in sweeps[s].rest /\ \A u \in sweeps[s].rest : t <= u
Asked(s, t) == [sweeps[s] EXCEPT !.rest = @ \ {t}]
Owing(s, claim) == [sweeps[s] EXCEPT !.owes = claim]
sweepOnly == <<publishing, wakes, reported>>

SweepDelegation(s, d) ==
    /\ Sweeping(s, "none")
    /\ Open(d)
    /\ Go(s, [NoSweep EXCEPT !.of = d, !.at = "settle", !.rest = InState(d, "running"),
                             !.late = delegations[d].expired])
    /\ UNCHANGED <<delegations, members, monitors, sweepOnly>>

\* BB says that the thread has landed, that it is at work, or nothing.
SettleMember(s, t) ==
    LET d == sweeps[s].of
    IN  /\ Sweeping(s, "settle") /\ IsNext(s, t)
        /\ Go(s, Asked(s, t))
        /\ \/ /\ members[d][t].state = "running"
              /\ members' = [members EXCEPT ![d][t].state = "settled"]
           \/ UNCHANGED members
        /\ UNCHANGED <<delegations, monitors, sweepOnly>>

\* The row is read again before it is judged.
RereadDelegation(s) ==
    LET d == sweeps[s].of
    IN  /\ Sweeping(s, "settle") /\ sweeps[s].rest = {}
        /\ Go(s, IF Open(d)
                 THEN [sweeps[s] EXCEPT !.at = "stall", !.sealed = delegations[d].sealed,
                           !.running = InState(d, "running"), !.settled = InState(d, "settled"),
                           !.rest = {t \in InState(d, "running") : ~members[d][t].notified}]
                 ELSE NoSweep)
        /\ UNCHANGED <<delegations, members, monitors, sweepOnly>>

\* A thread that stalls is claimed, unless it settled or was claimed meanwhile.
EscalateStalledMember(s, t) ==
    LET d == sweeps[s].of
        claims == members[d][t] = [state |-> "running", notified |-> FALSE]
    IN  /\ Sweeping(s, "stall") /\ IsNext(s, t)
        /\ \/ /\ claims
              /\ members' = [members EXCEPT ![d][t].notified = TRUE]
              /\ Go(s, [Asked(s, t) EXCEPT !.owes = t])
           \/ UNCHANGED members /\ Go(s, Asked(s, t))
        /\ UNCHANGED <<delegations, monitors, sweepOnly>>

\* Mutated form of IsEmpty: only a fan-out that ended is given up.
IsEmptyAndSealed(sweep) ==
    sweep.running \cup sweep.settled = {} /\ sweep.late /\ sweep.sealed

\* Nothing was recorded, and time is up.
IsEmpty(sweep) == sweep.running \cup sweep.settled = {} /\ sweep.late

\* Mutated form of IsDue: the threads recorded so far are taken for all.
IsDueUnsealed(sweep) ==
    /\ sweep.running \cup sweep.settled # {}
    /\ sweep.late \/ sweep.running = {}

\* What was read is complete, or late.
IsDue(sweep) ==
    /\ sweep.running \cup sweep.settled # {}
    /\ sweep.late \/ (sweep.sealed /\ sweep.running = {})
\* The row as it was read is judged; it may have been closed since.
Judging(s) == Sweeping(s, "stall") /\ sweeps[s].rest = {}

\* Mutated form of RecordDelegationFired: the row is not asked again.
FireAsRead(s) ==
    LET d == sweeps[s].of
    IN  /\ Judging(s) /\ IsDue(sweeps[s])
        /\ delegations' = [delegations EXCEPT ![d].state = "fired"]
        /\ Go(s, Owing(s, Due))
        /\ UNCHANGED <<members, monitors, sweepOnly>>

RecordDelegationFired(s) ==
    LET d == sweeps[s].of
    IN  /\ Judging(s) /\ IsDue(sweeps[s]) /\ Open(d)
        /\ delegations' = [delegations EXCEPT ![d].state = "fired"]
        /\ Go(s, Owing(s, Due))
        /\ UNCHANGED <<members, monitors, sweepOnly>>

\* A delegation that recorded no work by its deadline gives its place back.
FailDelegation(s) ==
    LET d == sweeps[s].of
    IN  /\ Judging(s) /\ IsEmpty(sweeps[s]) /\ Open(d)
        /\ delegations' = [delegations EXCEPT ![d].state = "failed"]
        /\ Go(s, NoSweep)
        /\ UNCHANGED <<members, monitors, sweepOnly>>

LeaveDelegation(s) ==
    /\ Judging(s)
    /\ Open(sweeps[s].of) => ~IsDue(sweeps[s]) /\ ~IsEmpty(sweeps[s])
    /\ Go(s, NoSweep)
    /\ UNCHANGED <<delegations, members, monitors, sweepOnly>>

-----------------------------------------------------------------------------
(* Watches: the agent arms them, and every pass sweeps them (processDue). *)

Armed(w) == monitors[w].state = "armed"
Watching(w) == Armed(w) /\ ~monitors[w].settling
watchOnly == <<delegations, members, publishing, reported>>

\* An explicit watch takes over the armed row of the thread, or a new one.
\* (Pushing back a time that is not over yet changes nothing here.)
EnsureThreadWatch(w) ==
    /\ \/ Watching(w)
       \/ monitors[w].state = "none" /\ \A v \in Watches : ~Armed(v)
    /\ monitors' = [monitors EXCEPT ![w].state = "armed", ![w].settling = TRUE]
    /\ UNCHANGED <<watchOnly, sweeps, wakes>>

CancelMonitor(w) ==
    /\ Armed(w)
    /\ monitors' = [monitors EXCEPT ![w].state = "cancelled"]
    /\ UNCHANGED <<watchOnly, sweeps, wakes>>

\* A row that is settling is not asked for; stalls are looked for now and then.
SweepWatch(s, w) ==
    /\ Sweeping(s, "none")
    /\ Armed(w)
    /\ \E stalls \in SUBSET {1} :
          /\ monitors[w].notified => stalls = {}
          /\ Go(s, [NoSweep EXCEPT !.of = w, !.rest = stalls,
                                   !.at = IF monitors[w].settling THEN "quiet" ELSE "status"])
    /\ UNCHANGED <<watchOnly, monitors, wakes>>

\* The thread has landed: whoever takes the armed row, as it now is, fires it.
RecordMonitorFired(s) ==
    LET w == sweeps[s].of
    IN  /\ Sweeping(s, "status")
        /\ IF Armed(w)
           THEN /\ monitors' = [monitors EXCEPT ![w].state = "done", ![w].settling = FALSE]
                /\ Go(s, Owing(s, Due))
           ELSE UNCHANGED monitors /\ Go(s, NoSweep)
        /\ UNCHANGED <<watchOnly, wakes>>

\* It is at work, or cannot be asked.
WatchIsNotDue(s) ==
    /\ Sweeping(s, "status")
    /\ \/ Go(s, [sweeps[s] EXCEPT !.at = "quiet"])
       \/ Go(s, NoSweep)
    /\ UNCHANGED <<watchOnly, monitors, wakes>>

EscalateStalledWatch(s) ==
    LET w == sweeps[s].of
    IN  /\ Sweeping(s, "quiet")
        /\ \/ /\ sweeps[s].rest # {} /\ Armed(w) /\ ~monitors[w].notified
              /\ monitors' = [monitors EXCEPT ![w].notified = TRUE]
              /\ Go(s, Owing(s, 1))
           \/ UNCHANGED monitors /\ Go(s, NoSweep)
        /\ UNCHANGED <<watchOnly, wakes>>

-----------------------------------------------------------------------------
(* The turn that wakes the agent is a transaction of its own. *)

EnqueueWake(s) ==
    LET i == sweeps[s].of
        claim == sweeps[s].owes
    IN  /\ claim # NoClaim
        /\ wakes' = [wakes EXCEPT ![i][claim] = @ + 1]
        /\ reported' = IF i \in Delegations /\ claim = Due
                       THEN [reported EXCEPT ![i] = [settled |-> sweeps[s].settled,
                                                     late |-> sweeps[s].late]]
                       ELSE reported
        /\ Go(s, IF i \in Delegations /\ claim # Due THEN Owing(s, NoClaim) ELSE NoSweep)
        /\ UNCHANGED <<delegations, members, publishing, monitors>>

SweepGoesOn(s) ==
    \/ \E t \in Tasks : SettleMember(s, t) \/ EscalateStalledMember(s, t)
    \/ RereadDelegation(s) \/ RecordDelegationFired(s) \/ FailDelegation(s) \/ LeaveDelegation(s)
    \/ RecordMonitorFired(s) \/ WatchIsNotDue(s) \/ EscalateStalledWatch(s)
    \/ EnqueueWake(s)

-----------------------------------------------------------------------------
(* The clock and the process *)

DeadlinePasses(d) ==
    /\ Open(d) /\ ~delegations[d].expired
    /\ delegations' = [delegations EXCEPT ![d].expired = TRUE]
    /\ UNCHANGED <<members, publishing, monitors, sweeps, wakes, reported>>

SettlingMinuteEnds(w) ==
    /\ monitors[w].settling
    /\ monitors' = [monitors EXCEPT ![w].settling = FALSE]
    /\ UNCHANGED <<watchOnly, sweeps, wakes>>

ProcessDies ==
    /\ sweeps' = [s \in Sweepers |-> NoSweep]
    /\ publishing' = [d \in Delegations |-> [publishing[d] EXCEPT !.at = "none"]]
    /\ UNCHANGED <<delegations, members, monitors, wakes, reported>>

DelegationNext ==
    \E d \in Delegations :
        \/ CreateDelegation(d) \/ SpawnMember(d) \/ CancelDelegation(d)
        \/ AddDelegationThread(d) \/ SealDelegation(d) \/ ToolStops(d)
        \/ DeadlinePasses(d)
        \/ \E s \in Sweepers : SweepDelegation(s, d)

WatchNext ==
    \E w \in Watches :
        \/ EnsureThreadWatch(w) \/ CancelMonitor(w) \/ SettlingMinuteEnds(w)
        \/ \E s \in Sweepers : SweepWatch(s, w)

SweepNext == ProcessDies \/ \E s \in Sweepers : SweepGoesOn(s)

ObligationsNext == DelegationNext \/ WatchNext \/ SweepNext

ObligationsSpec == ObligationsInit /\ [][ObligationsNext]_obligationVars

-----------------------------------------------------------------------------
(* Properties *)

\* However the tool publishes, the threads land and the loops overlap, a join
\* that did not run into its deadline reports every thread that the agent was
\* told had been started, each with its result.
JoinsReportEveryMember ==
    \A d \in Delegations : wakes[d][Due] > 0 =>
        reported[d].late \/ 1 .. publishing[d].started \subseteq reported[d].settled

\* The agent is woken at most once for a join, for a watch and for a stall,
\* with two loops that sweep the same rows and crashes between claim and turn.
OneWakePerClaim ==
    \A i \in Items, c \in Claims : wakes[i][c] <= 1

\* A delegation does not hold its place for ever: whatever its tool and its
\* threads do, and wherever a loop or the process stops, it is closed.
EveryDelegationEnds ==
    \A d \in Delegations : Open(d) ~> ~Open(d)
=============================================================================
