------------------------- MODULE ObligationsProofs -------------------------
(***************************************************************************)
(* What Obligations keeps for every number of delegations, tasks, watches  *)
(* and sweeping loops.  A claim is worth one turn: while a row can still   *)
(* be claimed nobody owes a turn for it, and once it is claimed exactly    *)
(* one sweep does, until the turn is enqueued or the sweep dies.  A sweep  *)
(* that read a sealed delegation read all of its threads, because the      *)
(* tool that publishes them has stopped.                                   *)
(***************************************************************************)
EXTENDS Obligations, TLAPS

Owes(s, i, c) == sweeps[s].of = i /\ sweeps[s].owes = c

\* Whether the claim can still be made
StillOpen(i, c) ==
    IF i \in Delegations
    THEN IF c = Due THEN delegations[i].state \in {"none", "open"} ELSE ~members[i][c].notified
    ELSE IF c = Due THEN monitors[i].state \in {"none", "armed"}
                    ELSE c = 1 => ~monitors[i].notified

ClaimsAreExclusive ==
    \A i \in Items, c \in Claims :
        /\ wakes[i][c] <= 1
        /\ StillOpen(i, c) => wakes[i][c] = 0 /\ \A s \in Sweepers : ~Owes(s, i, c)
        /\ \A s \in Sweepers : Owes(s, i, c) => wakes[i][c] = 0
        /\ \A r, s \in Sweepers : Owes(r, i, c) /\ Owes(s, i, c) => r = s

\* A sweep is about a row of the table it sweeps.
SweepsHaveRows ==
    \A s \in Sweepers :
        /\ sweeps[s].at \in {"settle", "stall"} => sweeps[s].of \in Delegations
        /\ sweeps[s].at \in {"status", "quiet"} => sweeps[s].of \in Watches
        /\ sweeps[s].owes # NoClaim => sweeps[s].at \in {"stall", "status", "quiet"}

\* A thread that the tool counts as started has its row.
StartedIsRecorded ==
    \A d \in Delegations : \A t \in 1 .. publishing[d].started : members[d][t].state # "none"

\* The tool does not spawn more threads than it has tasks.
AddingHasRoom ==
    \A d \in Delegations : publishing[d].at = "add" => publishing[d].started < MaxTasks

\* The tool that sealed a delegation publishes nothing more.
SealedIsOver ==
    \A d \in Delegations : delegations[d].sealed =>
        publishing[d].at = "none" /\ delegations[d].state # "none"

Complete(d, tasks) == delegations[d].sealed /\ 1 .. publishing[d].started \subseteq tasks

ReadIsComplete ==
    \A s \in Sweepers :
        sweeps[s].at = "stall" /\ sweeps[s].sealed =>
            Complete(sweeps[s].of, sweeps[s].running \cup sweeps[s].settled)

OwedIsComplete ==
    \A s \in Sweepers : sweeps[s].at = "stall" /\ sweeps[s].owes = Due =>
        sweeps[s].late \/ Complete(sweeps[s].of, sweeps[s].settled)

ReportIsComplete ==
    \A d \in Delegations : wakes[d][Due] > 0 =>
        reported[d].late \/ Complete(d, reported[d].settled)

ObligationsInv ==
    /\ ObligationsTypeOK
    /\ ClaimsAreExclusive
    /\ SweepsHaveRows
    /\ AddingHasRoom
    /\ StartedIsRecorded
    /\ SealedIsOver
    /\ ReadIsComplete
    /\ OwedIsComplete
    /\ ReportIsComplete

LEMMA ConstantFacts ==
    /\ Due \in Claims /\ NoClaim \notin Claims /\ 1 \in Claims /\ Due = 0 /\ NoClaim = -1
    /\ Tasks \subseteq Claims /\ Tasks \subseteq Int /\ Claims \subseteq Int
    /\ \A t \in Tasks : t # Due /\ t \in Nat /\ t \in 1 .. MaxTasks
    /\ MaxTasks \in Nat /\ MaxTasks > 0
    /\ NoItem \notin Items /\ Delegations \subseteq Items /\ Watches \subseteq Items
    /\ \A w \in Watches : w \notin Delegations
    /\ NoSweep \in Sweep /\ NoSweep.of = NoItem /\ NoSweep.owes = NoClaim /\ NoSweep.at = "none"
<1>1. /\ Due \in Claims /\ NoClaim \notin Claims /\ 1 \in Claims /\ Due = 0 /\ NoClaim = -1
      /\ Tasks \subseteq Claims /\ Tasks \subseteq Int /\ Claims \subseteq Int
      /\ \A t \in Tasks : t # Due /\ t \in Nat /\ t \in 1 .. MaxTasks
      /\ MaxTasks \in Nat /\ MaxTasks > 0
  BY ObligationsAssumption DEF Due, Claims, NoClaim, Tasks
<1>2. /\ NoItem \notin Items /\ Delegations \subseteq Items /\ Watches \subseteq Items
      /\ \A w \in Watches : w \notin Delegations
  BY ObligationsAssumption DEF Items
<1>3. NoSweep \in Sweep /\ NoSweep.of = NoItem /\ NoSweep.owes = NoClaim /\ NoSweep.at = "none"
  BY DEF NoSweep, Sweep
<1> QED BY <1>1, <1>2, <1>3

-----------------------------------------------------------------------------
(* Claims *)

\* A step that claims nothing and enqueues nothing
LEMMA NothingIsClaimed ==
    ASSUME ClaimsAreExclusive, wakes' = wakes,
           \A s \in Sweepers, i \in Items, c \in Claims : Owes(s, i, c)' => Owes(s, i, c),
           \A i \in Items, c \in Claims : StillOpen(i, c)' => StillOpen(i, c)
    PROVE  ClaimsAreExclusive'
BY DEF ClaimsAreExclusive

\* A sweep that takes a claim nobody has owes the only turn for it.
LEMMA OneIsClaimed ==
    ASSUME ClaimsAreExclusive, wakes' = wakes,
           NEW r \in Sweepers, NEW j \in Items, NEW b \in Claims,
           StillOpen(j, b), ~StillOpen(j, b)',
           \A s \in Sweepers, i \in Items, c \in Claims :
               Owes(s, i, c)' => Owes(s, i, c) \/ (s = r /\ i = j /\ c = b),
           \A i \in Items, c \in Claims : StillOpen(i, c)' => StillOpen(i, c)
    PROVE  ClaimsAreExclusive'
<1> SUFFICES ASSUME NEW i \in Items, NEW c \in Claims
             PROVE  /\ wakes[i][c] <= 1
                    /\ StillOpen(i, c)' =>
                          wakes[i][c] = 0 /\ \A s \in Sweepers : ~Owes(s, i, c)'
                    /\ \A s \in Sweepers : Owes(s, i, c)' => wakes[i][c] = 0
                    /\ \A q, s \in Sweepers : Owes(q, i, c)' /\ Owes(s, i, c)' => q = s
  BY DEF ClaimsAreExclusive
<1>1. CASE i = j /\ c = b
  BY <1>1 DEF ClaimsAreExclusive
<1>2. CASE ~(i = j /\ c = b)
  BY <1>2 DEF ClaimsAreExclusive
<1> QED BY <1>1, <1>2

-----------------------------------------------------------------------------
(* One row of a table changes. *)

LEMMA GoStep ==
    ASSUME sweeps \in [Sweepers -> Sweep], NEW s \in Sweepers, NEW sweep \in Sweep, Go(s, sweep)
    PROVE  /\ sweeps' \in [Sweepers -> Sweep]
           /\ sweeps'[s] = sweep
           /\ \A r \in Sweepers : r # s => sweeps'[r] = sweeps[r]
BY DEF Go

\* What a sweep becomes is a sweep, and says what it should.
LEMMA SweepForms ==
    ASSUME sweeps \in [Sweepers -> Sweep], NEW s \in Sweepers
    PROVE  /\ \A t : /\ Asked(s, t) \in Sweep
                     /\ Asked(s, t).of = sweeps[s].of /\ Asked(s, t).at = sweeps[s].at
                     /\ Asked(s, t).owes = sweeps[s].owes /\ Asked(s, t).late = sweeps[s].late
                     /\ Asked(s, t).sealed = sweeps[s].sealed
                     /\ Asked(s, t).running = sweeps[s].running
                     /\ Asked(s, t).settled = sweeps[s].settled
           /\ \A c \in Claims \cup {NoClaim} :
                     /\ Owing(s, c) \in Sweep
                     /\ Owing(s, c).of = sweeps[s].of /\ Owing(s, c).at = sweeps[s].at
                     /\ Owing(s, c).owes = c /\ Owing(s, c).late = sweeps[s].late
                     /\ Owing(s, c).sealed = sweeps[s].sealed
                     /\ Owing(s, c).running = sweeps[s].running
                     /\ Owing(s, c).settled = sweeps[s].settled
<1>1. sweeps[s] \in Sweep
  OBVIOUS
<1>2. ASSUME NEW t
      PROVE  [sweeps[s] EXCEPT !.rest = @ \ {t}] \in Sweep
  BY <1>1 DEF Sweep
<1>3. ASSUME NEW c \in Claims \cup {NoClaim}
      PROVE  [sweeps[s] EXCEPT !.owes = c] \in Sweep
  BY <1>1 DEF Sweep
<1> QED BY <1>1, <1>2, <1>3 DEF Asked, Owing, Sweep

LEMMA OneMember ==
    ASSUME members \in [Delegations -> [Tasks -> MemberRow]],
           NEW d \in Delegations, NEW t \in Tasks, NEW row \in MemberRow,
           members' = [members EXCEPT ![d][t] = row]
    PROVE  /\ members' \in [Delegations -> [Tasks -> MemberRow]]
           /\ members'[d][t] = row
           /\ \A e \in Delegations, u \in Tasks :
                  e # d \/ u # t => members'[e][u] = members[e][u]
<1>1. [members[d] EXCEPT ![t] = row] \in [Tasks -> MemberRow]
  OBVIOUS
<1> QED BY <1>1

LEMMA ToolTypes ==
    ASSUME ObligationsTypeOK, AddingHasRoom, NEW d \in Delegations,
           \/ CreateDelegation(d) \/ SpawnMember(d) \/ CancelDelegation(d)
           \/ AddDelegationThread(d) \/ SealDelegation(d) \/ ToolStops(d)
           \/ DeadlinePasses(d)
    PROVE  ObligationsTypeOK'
<1> USE DEF ObligationsTypeOK
<1>a. /\ delegations[d] \in DelegationRow /\ publishing[d] \in Publication
      /\ MaxTasks \in Nat
  BY ConstantFacts
<1>1. ASSUME NEW at \in {"none", "spawn", "add", "seal"}
      PROVE  [publishing EXCEPT ![d].at = at] \in [Delegations -> Publication]
  <2>1. [publishing[d] EXCEPT !.at = at] \in Publication
    BY <1>a DEF Publication
  <2> QED BY <2>1
<1>2. CASE CreateDelegation(d)
  <2>1. [delegations[d] EXCEPT !.state = "open"] \in DelegationRow
    BY <1>a DEF DelegationRow
  <2> QED BY <1>1, <1>2, <2>1 DEF CreateDelegation, Publishes, toolOnly
<1>3. CASE SpawnMember(d)
  BY <1>1, <1>3 DEF SpawnMember, Publishes, toolOnly
<1>4. CASE CancelDelegation(d)
  <2>1. [delegations[d] EXCEPT !.state = "cancelled"] \in DelegationRow
    BY <1>a DEF DelegationRow
  <2> QED BY <1>1, <1>4, <2>1 DEF CancelDelegation, Publishes, toolOnly
<1>5. CASE AddDelegationThread(d)
  <2>1. CASE ~Open(d)
    BY <1>1, <1>5, <2>1 DEF AddDelegationThread, toolOnly
  <2>2. CASE Open(d)
    <3> DEFINE t == publishing[d].started + 1
    <3>1. /\ t \in Tasks
          /\ [at |-> "spawn", started |-> t] \in Publication
      <4>1. publishing[d].started \in 0 .. MaxTasks /\ publishing[d].started < MaxTasks
        BY <1>5, <1>a DEF AddDelegationThread, AddingHasRoom, Publication
      <4>2. t \in 1 .. MaxTasks /\ t \in 0 .. MaxTasks
        BY <4>1, <1>a
      <4> QED BY <4>2 DEF Publication, Tasks
    <3>2. [members[d][t] EXCEPT !.state = "running"] \in MemberRow
      BY <3>1 DEF MemberRow
    <3>3. members' = [members EXCEPT ![d][t] = [members[d][t] EXCEPT !.state = "running"]]
      BY <1>5, <2>2, <3>1 DEF AddDelegationThread
    <3>4. members' \in [Delegations -> [Tasks -> MemberRow]]
      BY <3>1, <3>2, <3>3, OneMember
    <3>5. publishing' \in [Delegations -> Publication]
      BY <1>5, <2>2, <3>1 DEF AddDelegationThread
    <3> QED BY <1>5, <2>2, <3>4, <3>5 DEF AddDelegationThread, toolOnly
  <2> QED BY <2>1, <2>2
<1>6. CASE SealDelegation(d)
  <2>1. [delegations[d] EXCEPT !.sealed = TRUE] \in DelegationRow
    BY <1>a DEF DelegationRow
  <2> QED BY <1>1, <1>6, <2>1 DEF SealDelegation, Publishes, toolOnly
<1>7. CASE ToolStops(d)
  BY <1>1, <1>7 DEF ToolStops, toolOnly
<1>8. CASE DeadlinePasses(d)
  <2>1. [delegations[d] EXCEPT !.expired = TRUE] \in DelegationRow
    BY <1>a DEF DelegationRow
  <2> QED BY <1>8, <2>1 DEF DeadlinePasses
<1> QED BY <1>2, <1>3, <1>4, <1>5, <1>6, <1>7, <1>8

LEMMA SweepTypes ==
    ASSUME ObligationsTypeOK, SweepsHaveRows, NEW s \in Sweepers, SweepGoesOn(s)
    PROVE  ObligationsTypeOK' /\ SweepsHaveRows'
<1> DEFINE d == sweeps[s].of
<1>a. sweeps[s] \in Sweep /\ d \in Items \cup {NoItem} /\ sweeps[s].owes \in Claims \cup {NoClaim}
      /\ \A t \in sweeps[s].rest : t \in Tasks
  BY DEF ObligationsTypeOK, Sweep
<1>b. \A sweep \in Sweep : Go(s, sweep) =>
         /\ sweeps' \in [Sweepers -> Sweep]
         /\ sweeps'[s] = sweep
         /\ \A r \in Sweepers : r # s => sweeps'[r] = sweeps[r]
  BY GoStep DEF ObligationsTypeOK
<1>c. ASSUME NEW sweep \in Sweep, Go(s, sweep),
             sweep.at \in {"settle", "stall"} => sweep.of \in Delegations,
             sweep.at \in {"status", "quiet"} => sweep.of \in Watches,
             sweep.owes # NoClaim => sweep.at \in {"stall", "status", "quiet"}
      PROVE  sweeps' \in [Sweepers -> Sweep] /\ SweepsHaveRows'
  BY <1>b, <1>c DEF SweepsHaveRows
<1>d. /\ sweeps[s].at \in {"settle", "stall"} => d \in Delegations
      /\ sweeps[s].at \in {"status", "quiet"} => d \in Watches
      /\ sweeps[s].owes # NoClaim => sweeps[s].at \in {"stall", "status", "quiet"}
  BY DEF SweepsHaveRows
<1>e. ASSUME Go(s, NoSweep)
      PROVE  sweeps' \in [Sweepers -> Sweep] /\ SweepsHaveRows'
  BY <1>c, <1>e, ConstantFacts
<1>f. ASSUME NEW t, Sweeping(s, "settle") \/ Sweeping(s, "stall"), Go(s, Asked(s, t))
      PROVE  sweeps' \in [Sweepers -> Sweep] /\ SweepsHaveRows'
  BY <1>c, <1>d, <1>f, SweepForms DEF ObligationsTypeOK, Sweeping
<1>g. ASSUME NEW c \in Claims \cup {NoClaim}, Go(s, Owing(s, c)),
             sweeps[s].at \in {"stall", "status", "quiet"}
      PROVE  sweeps' \in [Sweepers -> Sweep] /\ SweepsHaveRows'
  BY <1>c, <1>d, <1>g, SweepForms DEF ObligationsTypeOK
<1>1. ASSUME NEW t \in Tasks, SettleMember(s, t)
      PROVE  ObligationsTypeOK' /\ SweepsHaveRows'
  <2>1. /\ d \in Delegations /\ Sweeping(s, "settle")
        /\ [members[d][t] EXCEPT !.state = "settled"] \in MemberRow
    <3>1. Sweeping(s, "settle")
      BY <1>1, Zenon DEF SettleMember
    <3>2. d \in Delegations
      BY <1>d, <3>1 DEF Sweeping
    <3>3. members[d][t] \in MemberRow
      BY <3>2 DEF ObligationsTypeOK
    <3> QED BY <3>1, <3>2, <3>3 DEF MemberRow
  <2>2. CASE UNCHANGED members
    BY <1>1, <1>f, <2>1, <2>2 DEF SettleMember, ObligationsTypeOK, sweepOnly
  <2>3. CASE members' = [members EXCEPT ![d][t].state = "settled"]
    <3>1. members' = [members EXCEPT ![d][t] = [members[d][t] EXCEPT !.state = "settled"]]
      BY <2>1, <2>3 DEF ObligationsTypeOK
    <3>2. members' \in [Delegations -> [Tasks -> MemberRow]]
      BY <2>1, <3>1, OneMember DEF ObligationsTypeOK
    <3> QED BY <1>1, <1>f, <2>1, <3>2 DEF SettleMember, ObligationsTypeOK, sweepOnly
  <2> QED BY <1>1, <2>2, <2>3 DEF SettleMember
<1>2. ASSUME NEW t \in Tasks, EscalateStalledMember(s, t)
      PROVE  ObligationsTypeOK' /\ SweepsHaveRows'
  <2>1. /\ d \in Delegations /\ Sweeping(s, "stall")
        /\ [members[d][t] EXCEPT !.notified = TRUE] \in MemberRow
    <3>1. Sweeping(s, "stall")
      BY <1>2, Zenon DEF EscalateStalledMember
    <3>2. d \in Delegations
      BY <1>d, <3>1 DEF Sweeping
    <3>3. members[d][t] \in MemberRow
      BY <3>2 DEF ObligationsTypeOK
    <3> QED BY <3>1, <3>2, <3>3 DEF MemberRow
  <2>2. CASE UNCHANGED members /\ Go(s, Asked(s, t))
    BY <1>2, <1>f, <2>1, <2>2 DEF EscalateStalledMember, ObligationsTypeOK, sweepOnly
  <2>3. CASE /\ members' = [members EXCEPT ![d][t].notified = TRUE]
             /\ Go(s, [Asked(s, t) EXCEPT !.owes = t])
    <3>1. members' = [members EXCEPT ![d][t] = [members[d][t] EXCEPT !.notified = TRUE]]
      BY <2>1, <2>3 DEF ObligationsTypeOK
    <3>2. members' \in [Delegations -> [Tasks -> MemberRow]]
      BY <2>1, <3>1, OneMember DEF ObligationsTypeOK
    <3>3. /\ Asked(s, t) \in Sweep /\ Asked(s, t).of = d /\ Asked(s, t).at = "stall"
      BY <2>1, SweepForms DEF ObligationsTypeOK, Sweeping
    <3>4. /\ [Asked(s, t) EXCEPT !.owes = t] \in Sweep
          /\ [Asked(s, t) EXCEPT !.owes = t].of = d
          /\ [Asked(s, t) EXCEPT !.owes = t].at = "stall"
      BY <3>3, ConstantFacts DEF Sweep
    <3>5. sweeps' \in [Sweepers -> Sweep] /\ SweepsHaveRows'
      BY <1>c, <2>1, <2>3, <3>4
    <3> QED BY <1>2, <3>2, <3>5 DEF EscalateStalledMember, ObligationsTypeOK, sweepOnly
  <2>4. \/ UNCHANGED members /\ Go(s, Asked(s, t))
        \/ /\ members' = [members EXCEPT ![d][t].notified = TRUE]
           /\ Go(s, [Asked(s, t) EXCEPT !.owes = t])
    BY <1>2, Zenon DEF EscalateStalledMember
  <2> QED BY <2>2, <2>3, <2>4
<1>3. CASE RereadDelegation(s)
  <2>1. \A state : InState(d, state) \subseteq Tasks
    BY DEF InState
  <2>2. d \in Delegations /\ sweeps[s].owes = NoClaim /\ delegations[d].sealed \in BOOLEAN
    BY <1>3, <1>d DEF RereadDelegation, Sweeping, ObligationsTypeOK, DelegationRow
  <2> DEFINE read == [sweeps[s] EXCEPT !.at = "stall", !.sealed = delegations[d].sealed,
                          !.running = InState(d, "running"), !.settled = InState(d, "settled"),
                          !.rest = {t \in InState(d, "running") : ~members[d][t].notified}]
  <2>3. read \in Sweep /\ read.of = d /\ read.at = "stall" /\ read.owes = NoClaim
    BY <1>a, <2>1, <2>2 DEF Sweep
  <2>4. Go(s, read) \/ Go(s, NoSweep)
    BY <1>3 DEF RereadDelegation
  <2>5. sweeps' \in [Sweepers -> Sweep] /\ SweepsHaveRows'
    BY <1>c, <1>e, <2>2, <2>3, <2>4
  <2> QED BY <1>3, <2>5 DEF RereadDelegation, ObligationsTypeOK, sweepOnly
<1>4. CASE RecordDelegationFired(s) \/ FailDelegation(s) \/ LeaveDelegation(s)
  <2>1. /\ d \in Delegations /\ sweeps[s].at = "stall"
        /\ [delegations[d] EXCEPT !.state = "fired"] \in DelegationRow
        /\ [delegations[d] EXCEPT !.state = "failed"] \in DelegationRow
    <3>1. Sweeping(s, "stall")
      BY <1>4, Zenon DEF RecordDelegationFired, FailDelegation, LeaveDelegation, Judging
    <3>2. d \in Delegations
      BY <1>d, <3>1 DEF Sweeping
    <3> QED BY <3>1, <3>2 DEF Sweeping, ObligationsTypeOK, DelegationRow
  <2>2. Due \in Claims
    BY ConstantFacts
  <2>3. sweeps' \in [Sweepers -> Sweep] /\ SweepsHaveRows'
    BY <1>4, <1>e, <1>g, <2>1, <2>2 DEF RecordDelegationFired, FailDelegation, LeaveDelegation
  <2> QED BY <1>4, <2>1, <2>3
          DEF RecordDelegationFired, FailDelegation, LeaveDelegation, ObligationsTypeOK, sweepOnly
<1>5. CASE RecordMonitorFired(s) \/ WatchIsNotDue(s) \/ EscalateStalledWatch(s)
  <2>1. /\ d \in Watches /\ sweeps[s].at \in {"status", "quiet"} /\ sweeps[s].owes = NoClaim
        /\ monitors[d] \in MonitorRow
    BY <1>5, <1>d DEF RecordMonitorFired, WatchIsNotDue, EscalateStalledWatch, Sweeping,
                      ObligationsTypeOK
  <2>2. /\ [monitors[d] EXCEPT !.state = "done", !.settling = FALSE] \in MonitorRow
        /\ [monitors[d] EXCEPT !.notified = TRUE] \in MonitorRow
    BY <2>1 DEF MonitorRow
  <2>3. [sweeps[s] EXCEPT !.at = "quiet"] \in Sweep
    BY <1>a DEF Sweep
  <2>4. /\ [sweeps[s] EXCEPT !.at = "quiet"].of = d
        /\ [sweeps[s] EXCEPT !.at = "quiet"].at = "quiet"
    BY <1>a DEF Sweep
  <2>5. Due \in Claims /\ 1 \in Claims
    BY ConstantFacts
  <2>6. sweeps' \in [Sweepers -> Sweep] /\ SweepsHaveRows'
    <3>1. Go(s, [sweeps[s] EXCEPT !.at = "quiet"]) => sweeps' \in [Sweepers -> Sweep] /\ SweepsHaveRows'
      BY <1>c, <2>1, <2>3, <2>4
    <3> QED BY <1>5, <1>e, <1>g, <2>1, <2>5, <3>1
            DEF RecordMonitorFired, WatchIsNotDue, EscalateStalledWatch
  <2>7. monitors' \in [Watches -> MonitorRow]
    BY <1>5, <2>1, <2>2
       DEF RecordMonitorFired, WatchIsNotDue, EscalateStalledWatch, ObligationsTypeOK
  <2> QED BY <1>5, <2>6, <2>7
          DEF RecordMonitorFired, WatchIsNotDue, EscalateStalledWatch, ObligationsTypeOK, watchOnly
<1>6. CASE EnqueueWake(s)
  <2> DEFINE c == sweeps[s].owes
  <2>1. /\ c \in Claims /\ d \in Items /\ sweeps[s].at \in {"stall", "status", "quiet"}
        /\ NoClaim \in Claims \cup {NoClaim}
    BY <1>6, <1>a, <1>d DEF EnqueueWake, Items
  <2>2. wakes' \in [Items -> [Claims -> Nat]]
    BY <1>6, <2>1 DEF EnqueueWake, ObligationsTypeOK
  <2>3. [settled |-> sweeps[s].settled, late |-> sweeps[s].late] \in Report
    BY <1>a DEF Sweep, Report
  <2>4. reported' \in [Delegations -> Report]
    BY <1>6, <2>3 DEF EnqueueWake, ObligationsTypeOK
  <2>5. sweeps' \in [Sweepers -> Sweep] /\ SweepsHaveRows'
    <3>1. Go(s, Owing(s, NoClaim)) \/ Go(s, NoSweep)
      BY <1>6 DEF EnqueueWake
    <3> QED BY <1>e, <1>g, <2>1, <3>1
  <2> QED BY <1>6, <2>2, <2>4, <2>5 DEF EnqueueWake, ObligationsTypeOK
<1> QED BY <1>1, <1>2, <1>3, <1>4, <1>5, <1>6 DEF SweepGoesOn

LEMMA BeginTypes ==
    ASSUME ObligationsTypeOK, SweepsHaveRows, NEW s \in Sweepers,
           \/ \E d \in Delegations : SweepDelegation(s, d)
           \/ \E w \in Watches : SweepWatch(s, w)
    PROVE  ObligationsTypeOK' /\ SweepsHaveRows'
<1>1. ASSUME NEW sweep \in Sweep, Go(s, sweep), sweep.owes = NoClaim,
             \/ sweep.at = "settle" /\ sweep.of \in Delegations
             \/ sweep.at \in {"status", "quiet"} /\ sweep.of \in Watches
      PROVE  sweeps' \in [Sweepers -> Sweep] /\ SweepsHaveRows'
  BY <1>1, GoStep DEF ObligationsTypeOK, SweepsHaveRows
<1>2. ASSUME NEW d \in Delegations, SweepDelegation(s, d)
      PROVE  ObligationsTypeOK' /\ SweepsHaveRows'
  <2> DEFINE sweep == [NoSweep EXCEPT !.of = d, !.at = "settle", !.rest = InState(d, "running"),
                                      !.late = delegations[d].expired]
  <2>1. InState(d, "running") \subseteq Tasks /\ delegations[d].expired \in BOOLEAN /\ d \in Items
    BY DEF InState, ObligationsTypeOK, DelegationRow, Items
  <2>2. sweep \in Sweep /\ sweep.owes = NoClaim /\ sweep.at = "settle" /\ sweep.of = d
    BY <2>1 DEF Sweep, NoSweep
  <2>3. sweeps' \in [Sweepers -> Sweep] /\ SweepsHaveRows'
    BY <1>1, <1>2, <2>2 DEF SweepDelegation
  <2> QED BY <1>2, <2>3 DEF SweepDelegation, ObligationsTypeOK, sweepOnly
<1>3. ASSUME NEW w \in Watches, SweepWatch(s, w)
      PROVE  ObligationsTypeOK' /\ SweepsHaveRows'
  <2>1. PICK stalls \in SUBSET {1} :
            Go(s, [NoSweep EXCEPT !.of = w, !.rest = stalls,
                                  !.at = IF monitors[w].settling THEN "quiet" ELSE "status"])
    BY <1>3 DEF SweepWatch
  <2> DEFINE sweep == [NoSweep EXCEPT !.of = w, !.rest = stalls,
                                      !.at = IF monitors[w].settling THEN "quiet" ELSE "status"]
  <2>2. stalls \subseteq Tasks /\ w \in Items
    BY ObligationsAssumption DEF Tasks, Items
  <2>3. sweep \in Sweep /\ sweep.owes = NoClaim /\ sweep.at \in {"status", "quiet"} /\ sweep.of = w
    BY <2>2 DEF Sweep, NoSweep
  <2>4. sweeps' \in [Sweepers -> Sweep] /\ SweepsHaveRows'
    BY <1>1, <2>1, <2>3
  <2> QED BY <1>3, <2>4 DEF SweepWatch, ObligationsTypeOK, watchOnly
<1> QED BY <1>2, <1>3
LEMMA WatchTypes ==
    ASSUME ObligationsTypeOK, NEW w \in Watches,
           EnsureThreadWatch(w) \/ CancelMonitor(w) \/ SettlingMinuteEnds(w)
    PROVE  ObligationsTypeOK'
<1>1. /\ [monitors[w] EXCEPT !.state = "armed", !.settling = TRUE] \in MonitorRow
      /\ [monitors[w] EXCEPT !.state = "cancelled"] \in MonitorRow
      /\ [monitors[w] EXCEPT !.settling = FALSE] \in MonitorRow
  BY DEF ObligationsTypeOK, MonitorRow
<1> QED BY <1>1 DEF EnsureThreadWatch, CancelMonitor, SettlingMinuteEnds, ObligationsTypeOK, watchOnly

LEMMA CrashTypes ==
    ASSUME ObligationsTypeOK, ProcessDies
    PROVE  ObligationsTypeOK' /\ SweepsHaveRows'
<1>1. \A d \in Delegations : [publishing[d] EXCEPT !.at = "none"] \in Publication
  BY DEF ObligationsTypeOK, Publication
<1>2. publishing' \in [Delegations -> Publication]
  BY <1>1 DEF ProcessDies
<1>3. sweeps' \in [Sweepers -> Sweep] /\ \A s \in Sweepers : sweeps'[s] = NoSweep
  BY ConstantFacts DEF ProcessDies
<1>4. SweepsHaveRows'
  BY <1>3, ConstantFacts DEF SweepsHaveRows
<1> QED BY <1>2, <1>3, <1>4 DEF ProcessDies, ObligationsTypeOK

-----------------------------------------------------------------------------
(* What a step leaves standing *)

\* A claim that was made stays made.
ClaimsStayMade ==
    /\ \A d \in Delegations :
          /\ delegations'[d].state \in {"none", "open"} => delegations[d].state \in {"none", "open"}
          /\ \A t \in Tasks : members[d][t].notified => members'[d][t].notified
    /\ \A w \in Watches :
          /\ monitors'[w].state \in {"none", "armed"} => monitors[w].state \in {"none", "armed"}
          /\ monitors[w].notified => monitors'[w].notified

LEMMA MadeClaims ==
    ASSUME ClaimsStayMade, NEW i \in Items, NEW c \in Claims, StillOpen(i, c)'
    PROVE  StillOpen(i, c)
<1>1. c = Due \/ c \in Tasks
  BY DEF Claims, Due, Tasks
<1>2. CASE i \in Delegations
  BY <1>1, <1>2 DEF ClaimsStayMade, StillOpen
<1>3. CASE i \notin Delegations
  BY <1>3 DEF ClaimsStayMade, StillOpen, Items
<1> QED BY <1>2, <1>3

\* What is sealed stays sealed, and nothing is added to it.
SealedStays ==
    \A d \in Delegations : delegations[d].sealed =>
        delegations'[d].sealed /\ publishing'[d].started = publishing[d].started

LEMMA StaysComplete ==
    ASSUME SealedStays, NEW d \in Delegations, NEW tasks, Complete(d, tasks)
    PROVE  delegations'[d].sealed /\ 1 .. publishing'[d].started \subseteq tasks
BY DEF SealedStays, Complete

\* What the tool does to its own delegation
ToolStep(d) ==
    /\ \A e \in Delegations : e # d =>
          /\ delegations'[e] = delegations[e] /\ members'[e] = members[e]
          /\ publishing'[e] = publishing[e]
    /\ delegations'[d].state \in {"none", "open"} => delegations[d].state \in {"none", "open"}
    /\ \A t \in Tasks : /\ members[d][t].notified => members'[d][t].notified
                        /\ members[d][t].state # "none" => members'[d][t].state # "none"
    /\ \/ publishing'[d].started = publishing[d].started
       \/ /\ publishing'[d].started = publishing[d].started + 1 /\ ~delegations[d].sealed
          /\ members'[d][publishing[d].started + 1].state # "none"
    /\ delegations'[d].sealed => publishing'[d].at = "none" /\ delegations'[d].state # "none"
    /\ delegations[d].sealed => delegations'[d].sealed
    /\ publishing'[d].at = "add" => publishing'[d].started < MaxTasks

LEMMA ToolSteps ==
    ASSUME ObligationsInv, NEW d \in Delegations,
           \/ CreateDelegation(d) \/ SpawnMember(d) \/ CancelDelegation(d)
           \/ AddDelegationThread(d) \/ SealDelegation(d) \/ ToolStops(d)
           \/ DeadlinePasses(d)
    PROVE  ToolStep(d)
<1>a. /\ delegations[d] \in DelegationRow /\ publishing[d] \in Publication
      /\ delegations[d].sealed => publishing[d].at = "none" /\ delegations[d].state # "none"
      /\ publishing[d].at = "add" => publishing[d].started < MaxTasks
      /\ publishing[d].started \in Nat
      /\ delegations \in [Delegations -> DelegationRow]
      /\ publishing \in [Delegations -> Publication]
      /\ members \in [Delegations -> [Tasks -> MemberRow]]
  BY ObligationsAssumption
     DEF ObligationsInv, ObligationsTypeOK, SealedIsOver, AddingHasRoom, Publication
<1>1. CASE CreateDelegation(d)
  BY <1>1, <1>a DEF ToolStep, CreateDelegation, Publishes, DelegationRow, Publication
<1>2. CASE SpawnMember(d)
  BY <1>2, <1>a DEF ToolStep, SpawnMember, Publishes, DelegationRow, Publication
<1>3. CASE CancelDelegation(d)
  BY <1>3, <1>a DEF ToolStep, CancelDelegation, Publishes, Open, DelegationRow, Publication
<1>4. CASE SealDelegation(d)
  BY <1>4, <1>a DEF ToolStep, SealDelegation, Publishes, Open, DelegationRow, Publication
<1>5. CASE ToolStops(d)
  BY <1>5, <1>a DEF ToolStep, ToolStops, DelegationRow, Publication
<1>6. CASE DeadlinePasses(d)
  BY <1>6, <1>a DEF ToolStep, DeadlinePasses, Open, DelegationRow, Publication
<1>7. CASE AddDelegationThread(d)
  <2>1. CASE ~Open(d)
    BY <1>7, <1>a, <2>1 DEF ToolStep, AddDelegationThread, DelegationRow, Publication
  <2>2. CASE Open(d)
    <3> DEFINE t == publishing[d].started + 1
    <3>1. t \in Tasks /\ publishing[d].at = "add"
      <4>1. publishing[d].at = "add"
        BY <1>7 DEF AddDelegationThread
      <4> QED BY <4>1, <1>a, ConstantFacts DEF Tasks
    <3>2. /\ members' = [members EXCEPT ![d][t] = [members[d][t] EXCEPT !.state = "running"]]
          /\ publishing' = [publishing EXCEPT ![d] = [at |-> "spawn", started |-> t]]
          /\ delegations' = delegations
      BY <1>7, <1>a, <2>2, <3>1 DEF AddDelegationThread
    <3>3. members[d][t] \in MemberRow
      BY <1>a, <3>1
    <3>4. [members[d][t] EXCEPT !.state = "running"] \in MemberRow
      BY <3>3 DEF MemberRow
    <3>5. /\ [members[d][t] EXCEPT !.state = "running"].state = "running"
          /\ [members[d][t] EXCEPT !.state = "running"].notified = members[d][t].notified
      BY <3>3 DEF MemberRow
    <3>6. /\ \A e \in Delegations : e # d => members'[e] = members[e]
          /\ members'[d][t] = [members[d][t] EXCEPT !.state = "running"]
          /\ \A u \in Tasks : u # t => members'[d][u] = members[d][u]
      BY <1>a, <3>1, <3>2
    <3>7. /\ \A e \in Delegations : e # d => publishing'[e] = publishing[e]
          /\ publishing'[d].at = "spawn" /\ publishing'[d].started = t
      BY <1>a, <3>2
    <3>8. ~delegations[d].sealed
      BY <1>a, <3>1
    <3> QED BY <3>1, <3>2, <3>5, <3>6, <3>7, <3>8 DEF ToolStep
  <2> QED BY <2>1, <2>2
<1> QED BY <1>1, <1>2, <1>3, <1>4, <1>5, <1>6, <1>7

LEMMA ToolInv ==
    ASSUME ObligationsInv, NEW d \in Delegations,
           \/ CreateDelegation(d) \/ SpawnMember(d) \/ CancelDelegation(d)
           \/ AddDelegationThread(d) \/ SealDelegation(d) \/ ToolStops(d)
           \/ DeadlinePasses(d)
    PROVE  ObligationsInv'
<1>a. ToolStep(d) /\ UNCHANGED <<monitors, sweeps, wakes, reported>>
  BY ToolSteps
     DEF CreateDelegation, SpawnMember, CancelDelegation, AddDelegationThread, SealDelegation,
         ToolStops, DeadlinePasses, toolOnly
<1> USE DEF ObligationsInv
<1>b. ObligationsTypeOK' /\ SweepsHaveRows'
  BY <1>a, ToolTypes DEF SweepsHaveRows
<1>1. ClaimsAreExclusive'
  <2>1. ClaimsStayMade
    <3>1. ASSUME NEW e \in Delegations
          PROVE  /\ delegations'[e].state \in {"none", "open"} =>
                        delegations[e].state \in {"none", "open"}
                 /\ \A t \in Tasks : members[e][t].notified => members'[e][t].notified
      <4>1. CASE e = d
        BY <1>a, <4>1, Zenon DEF ToolStep
      <4>2. CASE e # d
        BY <1>a, <4>2, Zenon DEF ToolStep
      <4> QED BY <4>1, <4>2
    <3>2. monitors' = monitors
      BY <1>a
    <3> QED BY <3>1, <3>2, Zenon DEF ClaimsStayMade
  <2>2. \A i \in Items, c \in Claims : StillOpen(i, c)' => StillOpen(i, c)
    BY <2>1, MadeClaims
  <2> QED BY <1>a, <2>2, NothingIsClaimed DEF Owes
<1>2. AddingHasRoom' /\ SealedIsOver'
  BY <1>a DEF ToolStep, AddingHasRoom, SealedIsOver
<1>3. StartedIsRecorded'
  <2>1. \A e \in Delegations : publishing[e].started \in 0 .. MaxTasks /\ MaxTasks \in Nat
    BY ObligationsAssumption DEF ObligationsTypeOK, Publication
  <2>2. \A e \in Delegations : publishing'[e].started \in 0 .. MaxTasks
    BY <1>b DEF ObligationsTypeOK, Publication
  <2>3. SUFFICES ASSUME NEW t \in 1 .. publishing'[d].started
                 PROVE  members'[d][t].state # "none"
    BY <1>a DEF ToolStep, StartedIsRecorded
  <2>4. t \in Tasks
    <3>1. publishing'[d].started \in Int /\ publishing'[d].started <= MaxTasks
      BY <2>1, <2>2
    <3> QED BY <2>1, <3>1 DEF Tasks
  <2>5. t \in 1 .. publishing[d].started \/ t = publishing[d].started + 1
    BY <1>a, <2>1, <2>2 DEF ToolStep
  <2> QED BY <1>a, <2>1, <2>4, <2>5 DEF ToolStep, StartedIsRecorded
<1>4. ReadIsComplete' /\ OwedIsComplete' /\ ReportIsComplete'
  <2>1. SealedStays
    BY <1>a DEF ToolStep, SealedStays
  <2>2. \A e \in Delegations : \A tasks : Complete(e, tasks) =>
           delegations'[e].sealed /\ 1 .. publishing'[e].started \subseteq tasks
    BY <2>1, StaysComplete
  <2> QED BY <1>a, <2>2
          DEF Complete, ReadIsComplete, OwedIsComplete, ReportIsComplete, SweepsHaveRows
<1> QED BY <1>b, <1>1, <1>2, <1>3, <1>4
-----------------------------------------------------------------------------
(* Sweeps *)

\* What a sweep leaves of the rows of delegations and threads
SweepRows ==
    /\ publishing' = publishing
    /\ \A d \in Delegations :
          /\ delegations'[d].sealed <=> delegations[d].sealed
          /\ delegations[d].state # "none" => delegations'[d].state # "none"
          /\ \A t \in Tasks : members[d][t].state # "none" => members'[d][t].state # "none"
    /\ ClaimsStayMade

LEMMA SweepRowsKeep ==
    ASSUME ObligationsInv, SweepRows
    PROVE  AddingHasRoom' /\ SealedIsOver' /\ StartedIsRecorded' /\ SealedStays
<1>1. \A d \in Delegations : \A t \in 1 .. publishing[d].started : t \in Tasks
  <2>1. \A d \in Delegations : publishing[d].started \in 0 .. MaxTasks
    BY DEF ObligationsInv, ObligationsTypeOK, Publication
  <2> QED BY <2>1, ObligationsAssumption DEF Tasks
<1>2. AddingHasRoom' /\ SealedIsOver' /\ SealedStays
  BY DEF ObligationsInv, SweepRows, AddingHasRoom, SealedIsOver, SealedStays
<1>3. StartedIsRecorded'
  BY <1>1 DEF ObligationsInv, SweepRows, StartedIsRecorded
<1> QED BY <1>2, <1>3

\* Sweep s went on without a turn being enqueued.
LEMMA SweepReports ==
    ASSUME ObligationsInv, SealedStays, wakes' = wakes, reported' = reported,
           NEW s \in Sweepers, NEW sweep \in Sweep, Go(s, sweep),
           sweep.at = "stall" => sweep.of \in Delegations,
           sweep.at = "stall" /\ sweep.sealed =>
               Complete(sweep.of, sweep.running \cup sweep.settled),
           sweep.at = "stall" /\ sweep.owes = Due =>
               sweep.late \/ Complete(sweep.of, sweep.settled)
    PROVE  ReadIsComplete' /\ OwedIsComplete' /\ ReportIsComplete'
<1>1. /\ sweeps'[s] = sweep
      /\ \A r \in Sweepers : r # s => sweeps'[r] = sweeps[r]
  BY GoStep DEF ObligationsInv, ObligationsTypeOK
<1>2. \A d \in Delegations : \A tasks : Complete(d, tasks) =>
          delegations'[d].sealed /\ 1 .. publishing'[d].started \subseteq tasks
  BY StaysComplete
<1>3. \A r \in Sweepers : sweeps[r].at = "stall" => sweeps[r].of \in Delegations
  BY DEF ObligationsInv, SweepsHaveRows
<1>4. ReadIsComplete'
  <2> SUFFICES ASSUME NEW r \in Sweepers, sweeps'[r].at = "stall", sweeps'[r].sealed
               PROVE  /\ delegations'[sweeps'[r].of].sealed
                      /\ 1 .. publishing'[sweeps'[r].of].started
                            \subseteq sweeps'[r].running \cup sweeps'[r].settled
    BY DEF ReadIsComplete, Complete
  <2>1. CASE r = s
    <3>1. sweep.of \in Delegations /\ Complete(sweep.of, sweep.running \cup sweep.settled)
      BY <1>1, <2>1
    <3>2. /\ delegations'[sweep.of].sealed
          /\ 1 .. publishing'[sweep.of].started \subseteq sweep.running \cup sweep.settled
      BY <1>2, <3>1, Zenon
    <3> QED BY <1>1, <2>1, <3>2
  <2>2. CASE r # s
    <3>1. /\ sweeps[r].of \in Delegations
          /\ Complete(sweeps[r].of, sweeps[r].running \cup sweeps[r].settled)
      BY <1>1, <1>3, <2>2 DEF ObligationsInv, ReadIsComplete
    <3>2. /\ delegations'[sweeps[r].of].sealed
          /\ 1 .. publishing'[sweeps[r].of].started
                \subseteq sweeps[r].running \cup sweeps[r].settled
      BY <1>2, <3>1, Zenon
    <3> QED BY <1>1, <2>2, <3>2
  <2> QED BY <2>1, <2>2
<1>5. OwedIsComplete'
  <2> SUFFICES ASSUME NEW r \in Sweepers, sweeps'[r].at = "stall", sweeps'[r].owes = Due,
                      ~sweeps'[r].late
               PROVE  Complete(sweeps[r].of, sweeps[r].settled)'
    BY DEF OwedIsComplete
  <2>1. CASE r = s
    BY <1>1, <1>2, <2>1 DEF Complete
  <2>2. CASE r # s
    BY <1>1, <1>2, <1>3, <2>2 DEF ObligationsInv, OwedIsComplete, Complete
  <2> QED BY <2>1, <2>2
<1>6. ReportIsComplete'
  BY <1>2 DEF ObligationsInv, ReportIsComplete, Complete
<1> QED BY <1>4, <1>5, <1>6

\* Sweep s went on and took no claim.
LEMMA SweepClaimsNothing ==
    ASSUME ObligationsInv, ClaimsStayMade, wakes' = wakes,
           NEW s \in Sweepers, NEW sweep \in Sweep, Go(s, sweep), sweep.owes = NoClaim
    PROVE  ClaimsAreExclusive'
<1>1. /\ sweeps'[s] = sweep
      /\ \A r \in Sweepers : r # s => sweeps'[r] = sweeps[r]
  BY GoStep DEF ObligationsInv, ObligationsTypeOK
<1>2. \A r \in Sweepers, i \in Items, c \in Claims : Owes(r, i, c)' => Owes(r, i, c)
  BY <1>1, ConstantFacts DEF Owes
<1>3. \A i \in Items, c \in Claims : StillOpen(i, c)' => StillOpen(i, c)
  BY MadeClaims
<1> QED BY <1>2, <1>3, NothingIsClaimed DEF ObligationsInv

\* Sweep s took the claim c of row i.
LEMMA SweepClaims ==
    ASSUME ObligationsInv, ClaimsStayMade, wakes' = wakes,
           NEW s \in Sweepers, NEW sweep \in Sweep, Go(s, sweep),
           NEW i \in Items, NEW c \in Claims, sweep.of = i, sweep.owes = c,
           StillOpen(i, c), ~StillOpen(i, c)'
    PROVE  ClaimsAreExclusive'
<1>1. /\ sweeps'[s] = sweep
      /\ \A r \in Sweepers : r # s => sweeps'[r] = sweeps[r]
  BY GoStep DEF ObligationsInv, ObligationsTypeOK
<1>2. \A r \in Sweepers, j \in Items, b \in Claims :
          Owes(r, j, b)' => Owes(r, j, b) \/ (r = s /\ j = i /\ b = c)
  BY <1>1 DEF Owes
<1>3. \A j \in Items, b \in Claims : StillOpen(j, b)' => StillOpen(j, b)
  BY MadeClaims
<1> QED BY <1>2, <1>3, OneIsClaimed DEF ObligationsInv

LEMMA BeginInv ==
    ASSUME ObligationsInv, NEW s \in Sweepers,
           \/ \E d \in Delegations : SweepDelegation(s, d)
           \/ \E w \in Watches : SweepWatch(s, w)
    PROVE  ObligationsInv'
<1>1. PICK sweep : /\ Go(s, sweep) /\ sweep \in Sweep
                   /\ sweep.at # "stall" /\ sweep.owes = NoClaim
  <2>1. ASSUME NEW d \in Delegations, SweepDelegation(s, d)
        PROVE  \E sweep : /\ Go(s, sweep) /\ sweep \in Sweep
                          /\ sweep.at # "stall" /\ sweep.owes = NoClaim
    <3> DEFINE sweep == [NoSweep EXCEPT !.of = d, !.at = "settle", !.rest = InState(d, "running"),
                                        !.late = delegations[d].expired]
    <3>1. /\ InState(d, "running") \subseteq Tasks /\ delegations[d].expired \in BOOLEAN
          /\ d \in Items
      BY DEF InState, ObligationsInv, ObligationsTypeOK, DelegationRow, Items
    <3>2. sweep \in Sweep /\ sweep.owes = NoClaim /\ sweep.at # "stall"
      BY <3>1 DEF Sweep, NoSweep
    <3> QED BY <2>1, <3>2 DEF SweepDelegation
  <2>2. ASSUME NEW w \in Watches, SweepWatch(s, w)
        PROVE  \E sweep : /\ Go(s, sweep) /\ sweep \in Sweep
                          /\ sweep.at # "stall" /\ sweep.owes = NoClaim
    <3>1. PICK stalls \in SUBSET {1} :
              Go(s, [NoSweep EXCEPT !.of = w, !.rest = stalls,
                                    !.at = IF monitors[w].settling THEN "quiet" ELSE "status"])
      BY <2>2 DEF SweepWatch
    <3> DEFINE sweep == [NoSweep EXCEPT !.of = w, !.rest = stalls,
                                        !.at = IF monitors[w].settling THEN "quiet" ELSE "status"]
    <3>2. stalls \subseteq Tasks /\ w \in Items
      BY ObligationsAssumption DEF Tasks, Items
    <3>3. sweep \in Sweep /\ sweep.owes = NoClaim /\ sweep.at # "stall"
      BY <3>2 DEF Sweep, NoSweep
    <3> QED BY <3>1, <3>3
  <2> QED BY <2>1, <2>2
<1>2. UNCHANGED <<delegations, members, publishing, monitors, wakes, reported>>
  BY DEF SweepDelegation, SweepWatch, sweepOnly, watchOnly
<1>3. SweepRows
  BY <1>2 DEF SweepRows, ClaimsStayMade
<1>4. ObligationsTypeOK' /\ SweepsHaveRows'
  BY BeginTypes DEF ObligationsInv
<1>5. AddingHasRoom' /\ SealedIsOver' /\ StartedIsRecorded' /\ SealedStays
  BY <1>3, SweepRowsKeep
<1>6. ClaimsAreExclusive'
  BY <1>1, <1>2, <1>3, SweepClaimsNothing DEF SweepRows
<1>7. ReadIsComplete' /\ OwedIsComplete' /\ ReportIsComplete'
  BY <1>1, <1>2, <1>5, SweepReports
<1> QED BY <1>4, <1>5, <1>6, <1>7 DEF ObligationsInv

LEMMA DelegationSweepInv ==
    ASSUME ObligationsInv, NEW s \in Sweepers,
           \/ \E t \in Tasks : SettleMember(s, t) \/ EscalateStalledMember(s, t)
           \/ RereadDelegation(s) \/ RecordDelegationFired(s)
           \/ FailDelegation(s) \/ LeaveDelegation(s)
    PROVE  ObligationsInv'
<1> DEFINE d == sweeps[s].of
<1>a. ObligationsTypeOK' /\ SweepsHaveRows'
  BY SweepTypes DEF ObligationsInv, SweepGoesOn
<1>b. UNCHANGED <<publishing, wakes, reported, monitors>>
  BY DEF SettleMember, EscalateStalledMember, RereadDelegation, RecordDelegationFired,
         FailDelegation, LeaveDelegation, sweepOnly
<1>c. /\ Sweeping(s, "settle") \/ Sweeping(s, "stall")
      /\ d \in Delegations /\ d \in Items /\ sweeps[s] \in Sweep /\ sweeps[s].owes = NoClaim
  <2>1. Sweeping(s, "settle") \/ Sweeping(s, "stall")
    BY Zenon DEF SettleMember, EscalateStalledMember, RereadDelegation, RecordDelegationFired,
                 FailDelegation, LeaveDelegation, Judging
  <2>2. d \in Delegations
    BY <2>1 DEF Sweeping, ObligationsInv, SweepsHaveRows
  <2> QED BY <2>1, <2>2 DEF Sweeping, Items, ObligationsInv, ObligationsTypeOK
<1>k. PICK i \in Delegations : i = d
  BY <1>c
<1>d. /\ delegations \in [Delegations -> DelegationRow] /\ delegations[d] \in DelegationRow
      /\ members \in [Delegations -> [Tasks -> MemberRow]] /\ sweeps \in [Sweepers -> Sweep]
      /\ \A t \in Tasks : members[d][t] \in MemberRow
  BY <1>c DEF ObligationsInv, ObligationsTypeOK
<1>e. /\ NoSweep \in Sweep /\ NoSweep.at = "none" /\ NoSweep.owes = NoClaim
  BY ConstantFacts
<1>f. ASSUME NEW sweep \in Sweep, Go(s, sweep), SweepRows,
             sweep.at = "stall" => sweep.of = d,
             sweep.at = "stall" /\ sweep.sealed =>
                 Complete(d, sweep.running \cup sweep.settled),
             sweep.at = "stall" /\ sweep.owes = Due => sweep.late \/ Complete(d, sweep.settled)
      PROVE  /\ AddingHasRoom' /\ SealedIsOver' /\ StartedIsRecorded'
             /\ ReadIsComplete' /\ OwedIsComplete' /\ ReportIsComplete'
  <2>1. AddingHasRoom' /\ SealedIsOver' /\ StartedIsRecorded' /\ SealedStays
    BY <1>f, SweepRowsKeep
  <2>2. ReadIsComplete' /\ OwedIsComplete' /\ ReportIsComplete'
    BY <1>b, <1>c, <1>f, <2>1, SweepReports
  <2> QED BY <2>1, <2>2
<1>g. ASSUME NEW sweep \in Sweep, Go(s, sweep), SweepRows, sweep.owes = NoClaim,
             sweep.at = "stall" => sweep.of = d,
             sweep.at = "stall" /\ sweep.sealed =>
                 Complete(d, sweep.running \cup sweep.settled)
      PROVE  ObligationsInv'
  <2>1. ClaimsAreExclusive'
    BY <1>b, <1>g, SweepClaimsNothing DEF SweepRows
  <2>2. NoClaim # Due
    BY ConstantFacts
  <2> QED BY <1>a, <1>f, <1>g, <2>1, <2>2 DEF ObligationsInv
<1>h. ASSUME UNCHANGED <<delegations, members>>
      PROVE  SweepRows
  BY <1>b, <1>h DEF SweepRows, ClaimsStayMade
<1>i. sweeps[s].at = "stall" /\ sweeps[s].sealed =>
          Complete(d, sweeps[s].running \cup sweeps[s].settled)
  BY DEF ObligationsInv, ReadIsComplete
\* One thread's row is settled or claimed.
<1>j. ASSUME NEW t \in Tasks, NEW row \in MemberRow, row.state # "none",
             members[d][t].notified => row.notified,
             members' = [members EXCEPT ![d][t] = row], UNCHANGED delegations
      PROVE  SweepRows /\ members'[d][t] = row
  <2>1. /\ members'[d][t] = row
        /\ \A e \in Delegations, u \in Tasks :
               e # d \/ u # t => members'[e][u] = members[e][u]
    BY <1>c, <1>d, <1>j, OneMember
  <2>2. \A e \in Delegations, u \in Tasks :
            /\ members[e][u].state # "none" => members'[e][u].state # "none"
            /\ members[e][u].notified => members'[e][u].notified
    <3> SUFFICES ASSUME NEW e \in Delegations, NEW u \in Tasks
                 PROVE  /\ members[e][u].state # "none" => members'[e][u].state # "none"
                        /\ members[e][u].notified => members'[e][u].notified
      OBVIOUS
    <3>1. CASE e = d /\ u = t
      BY <1>j, <2>1, <3>1
    <3>2. CASE ~(e = d /\ u = t)
      BY <2>1, <3>2
    <3> QED BY <3>1, <3>2
  <2>3. ClaimsStayMade
    BY <1>b, <1>j, <2>2 DEF ClaimsStayMade
  <2> QED BY <1>b, <1>j, <2>1, <2>2, <2>3 DEF SweepRows
<1>1. ASSUME NEW t \in Tasks, SettleMember(s, t)
      PROVE  ObligationsInv'
  <2>1. /\ Sweeping(s, "settle") /\ Go(s, Asked(s, t)) /\ UNCHANGED delegations
        /\ \/ members' = [members EXCEPT ![d][t].state = "settled"]
           \/ UNCHANGED members
    BY <1>1, Zenon DEF SettleMember
  <2>2. SweepRows
    <3>1. CASE UNCHANGED members
      BY <1>h, <2>1, <3>1
    <3>2. CASE members' = [members EXCEPT ![d][t].state = "settled"]
      <4> DEFINE row == [members[d][t] EXCEPT !.state = "settled"]
      <4>1. row \in MemberRow /\ row.state = "settled" /\ row.notified = members[d][t].notified
        BY <1>d DEF MemberRow
      <4>2. members' = [members EXCEPT ![d][t] = row]
        BY <1>c, <1>d, <3>2
      <4> HIDE DEF row
      <4> QED BY <1>j, <2>1, <4>1, <4>2
    <3> QED BY <2>1, <3>1, <3>2
  <2>3. Asked(s, t) \in Sweep /\ Asked(s, t).at = "settle" /\ Asked(s, t).owes = NoClaim
    BY <1>c, <1>d, <2>1, SweepForms DEF Sweeping
  <2> QED BY <1>g, <2>1, <2>2, <2>3
<1>2. ASSUME NEW t \in Tasks, EscalateStalledMember(s, t)
      PROVE  ObligationsInv'
  <2>1. /\ Sweeping(s, "stall") /\ UNCHANGED delegations
        /\ \/ UNCHANGED members /\ Go(s, Asked(s, t))
           \/ /\ members[d][t] = [state |-> "running", notified |-> FALSE]
              /\ members' = [members EXCEPT ![d][t].notified = TRUE]
              /\ Go(s, [Asked(s, t) EXCEPT !.owes = t])
    BY <1>2, Zenon DEF EscalateStalledMember
  <2>2. /\ Asked(s, t) \in Sweep /\ Asked(s, t).at = "stall" /\ Asked(s, t).owes = NoClaim
        /\ Asked(s, t).of = d /\ Asked(s, t).sealed = sweeps[s].sealed
        /\ Asked(s, t).running = sweeps[s].running /\ Asked(s, t).settled = sweeps[s].settled
    BY <1>c, <1>d, <2>1, SweepForms DEF Sweeping
  <2>3. CASE UNCHANGED members /\ Go(s, Asked(s, t))
    BY <1>c, <1>g, <1>h, <1>i, <2>1, <2>2, <2>3 DEF Sweeping
  <2>4. CASE /\ members[d][t] = [state |-> "running", notified |-> FALSE]
             /\ members' = [members EXCEPT ![d][t].notified = TRUE]
             /\ Go(s, [Asked(s, t) EXCEPT !.owes = t])
    <3> DEFINE row == [members[d][t] EXCEPT !.notified = TRUE]
               sweep == [Asked(s, t) EXCEPT !.owes = t]
    <3>1. row \in MemberRow /\ row.state = "running" /\ row.notified = TRUE
      <4>1. row \in MemberRow /\ row.state = members[d][t].state /\ row.notified = TRUE
        BY <1>d DEF MemberRow
      <4>2. members[d][t].state = "running"
        BY <2>4
      <4> QED BY <4>1, <4>2
    <3>2. members' = [members EXCEPT ![d][t] = row]
      BY <1>c, <1>d, <2>4
    <3>3. /\ sweep \in Sweep /\ sweep.at = "stall" /\ sweep.owes = t
          /\ sweep.of = d /\ sweep.sealed = sweeps[s].sealed
          /\ sweep.running = sweeps[s].running /\ sweep.settled = sweeps[s].settled
      BY <2>2, ConstantFacts DEF Sweep
    <3>4. Go(s, sweep)
      BY <2>4
    <3>5. ~members[d][t].notified
      BY <2>4
    <3> HIDE DEF row, sweep
    <3>6. SweepRows /\ members'[d][t] = row
      BY <1>j, <2>1, <3>1, <3>2
    <3>7. t \in Claims /\ t # Due
      BY ConstantFacts
    <3>8. StillOpen(i, t) /\ ~StillOpen(i, t)'
      BY <1>k, <3>1, <3>5, <3>6, <3>7 DEF StillOpen
    <3>9. ClaimsAreExclusive'
      BY <1>b, <1>c, <1>k, <3>3, <3>4, <3>6, <3>7, <3>8, SweepClaims DEF SweepRows
    <3>10. sweeps[s].at = "stall"
      BY <2>1 DEF Sweeping
    <3> QED BY <1>a, <1>f, <1>i, <3>3, <3>4, <3>6, <3>7, <3>9, <3>10 DEF ObligationsInv
  <2> QED BY <2>1, <2>3, <2>4
<1>3. CASE RereadDelegation(s)
  <2> DEFINE read == [sweeps[s] EXCEPT !.at = "stall", !.sealed = delegations[d].sealed,
                          !.running = InState(d, "running"), !.settled = InState(d, "settled"),
                          !.rest = {t \in InState(d, "running") : ~members[d][t].notified}]
  <2>1. /\ \A state : InState(d, state) \subseteq Tasks
        /\ delegations[d].sealed \in BOOLEAN
    BY <1>d DEF InState, DelegationRow
  <2>2. /\ read \in Sweep /\ read.of = d /\ read.owes = NoClaim /\ read.sealed = delegations[d].sealed
        /\ read.running = InState(d, "running") /\ read.settled = InState(d, "settled")
    BY <1>c, <2>1 DEF Sweep
  <2>3. delegations[d].sealed => Complete(d, InState(d, "running") \cup InState(d, "settled"))
    <3>1. publishing[d].started \in 0 .. MaxTasks /\ MaxTasks \in Nat
      BY <1>c, ObligationsAssumption DEF ObligationsInv, ObligationsTypeOK, Publication
    <3>2. \A t \in 1 .. publishing[d].started : t \in Tasks /\ members[d][t].state # "none"
      BY <1>c, <3>1 DEF ObligationsInv, StartedIsRecorded, Tasks
    <3>3. \A t \in Tasks : members[d][t].state \in {"none", "running", "settled"}
      BY <1>d DEF MemberRow
    <3> QED BY <3>2, <3>3 DEF Complete, InState
  <2>4. Go(s, read) \/ Go(s, NoSweep)
    BY <1>3 DEF RereadDelegation
  <2>5. SweepRows
    BY <1>3, <1>h DEF RereadDelegation
  <2> HIDE DEF read
  <2> QED BY <1>e, <1>g, <2>2, <2>3, <2>4, <2>5
<1>4. CASE RecordDelegationFired(s)
  <2>1. /\ Sweeping(s, "stall") /\ IsDue(sweeps[s]) /\ Open(d)
        /\ delegations' = [delegations EXCEPT ![d].state = "fired"]
        /\ Go(s, Owing(s, Due)) /\ UNCHANGED members
    BY <1>4, Zenon DEF RecordDelegationFired, Judging
  <2>2. /\ Owing(s, Due) \in Sweep /\ Owing(s, Due).of = d /\ Owing(s, Due).owes = Due
        /\ Owing(s, Due).late = sweeps[s].late /\ Owing(s, Due).sealed = sweeps[s].sealed
        /\ Owing(s, Due).running = sweeps[s].running /\ Owing(s, Due).settled = sweeps[s].settled
    BY <1>d, ConstantFacts, SweepForms
  <2>3. /\ delegations'[d].state = "fired" /\ delegations'[d].sealed = delegations[d].sealed
        /\ \A e \in Delegations : e # d => delegations'[e] = delegations[e]
    BY <1>c, <1>d, <2>1 DEF DelegationRow
  <2>4. SweepRows
    BY <1>b, <2>1, <2>3 DEF SweepRows, ClaimsStayMade
  <2>5. StillOpen(i, Due) /\ ~StillOpen(i, Due)'
    BY <1>k, <2>1, <2>3 DEF StillOpen, Open
  <2>6. ClaimsAreExclusive'
    BY <1>b, <1>c, <1>k, <2>1, <2>2, <2>4, <2>5, ConstantFacts, SweepClaims DEF SweepRows
  <2>7. sweeps[s].late \/ Complete(d, sweeps[s].settled)
    <3>1. CASE ~sweeps[s].late
      <4>1. sweeps[s].sealed /\ sweeps[s].running = {} /\ sweeps[s].at = "stall"
        BY <2>1, <3>1 DEF IsDue, Sweeping
      <4>2. sweeps[s].running \cup sweeps[s].settled = sweeps[s].settled
        BY <4>1
      <4> QED BY <1>i, <4>1, <4>2
    <3> QED BY <3>1
  <2>8. sweeps[s].at = "stall"
    BY <2>1 DEF Sweeping
  <2> QED BY <1>a, <1>f, <1>i, <2>1, <2>2, <2>4, <2>6, <2>7, <2>8 DEF ObligationsInv
<1>5. CASE FailDelegation(s)
  <2>1. /\ delegations' = [delegations EXCEPT ![d].state = "failed"]
        /\ Go(s, NoSweep) /\ UNCHANGED members
    BY <1>5, Zenon DEF FailDelegation
  <2>2. /\ delegations'[d].state = "failed" /\ delegations'[d].sealed = delegations[d].sealed
        /\ \A e \in Delegations : e # d => delegations'[e] = delegations[e]
    BY <1>c, <1>d, <2>1 DEF DelegationRow
  <2>3. SweepRows
    BY <1>b, <2>1, <2>2 DEF SweepRows, ClaimsStayMade
  <2> QED BY <1>e, <1>g, <2>1, <2>3
<1>6. CASE LeaveDelegation(s)
  BY <1>6, <1>e, <1>g, <1>h DEF LeaveDelegation
<1> QED BY <1>1, <1>2, <1>3, <1>4, <1>5, <1>6

LEMMA WatchSweepInv ==
    ASSUME ObligationsInv, NEW s \in Sweepers,
           RecordMonitorFired(s) \/ WatchIsNotDue(s) \/ EscalateStalledWatch(s)
    PROVE  ObligationsInv'
<1> DEFINE w == sweeps[s].of
<1>a. ObligationsTypeOK' /\ SweepsHaveRows'
  BY SweepTypes DEF ObligationsInv, SweepGoesOn
<1>b. UNCHANGED <<delegations, members, publishing, wakes, reported>>
  BY DEF RecordMonitorFired, WatchIsNotDue, EscalateStalledWatch, watchOnly
<1>c. /\ sweeps[s].at \in {"status", "quiet"} /\ sweeps[s].owes = NoClaim
      /\ w \in Watches /\ w \in Items /\ w \notin Delegations
  <2>1. sweeps[s].at \in {"status", "quiet"} /\ sweeps[s].owes = NoClaim
    BY DEF RecordMonitorFired, WatchIsNotDue, EscalateStalledWatch, Sweeping
  <2>2. w \in Watches
    BY <2>1 DEF ObligationsInv, SweepsHaveRows
  <2> QED BY <2>1, <2>2, ConstantFacts
<1>d. /\ sweeps \in [Sweepers -> Sweep] /\ sweeps[s] \in Sweep
      /\ monitors \in [Watches -> MonitorRow] /\ monitors[w] \in MonitorRow
      /\ NoSweep \in Sweep /\ NoSweep.at = "none" /\ NoSweep.owes = NoClaim
  BY <1>c, ConstantFacts DEF ObligationsInv, ObligationsTypeOK
<1>e. PICK i \in Watches : i = w
  BY <1>c
<1>f. ASSUME NEW sweep \in Sweep, Go(s, sweep), sweep.at # "stall", ClaimsStayMade,
             ClaimsAreExclusive'
      PROVE  ObligationsInv'
  <2>1. SweepRows
    BY <1>b, <1>f DEF SweepRows
  <2>2. AddingHasRoom' /\ SealedIsOver' /\ StartedIsRecorded' /\ SealedStays
    BY <2>1, SweepRowsKeep
  <2>3. ReadIsComplete' /\ OwedIsComplete' /\ ReportIsComplete'
    BY <1>b, <1>f, <2>2, SweepReports
  <2> QED BY <1>a, <1>f, <2>2, <2>3 DEF ObligationsInv
<1>g. ASSUME NEW sweep \in Sweep, Go(s, sweep), sweep.at # "stall", sweep.owes = NoClaim,
             UNCHANGED monitors
      PROVE  ObligationsInv'
  <2>1. ClaimsStayMade
    BY <1>b, <1>g DEF ClaimsStayMade
  <2> QED BY <1>b, <1>f, <1>g, <2>1, SweepClaimsNothing
<1>h. ASSUME NEW c \in Claims, Go(s, Owing(s, c)), ClaimsStayMade,
             StillOpen(i, c), ~StillOpen(i, c)'
      PROVE  ObligationsInv'
  <2>1. /\ Owing(s, c) \in Sweep /\ Owing(s, c).of = i /\ Owing(s, c).owes = c
        /\ Owing(s, c).at # "stall"
    BY <1>c, <1>d, <1>e, SweepForms
  <2> QED BY <1>b, <1>c, <1>e, <1>f, <1>h, <2>1, SweepClaims
<1>1. CASE RecordMonitorFired(s)
  <2>1. \/ UNCHANGED monitors /\ Go(s, NoSweep)
        \/ /\ Armed(w) /\ Go(s, Owing(s, Due))
           /\ monitors' = [monitors EXCEPT ![w].state = "done", ![w].settling = FALSE]
    BY <1>1, Zenon DEF RecordMonitorFired
  <2>2. CASE /\ Armed(w) /\ Go(s, Owing(s, Due))
             /\ monitors' = [monitors EXCEPT ![w].state = "done", ![w].settling = FALSE]
    <3>1. /\ monitors'[i].state = "done" /\ monitors'[i].notified = monitors[i].notified
          /\ \A v \in Watches : v # i => monitors'[v] = monitors[v]
      BY <1>d, <1>e, <2>2 DEF MonitorRow
    <3>2. ClaimsStayMade
      BY <1>b, <3>1 DEF ClaimsStayMade
    <3>3. StillOpen(i, Due) /\ ~StillOpen(i, Due)'
      BY <1>c, <1>e, <2>2, <3>1 DEF StillOpen, Armed
    <3> QED BY <1>h, <2>2, <3>2, <3>3, ConstantFacts
  <2> QED BY <1>d, <1>g, <2>1, <2>2
<1>2. CASE WatchIsNotDue(s)
  <2>1. /\ [sweeps[s] EXCEPT !.at = "quiet"] \in Sweep
        /\ [sweeps[s] EXCEPT !.at = "quiet"].at = "quiet"
        /\ [sweeps[s] EXCEPT !.at = "quiet"].owes = NoClaim
    BY <1>c, <1>d DEF Sweep
  <2> QED BY <1>2, <1>d, <1>g, <2>1 DEF WatchIsNotDue
<1>3. CASE EscalateStalledWatch(s)
  <2>1. \/ UNCHANGED monitors /\ Go(s, NoSweep)
        \/ /\ ~monitors[w].notified /\ Go(s, Owing(s, 1))
           /\ monitors' = [monitors EXCEPT ![w].notified = TRUE]
    BY <1>3, Zenon DEF EscalateStalledWatch
  <2>2. CASE /\ ~monitors[w].notified /\ Go(s, Owing(s, 1))
             /\ monitors' = [monitors EXCEPT ![w].notified = TRUE]
    <3>1. /\ monitors'[i].state = monitors[i].state /\ monitors'[i].notified
          /\ \A v \in Watches : v # i => monitors'[v] = monitors[v]
      BY <1>d, <1>e, <2>2 DEF MonitorRow
    <3>2. ClaimsStayMade
      <4>1. ASSUME NEW v \in Watches
            PROVE  /\ monitors'[v].state = monitors[v].state
                   /\ monitors[v].notified => monitors'[v].notified
        BY <3>1
      <4> QED BY <1>b, <4>1 DEF ClaimsStayMade
    <3>3. StillOpen(i, 1) /\ ~StillOpen(i, 1)'
      BY <1>c, <1>e, <2>2, <3>1, ConstantFacts DEF StillOpen
    <3> QED BY <1>h, <2>2, <3>2, <3>3, ConstantFacts
  <2> QED BY <1>d, <1>g, <2>1, <2>2
<1> QED BY <1>1, <1>2, <1>3

LEMMA WakeInv ==
    ASSUME ObligationsInv, NEW s \in Sweepers, EnqueueWake(s)
    PROVE  ObligationsInv'
<1>a. ObligationsTypeOK' /\ SweepsHaveRows'
  BY SweepTypes DEF ObligationsInv, SweepGoesOn
<1>b. UNCHANGED <<delegations, members, publishing, monitors>>
  BY DEF EnqueueWake
<1>c. PICK i \in Items, c \in Claims : i = sweeps[s].of /\ c = sweeps[s].owes
  <2>1. sweeps[s].owes # NoClaim
    BY DEF EnqueueWake
  <2> QED BY <2>1 DEF ObligationsInv, ObligationsTypeOK, SweepsHaveRows, Sweep, Items
<1>d. /\ sweeps \in [Sweepers -> Sweep] /\ wakes \in [Items -> [Claims -> Nat]]
      /\ reported \in [Delegations -> Report] /\ sweeps[s] \in Sweep
  BY DEF ObligationsInv, ObligationsTypeOK
<1>e. /\ wakes'[i][c] = wakes[i][c] + 1
      /\ \A j \in Items, b \in Claims : j # i \/ b # c => wakes'[j][b] = wakes[j][b]
  <2>1. wakes' = [wakes EXCEPT ![i][c] = wakes[i][c] + 1]
    BY <1>c, <1>d DEF EnqueueWake
  <2> QED BY <1>d, <2>1
<1>f. PICK sweep \in Sweep : /\ Go(s, sweep) /\ sweep.owes = NoClaim
                             /\ sweep.at = "stall" =>
                                   /\ sweeps[s].at = "stall" /\ sweep.of = sweeps[s].of
                                   /\ sweep.sealed = sweeps[s].sealed
                                   /\ sweep.running = sweeps[s].running
                                   /\ sweep.settled = sweeps[s].settled
  <2>1. Go(s, Owing(s, NoClaim)) \/ Go(s, NoSweep)
    BY DEF EnqueueWake
  <2> QED BY <1>d, <2>1, SweepForms, ConstantFacts
<1>g. /\ sweeps'[s] = sweep
      /\ \A r \in Sweepers : r # s => sweeps'[r] = sweeps[r]
  BY <1>d, <1>f, GoStep
<1>1. ClaimsAreExclusive'
  <2>1. \A j \in Items, b \in Claims : StillOpen(j, b)' <=> StillOpen(j, b)
    BY <1>b DEF StillOpen
  <2>2. \A r \in Sweepers, j \in Items, b \in Claims :
            Owes(r, j, b)' => r # s /\ Owes(r, j, b)
    BY <1>f, <1>g, ConstantFacts DEF Owes
  <2>3. Owes(s, i, c) /\ wakes[i][c] = 0
    BY <1>c DEF Owes, ObligationsInv, ClaimsAreExclusive
  <2>4. ~StillOpen(i, c) /\ \A r \in Sweepers : Owes(r, i, c) => r = s
    BY <2>3 DEF ObligationsInv, ClaimsAreExclusive
  <2> SUFFICES ASSUME NEW j \in Items, NEW b \in Claims
               PROVE  /\ wakes'[j][b] <= 1
                      /\ StillOpen(j, b)' =>
                            wakes'[j][b] = 0 /\ \A r \in Sweepers : ~Owes(r, j, b)'
                      /\ \A r \in Sweepers : Owes(r, j, b)' => wakes'[j][b] = 0
                      /\ \A q, r \in Sweepers : Owes(q, j, b)' /\ Owes(r, j, b)' => q = r
    BY DEF ClaimsAreExclusive
  <2>5. CASE j = i /\ b = c
    BY <1>e, <2>1, <2>2, <2>3, <2>4, <2>5
  <2>6. CASE ~(j = i /\ b = c)
    BY <1>e, <2>1, <2>2, <2>6 DEF ObligationsInv, ClaimsAreExclusive
  <2> QED BY <2>5, <2>6
<1>2. SweepRows
  BY <1>b DEF SweepRows, ClaimsStayMade
<1>3. AddingHasRoom' /\ SealedIsOver' /\ StartedIsRecorded'
  BY <1>2, SweepRowsKeep
<1>4. ReadIsComplete'
  <2> SUFFICES ASSUME NEW r \in Sweepers, sweeps'[r].at = "stall", sweeps'[r].sealed
               PROVE  /\ delegations[sweeps'[r].of].sealed
                      /\ 1 .. publishing[sweeps'[r].of].started
                            \subseteq sweeps'[r].running \cup sweeps'[r].settled
    BY <1>b DEF ReadIsComplete, Complete
  <2>1. CASE r = s
    BY <1>f, <1>g, <2>1 DEF ObligationsInv, ReadIsComplete, Complete
  <2>2. CASE r # s
    BY <1>g, <2>2 DEF ObligationsInv, ReadIsComplete, Complete
  <2> QED BY <2>1, <2>2
<1>5. OwedIsComplete'
  <2> SUFFICES ASSUME NEW r \in Sweepers, sweeps'[r].at = "stall", sweeps'[r].owes = Due
               PROVE  \/ sweeps'[r].late
                      \/ /\ delegations[sweeps'[r].of].sealed
                         /\ 1 .. publishing[sweeps'[r].of].started \subseteq sweeps'[r].settled
    BY <1>b DEF OwedIsComplete, Complete
  <2>1. r # s
    BY <1>f, <1>g, ConstantFacts
  <2> QED BY <1>g, <2>1 DEF ObligationsInv, OwedIsComplete, Complete
<1>6. ReportIsComplete'
  <2> SUFFICES ASSUME NEW d \in Delegations, wakes'[d][Due] > 0
               PROVE  \/ reported'[d].late
                      \/ /\ delegations[d].sealed
                         /\ 1 .. publishing[d].started \subseteq reported'[d].settled
    BY <1>b DEF ReportIsComplete, Complete
  <2>1. d \in Items /\ Due \in Claims
    BY ConstantFacts
  <2>2. CASE d = i /\ c = Due
    <3>1. reported'[d] = [settled |-> sweeps[s].settled, late |-> sweeps[s].late]
      BY <1>c, <1>d, <2>2 DEF EnqueueWake
    <3>2. sweeps[s].at = "stall"
      <4>1. sweeps[s].of = d /\ sweeps[s].owes # NoClaim /\ d \notin Watches
        BY <1>c, <2>2, ConstantFacts
      <4> QED BY <4>1 DEF ObligationsInv, SweepsHaveRows
    <3>3. sweeps[s].late \/ Complete(d, sweeps[s].settled)
      BY <1>c, <2>2, <3>2 DEF ObligationsInv, OwedIsComplete
    <3> QED BY <3>1, <3>3 DEF Complete
  <2>3. CASE ~(d = i /\ c = Due)
    <3>1. reported'[d] = reported[d]
      BY <1>c, <1>d, <2>3 DEF EnqueueWake
    <3>2. wakes'[d][Due] = wakes[d][Due]
      BY <1>e, <2>1, <2>3
    <3> QED BY <3>1, <3>2 DEF ObligationsInv, ReportIsComplete, Complete
  <2> QED BY <2>2, <2>3
<1> QED BY <1>a, <1>1, <1>3, <1>4, <1>5, <1>6 DEF ObligationsInv

LEMMA WatchInv ==
    ASSUME ObligationsInv, NEW w \in Watches,
           EnsureThreadWatch(w) \/ CancelMonitor(w) \/ SettlingMinuteEnds(w)
    PROVE  ObligationsInv'
<1>1. UNCHANGED <<delegations, members, publishing, sweeps, wakes, reported>>
  BY DEF EnsureThreadWatch, CancelMonitor, SettlingMinuteEnds, watchOnly
<1>2. /\ monitors \in [Watches -> MonitorRow] /\ monitors[w] \in MonitorRow
  BY DEF ObligationsInv, ObligationsTypeOK
<1>3. /\ \A v \in Watches : v # w => monitors'[v] = monitors[v]
      /\ monitors'[w].state \in {"none", "armed"} => monitors[w].state \in {"none", "armed"}
      /\ monitors[w].notified => monitors'[w].notified
  <2>1. CASE EnsureThreadWatch(w)
    BY <1>2, <2>1 DEF EnsureThreadWatch, Watching, Armed, MonitorRow
  <2>2. CASE CancelMonitor(w)
    BY <1>2, <2>2 DEF CancelMonitor, MonitorRow
  <2>3. CASE SettlingMinuteEnds(w)
    BY <1>2, <2>3 DEF SettlingMinuteEnds, MonitorRow
  <2> QED BY <2>1, <2>2, <2>3
<1>4. ClaimsStayMade
  <2>1. ASSUME NEW v \in Watches
        PROVE  /\ monitors'[v].state \in {"none", "armed"} => monitors[v].state \in {"none", "armed"}
               /\ monitors[v].notified => monitors'[v].notified
    BY <1>3
  <2> QED BY <1>1, <2>1 DEF ClaimsStayMade
<1>5. SweepRows
  BY <1>1, <1>4 DEF SweepRows
<1>6. AddingHasRoom' /\ SealedIsOver' /\ StartedIsRecorded'
  BY <1>5, SweepRowsKeep
<1>7. ClaimsAreExclusive'
  <2>1. \A i \in Items, c \in Claims : StillOpen(i, c)' => StillOpen(i, c)
    BY <1>4, MadeClaims
  <2> QED BY <1>1, <2>1, NothingIsClaimed DEF Owes, ObligationsInv
<1>8. SweepsHaveRows' /\ ReadIsComplete' /\ OwedIsComplete' /\ ReportIsComplete'
  BY <1>1 DEF ObligationsInv, SweepsHaveRows, ReadIsComplete, OwedIsComplete,
              ReportIsComplete, Complete
<1> QED BY <1>6, <1>7, <1>8, WatchTypes DEF ObligationsInv

LEMMA CrashInv == ASSUME ObligationsInv, ProcessDies PROVE ObligationsInv'
<1>1. /\ UNCHANGED <<delegations, members, monitors, wakes, reported>>
      /\ \A s \in Sweepers : sweeps'[s] = NoSweep
      /\ \A d \in Delegations : /\ publishing'[d].at = "none"
                                /\ publishing'[d].started = publishing[d].started
  BY DEF ProcessDies, ObligationsInv, ObligationsTypeOK, Publication
<1>2. ClaimsAreExclusive'
  <2>1. \A s \in Sweepers, i \in Items, c \in Claims : ~Owes(s, i, c)'
    BY <1>1, ConstantFacts DEF Owes
  <2>2. \A i \in Items, c \in Claims : StillOpen(i, c)' => StillOpen(i, c)
    BY <1>1 DEF StillOpen
  <2> QED BY <1>1, <2>1, <2>2, NothingIsClaimed DEF ObligationsInv
<1>3. AddingHasRoom' /\ SealedIsOver' /\ StartedIsRecorded' /\ ReportIsComplete'
  BY <1>1 DEF ObligationsInv, AddingHasRoom, SealedIsOver, StartedIsRecorded,
              ReportIsComplete, Complete
<1>4. ReadIsComplete' /\ OwedIsComplete'
  BY <1>1, ConstantFacts DEF ReadIsComplete, OwedIsComplete
<1> QED BY <1>2, <1>3, <1>4, CrashTypes DEF ObligationsInv

-----------------------------------------------------------------------------
(* All steps *)

LEMMA ObligationsInitInv == ObligationsInit => ObligationsInv
<1> SUFFICES ASSUME ObligationsInit PROVE ObligationsInv
  OBVIOUS
<1> USE DEF ObligationsInit
<1>1. ObligationsTypeOK
  <2>1. /\ NoDelegation \in DelegationRow /\ NoMember \in MemberRow /\ NoWatch \in MonitorRow
        /\ [at |-> "none", started |-> 0] \in Publication /\ NoSweep \in Sweep
        /\ [settled |-> {}, late |-> FALSE] \in Report
    BY ConstantFacts DEF NoDelegation, NoMember, NoWatch, DelegationRow, MemberRow, MonitorRow,
                         Publication, Report
  <2> QED BY <2>1 DEF ObligationsTypeOK
<1>2. \A s \in Sweepers : sweeps[s] = NoSweep
  OBVIOUS
<1>3. ClaimsAreExclusive /\ SweepsHaveRows /\ ReadIsComplete /\ OwedIsComplete
  BY <1>2, ConstantFacts
     DEF ClaimsAreExclusive, Owes, SweepsHaveRows, ReadIsComplete, OwedIsComplete
<1>4. AddingHasRoom /\ StartedIsRecorded /\ SealedIsOver /\ ReportIsComplete
  BY ConstantFacts
     DEF AddingHasRoom, StartedIsRecorded, SealedIsOver, ReportIsComplete, NoDelegation
<1> QED BY <1>1, <1>3, <1>4 DEF ObligationsInv

LEMMA ObligationsStepInv ==
    ObligationsInv /\ [ObligationsNext]_obligationVars => ObligationsInv'
<1> SUFFICES ASSUME ObligationsInv, [ObligationsNext]_obligationVars PROVE ObligationsInv'
  OBVIOUS
<1>1. CASE DelegationNext
  <2>1. PICK d \in Delegations :
            \/ CreateDelegation(d) \/ SpawnMember(d) \/ CancelDelegation(d)
            \/ AddDelegationThread(d) \/ SealDelegation(d) \/ ToolStops(d)
            \/ DeadlinePasses(d)
            \/ \E s \in Sweepers : SweepDelegation(s, d)
    BY <1>1, Zenon DEF DelegationNext
  <2> QED BY <2>1, ToolInv, BeginInv
<1>2. CASE WatchNext
  <2>1. PICK w \in Watches :
            \/ EnsureThreadWatch(w) \/ CancelMonitor(w) \/ SettlingMinuteEnds(w)
            \/ \E s \in Sweepers : SweepWatch(s, w)
    BY <1>2, Zenon DEF WatchNext
  <2> QED BY <2>1, WatchInv, BeginInv
<1>3. CASE SweepNext
  <2>1. ASSUME NEW s \in Sweepers, SweepGoesOn(s)
        PROVE  ObligationsInv'
    BY <2>1, DelegationSweepInv, WatchSweepInv, WakeInv DEF SweepGoesOn
  <2> QED BY <1>3, <2>1, CrashInv DEF SweepNext
<1>4. CASE UNCHANGED obligationVars
  <2>1. UNCHANGED <<delegations, members, publishing, monitors, sweeps, wakes, reported>>
    BY <1>4 DEF obligationVars
  <2>2. ObligationsTypeOK' /\ SweepsHaveRows' /\ AddingHasRoom' /\ StartedIsRecorded' /\ SealedIsOver'
    BY <2>1 DEF ObligationsInv, ObligationsTypeOK, SweepsHaveRows, AddingHasRoom,
                StartedIsRecorded, SealedIsOver
  <2>3. ClaimsAreExclusive'
    BY <2>1, NothingIsClaimed DEF ObligationsInv, Owes, StillOpen
  <2>4. ReadIsComplete' /\ OwedIsComplete' /\ ReportIsComplete'
    BY <2>1 DEF ObligationsInv, ReadIsComplete, OwedIsComplete, ReportIsComplete, Complete
  <2> QED BY <2>2, <2>3, <2>4 DEF ObligationsInv
<1> QED BY <1>1, <1>2, <1>3, <1>4 DEF ObligationsNext

\* What the invariant is for
LEMMA ObligationsInvMeans ==
    ObligationsInv => ObligationsTypeOK /\ JoinsReportEveryMember /\ OneWakePerClaim
<1> SUFFICES ASSUME ObligationsInv
             PROVE  ObligationsTypeOK /\ JoinsReportEveryMember /\ OneWakePerClaim
  OBVIOUS
<1>1. ObligationsTypeOK /\ OneWakePerClaim
  BY DEF ObligationsInv, ClaimsAreExclusive, OneWakePerClaim
<1>2. JoinsReportEveryMember
  BY DEF ObligationsInv, ReportIsComplete, Complete, JoinsReportEveryMember
<1> QED BY <1>1, <1>2
=============================================================================
