---------------------------- MODULE ToolReceipts ----------------------------
(***************************************************************************)
(* The tools of the agent that write.  A call is authorized and claims a   *)
(* receipt for its turn, tool and arguments, reads the scope it is allowed *)
(* to touch, acts, and is settled with the evidence that an answer may     *)
(* cite: each in a step of its own, while identical calls, the steering,   *)
(* recovery, failure and answering of the turn, and the executor lease go  *)
(* on beside it.  How a turn is handed to its thread is in ControllerTurns;*)
(* here it is submitted in one step.                                       *)
(***************************************************************************)
EXTENDS Integers

CONSTANTS
    Calls,          \* tool calls that run at a time
    Tools,          \* a tool with its arguments: calls of the same are identical
    External,       \* the tools that act outside, on BB, and not on the database
    Profiles,       \* sets of tools that the agent may be offered
    MaxTurns,       \* bound: turns, with the replacements of failed ones
    MaxTerms,       \* bound: terms of the executor lease
    MaxUpsets,      \* bound: how often a turn is steered or goes back, while it lasts
    MaxActs         \* bound: acts of a tool in a turn

ASSUME ReceiptsAssumption ==
    /\ Tools # {} /\ External \subseteq Tools /\ Profiles \subseteq SUBSET Tools
    /\ MaxTurns \in Nat \ {0} /\ MaxTerms \in Nat \ {0} /\ MaxActs \in Nat \ {0}
    /\ MaxUpsets \in Nat

VARIABLES
    profile,        \* the tools that the agent is offered
    dialog,         \* rows of controller_turns, and the pending attempt to steer one
    speaker,        \* whether the agent has a live thread
    term,           \* generation of the executor lease
    receipts,       \* table tool_receipts
    calls,          \* calls that run
    acts,           \* what each turn's calls have done
    refused         \* calls that were refused after they had acted

receiptVars == <<profile, dialog, speaker, term, receipts, calls, acts, refused>>

NoTurn == 0
Turns == 1 .. MaxTurns
TurnStates == {"none", "queued", "submitted", "completed", "failed"}
\* An owner message on its way into the answer reserves the turn for the message
\* that waits; the supervisor has an attempt of its own.
Steers == {"none", "owner", "supervisor"}
TurnRows == [state : TurnStates, term : 0 .. MaxTerms, accepted : BOOLEAN, touched : BOOLEAN,
             source : 0 .. MaxTurns, steer : Steers, waiting : 0 .. MaxTurns, upsets : 0 .. MaxUpsets]
NewTurn(state, source) ==
    [state |-> state, term |-> 0, accepted |-> FALSE, touched |-> FALSE, source |-> source,
     steer |-> "none", waiting |-> NoTurn, upsets |-> 0]

\* A receipt that failed is as good as one whose outcome is unknown, unless it
\* was refused before the operation began.
Receipts == {"none", "started", "completed", "refused", "failed", "unknown"}

Stages == {"free", "scope", "act", "publish", "settle"}
Claims == {"fresh", "replay", "interrupted"}
\* A call is spoken while the thread that it came from is the live one.
CallRows == [at : Stages, turn : 0 .. MaxTurns, tool : Tools, spoken : BOOLEAN,
             term : 0 .. MaxTerms, claim : Claims]
NoCall == [at |-> "free", turn |-> NoTurn, tool |-> CHOOSE a \in Tools : TRUE,
           spoken |-> FALSE, term |-> 0, claim |-> "fresh"]

ReceiptsTypeOK ==
    /\ profile \in Profiles
    /\ dialog \in [Turns -> TurnRows]
    /\ speaker \in BOOLEAN
    /\ term \in 1 .. MaxTerms
    /\ receipts \in [Turns -> [Tools -> Receipts]]
    /\ calls \in [Calls -> CallRows]
    /\ acts \in [Turns -> [Tools -> 0 .. MaxActs]]
    /\ refused \in [Turns -> [Tools -> Nat]]

ReceiptsInit ==
    /\ profile \in Profiles
    /\ dialog = [t \in Turns |-> NewTurn("none", NoTurn)]
    /\ speaker = FALSE
    /\ term = 1
    /\ receipts = [t \in Turns |-> [a \in Tools |-> "none"]]
    /\ calls = [c \in Calls |-> NoCall]
    /\ acts = [t \in Turns |-> [a \in Tools |-> 0]]
    /\ refused = [t \in Turns |-> [a \in Tools |-> 0]]

-----------------------------------------------------------------------------
(* Fences *)

Submitted(t) == t # NoTurn /\ dialog[t].state = "submitted"
\* The turn is submitted under the lease that is held.
Answering(t) == Submitted(t) /\ dialog[t].term = term
Open(t) == Answering(t) /\ ~dialog[t].accepted

\* currentFence of a call: its turn still carries the lease it was authorized under.
CurrentFence(call) == Answering(call.turn) /\ call.term = term
\* The predicate of every write to a receipt: fencedTurn
FencedTurn(call) == CurrentFence(call) /\ Open(call.turn) /\ dialog[call.turn].steer # "owner"
\* canMutateControllerTurn: the call's thread must be the live one, and no steer on its way.
CanMutate(call) ==
    /\ CurrentFence(call) /\ Open(call.turn)
    /\ dialog[call.turn].steer = "none"
    /\ call.spoken

Put(f, t, a, v) == [f EXCEPT ![t][a] = v]
Receipt(call) == receipts[call.turn][call.tool]
Write(call, v) == receipts' = Put(receipts, call.turn, call.tool, v)

-----------------------------------------------------------------------------
(* The turn *)

OwnerWrites(t) ==
    /\ dialog[t].state = "none" /\ \A u \in Turns : u < t => dialog[u].state # "none"
    /\ dialog' = [dialog EXCEPT ![t] = NewTurn("queued", NoTurn)]
    /\ UNCHANGED <<speaker, term, receipts, calls, acts, refused>>

Submit(t) ==
    /\ dialog[t].state = "queued"
    /\ \A u \in Turns : ~Submitted(u) /\ (u < t => dialog[u].state # "queued")
    /\ dialog' = [dialog EXCEPT ![t].state = "submitted", ![t].term = term]
    /\ speaker' = TRUE
    /\ UNCHANGED <<term, receipts, calls, acts, refused>>

LeaseIsTakenOver ==
    /\ term < MaxTerms
    /\ term' = term + 1
    /\ \/ UNCHANGED calls
       \/ calls' = [c \in Calls |-> NoCall]     \* the process dies with its calls
    /\ UNCHANGED <<dialog, speaker, receipts, acts, refused>>

AdoptSubmittedTurnFence(t) ==
    /\ Submitted(t) /\ ~Answering(t)
    /\ dialog' = [dialog EXCEPT ![t].term = term]
    /\ UNCHANGED <<speaker, term, receipts, calls, acts, refused>>

ReserveControllerSteer(t, w) ==
    /\ Open(t) /\ dialog[t].steer = "none" /\ dialog[t].upsets < MaxUpsets
    /\ dialog[w].state = "queued"
    /\ dialog' = [dialog EXCEPT ![t].steer = "owner", ![t].waiting = w, ![t].upsets = @ + 1]
    /\ UNCHANGED <<speaker, term, receipts, calls, acts, refused>>

\* A message that may or may not have been heard is answered as a turn that
\* repeats this one; one that was heard is folded into it.
SettleControllerSteer(t) ==
    LET w == dialog[t].waiting
        Noted(turns) == dialog' = [turns EXCEPT ![t].steer = "none", ![t].waiting = NoTurn]
    IN  /\ Open(t) /\ dialog[t].steer = "owner"
        /\ \/ Noted(dialog)
           \/ Noted([dialog EXCEPT ![w].state = "completed"])
           \/ Noted([dialog EXCEPT ![w].source = t])
        /\ UNCHANGED <<speaker, term, receipts, calls, acts, refused>>

ClaimControllerSupervisorSteer(t) ==
    /\ Open(t) /\ dialog[t].steer = "none" /\ dialog[t].upsets < MaxUpsets
    /\ dialog' = [dialog EXCEPT ![t].steer = "supervisor", ![t].upsets = @ + 1]
    /\ UNCHANGED <<speaker, term, receipts, calls, acts, refused>>

SettleControllerSupervisorSteer(t) ==
    /\ Open(t) /\ dialog[t].steer = "supervisor"
    /\ dialog' = [dialog EXCEPT ![t].steer = "none"]
    /\ UNCHANGED <<speaker, term, receipts, calls, acts, refused>>

\* Mutated form of ProposeFinalization: does not look for calls that still run.
ProposeInFlight(t) ==
    /\ Open(t) /\ dialog[t].steer = "none"
    /\ dialog' = [dialog EXCEPT ![t].accepted = TRUE]
    /\ UNCHANGED <<speaker, term, receipts, calls, acts, refused>>

\* An answer is accepted when no receipt of the turn is started.
ProposeFinalization(t) ==
    /\ Open(t) /\ dialog[t].steer = "none"
    /\ \A a \in Tools : receipts[t][a] # "started"
    /\ dialog' = [dialog EXCEPT ![t].accepted = TRUE]
    /\ UNCHANGED <<speaker, term, receipts, calls, acts, refused>>

\* The thread is given up: the next turn has another one.
RetireThread ==
    /\ speaker' = FALSE
    /\ calls' = [c \in Calls |-> [calls[c] EXCEPT !.spoken = FALSE]]

CompleteFromFinalization(t) ==
    /\ Answering(t) /\ dialog[t].accepted
    /\ dialog' = [dialog EXCEPT ![t].state = "completed", ![t].upsets = 0]
    /\ RetireThread \/ UNCHANGED <<speaker, calls>>     \* it is, after an error of the provider
    /\ UNCHANGED <<term, receipts, acts, refused>>

\* Recovery, a retry with another model, a relaunch with more tools: the turn
\* goes back to the queue, to be given another thread.
Rerun(t) ==
    /\ Open(t) /\ dialog[t].upsets < MaxUpsets
    /\ dialog' = [dialog EXCEPT ![t].state = "queued", ![t].term = 0, ![t].upsets = @ + 1]
    /\ RetireThread
    /\ UNCHANGED <<term, receipts, acts, refused>>

\* Mutated form of Untouched: asks only for evidence.
HasNoEvidence(t) == ~dialog[t].touched /\ dialog[t].source = NoTurn

\* The turn left no trace, and its message was not put back before.
Untouched(t) ==
    /\ ~dialog[t].touched /\ dialog[t].source = NoTurn
    /\ \A a \in Tools : receipts[t][a] = "none"

\* The message of a turn that failed is put back when nothing came of it; it is
\* not when it had a file, the failure is one of another kind, or calls of other
\* tools were counted.
FailAndRetire(t) ==
    /\ Open(t)
    /\ LET failed == [dialog EXCEPT ![t].state = "failed", ![t].term = 0, ![t].upsets = 0]
       IN  \/ dialog' = failed
           \/ /\ Untouched(t)
              /\ \E u \in Turns :
                    /\ dialog[u].state = "none" /\ \A v \in Turns : v < u => dialog[v].state # "none"
                    /\ dialog' = [failed EXCEPT ![u] = NewTurn("queued", t)]
    /\ RetireThread
    /\ UNCHANGED <<term, receipts, acts, refused>>

-----------------------------------------------------------------------------
(* The calls *)

Move(c, step) == calls' = [calls EXCEPT ![c].at = step]
Ends(c) == calls' = [calls EXCEPT ![c] = NoCall]

\* Mutated form of Known: knows only the receipts of the turn itself.
KnownOfTurn(t, a) == receipts[t][a]

\* The receipt that is there: that of the turn, or of the one it repeats.
Known(t, a) ==
    LET s == dialog[t].source
    IN  IF receipts[t][a] = "none" /\ s # NoTurn /\ receipts[s][a] # "refused"
        THEN receipts[s][a]
        ELSE receipts[t][a]

\* authorizeControllerCapability and claimToolReceipt, one after the other.  The
\* live thread calls for the turn that is submitted.
ClaimToolReceipt(c, a) ==
    \E t \in Turns :
        LET known == Known(t, a)
            claim == CASE known \in {"none", "refused"} -> "fresh"
                       [] known = "completed" -> "replay"
                       [] OTHER -> "interrupted"
        IN  /\ calls[c].at = "free" /\ speaker
            /\ Open(t) /\ dialog[t].steer # "owner"
            /\ receipts' = IF claim = "fresh" THEN Put(receipts, t, a, "started") ELSE receipts
            /\ calls' = [calls EXCEPT ![c] =
                   [at |-> "scope", turn |-> t, tool |-> a, spoken |-> TRUE,
                    term |-> term, claim |-> claim]]
            /\ UNCHANGED <<dialog, speaker, term, acts, refused>>

\* A fresh call that is refused gives its receipt back, if it still may.
Released(call) == call.claim = "fresh" /\ FencedTurn(call) /\ Receipt(call) = "started"
Release(c) ==
    /\ IF Released(calls[c]) THEN Write(calls[c], "refused") ELSE UNCHANGED receipts
    /\ Ends(c)

\* The scope was read, and the call is authorized again, under the lease of now.
ResolveScope(c) ==
    LET call == calls[c]
    IN  /\ call.at = "scope"
        /\ \/ /\ Open(call.turn) /\ call.spoken
              /\ calls' = [calls EXCEPT ![c].at = IF call.claim = "fresh" THEN "act" ELSE "settle",
                                        ![c].term = term]
              /\ UNCHANGED receipts
           \/ Release(c)
        /\ UNCHANGED <<dialog, speaker, term, acts, refused>>

Acts(call) == acts' = Put(acts, call.turn, call.tool, acts[call.turn][call.tool] + 1)

\* A tool on the database writes in one transaction with the fence.  One that
\* could not, or threw, has failed.
ActLocally(c) ==
    LET call == calls[c]
    IN  /\ call.at = "act" /\ call.tool \notin External
        /\ \/ /\ CanMutate(call) /\ acts[call.turn][call.tool] < MaxActs
              /\ Acts(call) /\ Move(c, "settle")
              /\ UNCHANGED receipts
           \/ /\ Ends(c)
              /\ IF FencedTurn(call) /\ Receipt(call) = "started" THEN Write(call, "failed")
                                                                   ELSE UNCHANGED receipts
              /\ UNCHANGED acts
        /\ UNCHANGED <<dialog, speaker, term, refused>>

\* A call to BB is answered, or is lost after it landed, or before.
ActOnBb(c) ==
    LET call == calls[c]
    IN  /\ call.at = "act" /\ call.tool \in External
        /\ \/ /\ acts[call.turn][call.tool] < MaxActs
              /\ Acts(call) /\ (Move(c, "publish") \/ Ends(c))
           \/ Ends(c) /\ UNCHANGED acts
        /\ UNCHANGED <<dialog, speaker, term, receipts, refused>>

\* What was done is recorded in the database.  If that is refused, so is the call.
Publish(c) ==
    LET call == calls[c]
    IN  /\ call.at = "publish"
        /\ \/ CanMutate(call) /\ Move(c, "settle") /\ UNCHANGED <<receipts, refused>>
           \/ /\ ~CanMutate(call) /\ Release(c)
              /\ refused' = IF Released(call)
                            THEN Put(refused, call.turn, call.tool, refused[call.turn][call.tool] + 1)
                            ELSE refused
        /\ UNCHANGED <<dialog, speaker, term, acts>>

\* The receipt and the evidence are written together.  A call that met another
\* of its kind settles it as unknown; one whose receipt was settled meanwhile
\* is stale, and one of a turn that repeats another leaves that one's as it is.
SettleToolReceipt(c) ==
    LET call == calls[c]
        Records == dialog' = [dialog EXCEPT ![call.turn].touched = TRUE]
    IN  /\ call.at = "settle" /\ Ends(c)
        /\ \/ /\ call.claim = "fresh" /\ FencedTurn(call) /\ Receipt(call) = "started"
              /\ Write(call, "completed") /\ Records
           \/ /\ call.claim = "interrupted" /\ FencedTurn(call)
              /\ Receipt(call) \in {"started", "failed", "unknown"}
              /\ Write(call, "unknown") /\ Records
           \/ /\ call.claim = "replay" /\ FencedTurn(call)
              /\ Records /\ UNCHANGED receipts
           \/ UNCHANGED <<dialog, receipts>>    \* refused, or the evidence is full
        /\ UNCHANGED <<speaker, term, acts, refused>>

-----------------------------------------------------------------------------
ReceiptsNext ==
    /\ \/ \E t \in Turns :
             \/ OwnerWrites(t) \/ Submit(t) \/ AdoptSubmittedTurnFence(t)
             \/ \E w \in Turns : ReserveControllerSteer(t, w)
             \/ SettleControllerSteer(t)
             \/ ClaimControllerSupervisorSteer(t) \/ SettleControllerSupervisorSteer(t)
             \/ ProposeFinalization(t) \/ CompleteFromFinalization(t)
             \/ Rerun(t) \/ FailAndRetire(t)
       \/ LeaseIsTakenOver
       \/ \E c \in Calls :
             \/ \E a \in profile : ClaimToolReceipt(c, a)
             \/ ResolveScope(c) \/ ActLocally(c) \/ ActOnBb(c) \/ Publish(c)
             \/ SettleToolReceipt(c)
    /\ UNCHANGED profile

ReceiptsSpec == ReceiptsInit /\ [][ReceiptsNext]_receiptVars

-----------------------------------------------------------------------------
(* Properties. *)

\* An identical call acts once in a turn and in the turn that it repeats, whatever
\* is steered, recovered, put back or lost between its claim and its settlement.
\* There is one exception: a call that acted on BB and was then refused to record it
\* gives its receipt back, and the next one acts again (releaseFreshInvocation).
ActsAtMostOnce ==
    \A t \in Turns, a \in Tools :
        LET Sum(f) == f[t][a] + (IF dialog[t].source = NoTurn THEN 0 ELSE f[dialog[t].source][a])
        IN  Sum(acts) <= 1 + Sum(refused)

\* A call that may still act when the answer is accepted is one that an identical
\* call has met, so that the agent was told that its outcome is unknown: an answer
\* does not win the gap between the reservation and the act (executeControllerCapability,
\* contextRejectionCode).
NothingActsBehindTheAnswer ==
    \A c \in Calls :
        LET call == calls[c]
        IN  call.at # "free" /\ call.claim = "fresh" /\ dialog[call.turn].accepted =>
                Receipt(call) = "unknown"

\* A message is put back into the queue only if the turn that failed with it did
\* nothing, and none of its calls is under way to do anything afterwards: the owner is
\* told that it will be tried again (requeueUntouchedOwnerMessage).
PutsBack(s) ==
    /\ dialog[s].state = "submitted" /\ dialog'[s].state = "failed"
    /\ \E t \in Turns : dialog[t].state = "none" /\ dialog'[t].source = s
RequeuedTurnDidNothing ==
    [][\A s \in Turns : PutsBack(s) =>
          /\ \A a \in Tools : acts[s][a] = 0
          /\ \A c \in Calls : calls[c].turn = s => calls[c].at = "free"]_receiptVars
=============================================================================
