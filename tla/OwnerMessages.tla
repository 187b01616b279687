--------------------------- MODULE OwnerMessages ---------------------------
(***************************************************************************)
(* What the conversation promises the owner, whatever threads, turns and   *)
(* crashes are behind it: a message that was accepted is settled once, by  *)
(* an answer or by an apology, together with the messages it was folded    *)
(* with, and it is settled in the end.                                     *)
(***************************************************************************)
CONSTANT Messages

VARIABLE outcome        \* what became of each message

Outcomes == {"none", "waiting", "answered", "apologised"}
Waiting == {m \in Messages : outcome[m] = "waiting"}

MessagesInit == outcome = [m \in Messages |-> "none"]

\* A message is persisted as a turn (enqueueControllerTurn).
AcceptMessage(m) ==
    /\ outcome[m] = "none"
    /\ outcome' = [outcome EXCEPT ![m] = "waiting"]

Settle(S, how) ==
    /\ S # {} /\ S \subseteq Waiting
    /\ outcome' = [m \in Messages |-> IF m \in S THEN how ELSE outcome[m]]

\* One reply answers a turn and everything folded into it.
AnswerMessages == \E S \in SUBSET Waiting : Settle(S, "answered")

\* One notice tells the owner that a turn ended without an answer.
ApologiseFor == \E S \in SUBSET Waiting : Settle(S, "apologised")

MessagesNext ==
    \/ \E m \in Messages : AcceptMessage(m)
    \/ AnswerMessages
    \/ ApologiseFor

MessagesSafety == MessagesInit /\ [][MessagesNext]_outcome

\* Every message that waits is settled at some time.
MessagesSpec ==
    /\ MessagesSafety
    /\ \A m \in Messages : outcome[m] = "waiting" ~> outcome[m] # "waiting"
=============================================================================
