------------------------------- MODULE Outbox -------------------------------
(***************************************************************************)
(* What goes out.  Every text for the owner is a row of the table outbox,  *)
(* written in the transaction that decides on it, and rewritten by later   *)
(* ones.  The executor loop leases a row, sends or edits a Telegram        *)
(* message, and completes the row; the call may fail, or succeed unseen,   *)
(* and the row may be rewritten or its lease be lost meanwhile.  A call    *)
(* takes effect while the loop that made it waits for it, or not at all.   *)
(***************************************************************************)
EXTENDS Integers

CONSTANTS
    Keys,           \* logical keys
    Cards,          \* those of status cards, which a job rewrites
    NoKey,
    MaxSends,       \* attempts after which a row is given up (20)
    MaxVersion      \* bound: versions of a card

ASSUME OutboxAssumption ==
    /\ Cards \subseteq Keys /\ NoKey \notin Keys
    /\ MaxSends \in Nat \ {0} /\ MaxVersion \in Nat \ {0}

VARIABLES
    outbox,         \* table outbox
    shown,          \* the text of the Telegram message a row knows
    sending         \* the call the loop awaits

outboxVars == <<outbox, shown, sending>>

\* Texts are the versions of a reply or a card, or one of these.
NoText == 0
Notice == -1        \* CONTROLLER_FAILURE_TEXT.owner_message_delivery_exhausted
Texts == Notice .. MaxVersion

Waiting == {"pending", "failed", "leased"}
NoRow == [status |-> "none", text |-> NoText, attempts |-> 0, held |-> FALSE, known |-> FALSE]
NoCall == [key |-> NoKey, text |-> NoText, kind |-> "none", moved |-> FALSE]

OutboxTypeOK ==
    /\ outbox \in [Keys -> [status : {"none", "sent", "dead"} \cup Waiting, text : Texts,
                            attempts : 0 .. MaxSends, held : BOOLEAN, known : BOOLEAN]]
    /\ shown \in [Keys -> Texts]
    /\ sending \in [key : Keys \cup {NoKey}, text : Texts, kind : {"none", "send", "edit"},
                    moved : BOOLEAN]

OutboxInit ==
    /\ outbox = [k \in Keys |-> NoRow]
    /\ shown = [k \in Keys |-> NoText]
    /\ sending = NoCall

\* A row's columns; only a row that is leased has a lease.
SetRow(k, status, text, attempts, known) ==
    outbox' = [outbox EXCEPT ![k] = [status |-> status, text |-> text, attempts |-> attempts,
                                     held |-> status = "leased", known |-> known]]

\* persistOutbox keeps the message, and what is leased is pending again (its
\* lease is not read any more); persistControllerOutbox forgets the attempts.
PersistOutbox(k, text, fresh) ==
    SetRow(k, "pending", text, IF fresh THEN 0 ELSE outbox[k].attempts, outbox[k].known)

\* A job moves on while its card may be on its way, and may render it anew.
JobMoves(k, render) ==
    /\ k \in Cards
    /\ IF render
       THEN outbox[k].text < MaxVersion /\ PersistOutbox(k, outbox[k].text + 1, FALSE)
       ELSE sending.key = k /\ ~sending.moved /\ outbox' = outbox
    /\ sending' = IF sending.key = k THEN [sending EXCEPT !.moved = TRUE] ELSE sending
    /\ shown' = shown

\* The attempt that the lease counts
OneMore(attempts) == IF attempts < MaxSends THEN attempts + 1 ELSE attempts

\* Mutated form of StartDelivery: what a lost loop had leased stays leased.
StartPendingDelivery(k) ==
    /\ sending = NoCall /\ outbox[k].status \in {"pending", "failed"}
    /\ SetRow(k, "leased", outbox[k].text, OneMore(outbox[k].attempts), outbox[k].known)
    /\ sending' = [key |-> k, text |-> outbox[k].text, moved |-> FALSE,
                   kind |-> IF outbox[k].known THEN "edit" ELSE "send"]
    /\ shown' = shown

\* leaseOutbox: a row that is due, or whose lease a lost loop left behind.  A
\* message that is known is edited, any other one is sent.
StartDelivery(k) ==
    /\ sending = NoCall /\ outbox[k].status \in Waiting
    /\ SetRow(k, "leased", outbox[k].text, OneMore(outbox[k].attempts), outbox[k].known)
    /\ sending' = [key |-> k, text |-> outbox[k].text, moved |-> FALSE,
                   kind |-> IF outbox[k].known THEN "edit" ELSE "send"]
    /\ shown' = shown

\* The lease of the row, as every settlement checks it
HoldsRow(k) == outbox[k].status = "leased" /\ outbox[k].held

\* Whether the call took effect or not; a message that was sent and not
\* acknowledged stays in the chat beside the one the row will know.
Lands(k, landed) ==
    shown' = IF landed /\ sending.kind = "edit" THEN [shown EXCEPT ![k] = sending.text] ELSE shown

\* The loop loses the executor lease, or its process dies; a settlement that is
\* refused makes it give up the lease, too.
LoseLoop(k) ==
    /\ sending.key = k
    /\ \E landed \in BOOLEAN : Lands(k, landed)
    /\ outbox' = outbox /\ sending' = NoCall

\* completeStatusOutbox also wants the job as it was read for a new card.
MayComplete(k) == HoldsRow(k) /\ (k \in Cards /\ sending.kind = "send" => ~sending.moved)

\* Mutated form of CompleteOutbox: the row is not looked at again.
CompleteAnyRow(k) ==
    /\ sending.key = k
    /\ SetRow(k, "sent", outbox[k].text, outbox[k].attempts, TRUE)
    /\ shown' = [shown EXCEPT ![k] = sending.text]
    /\ sending' = NoCall

\* Telegram answers (to an edit also that nothing was modified).  A row that
\* does not take the completion is delivered again.
CompleteOutbox(k) ==
    /\ sending.key = k /\ MayComplete(k)
    /\ SetRow(k, "sent", outbox[k].text, outbox[k].attempts, TRUE)
    /\ shown' = [shown EXCEPT ![k] = sending.text]
    /\ sending' = NoCall

\* A row is given up: out of attempts, or refused for good.  When the text may
\* have been posted, it says instead that it could not be delivered.
GiveUp(k, permanent, doubt) ==
    IF doubt
    THEN ~permanent /\ SetRow(k, "failed", Notice, 0, outbox[k].known)
    ELSE SetRow(k, "dead", outbox[k].text, outbox[k].attempts, outbox[k].known)

\* The call fails: permanently; in doubt, if a new message may have landed; or
\* otherwise.  The row is tried again until its attempts are used up.
DeliveryFails(k, permanent) ==
    /\ sending.key = k /\ HoldsRow(k)
    /\ \E landed \in BOOLEAN :
          /\ permanent => ~landed
          /\ Lands(k, landed)
          /\ \E doubt \in BOOLEAN :
                /\ sending.kind = "edit" => ~doubt
                /\ sending.kind = "send" /\ landed => doubt
                /\ IF permanent \/ outbox[k].attempts >= MaxSends
                   THEN GiveUp(k, permanent, doubt)
                   ELSE SetRow(k, "failed", outbox[k].text, outbox[k].attempts, outbox[k].known)
    /\ sending' = NoCall

\* A card that can no longer be edited is sent again.
EditUnavailable(k) ==
    /\ sending.key = k /\ k \in Cards /\ sending.kind = "edit" /\ HoldsRow(k)
    /\ sending' = [sending EXCEPT !.kind = "send", !.moved = FALSE]
    /\ UNCHANGED <<outbox, shown>>

\* The row's lease expires while the call takes its time.
RowLeaseExpires(k) ==
    /\ sending.key = k /\ HoldsRow(k)
    /\ outbox' = [outbox EXCEPT ![k].held = FALSE]
    /\ UNCHANGED <<shown, sending>>

\* Every call ends, by an answer or by its timeout.
EndDelivery(k) ==
    \/ CompleteOutbox(k) \/ LoseLoop(k)
    \/ \E permanent \in BOOLEAN : DeliveryFails(k, permanent)

\* A text for the owner: a status card is rewritten, any other row is written
\* once here.
WriteRow(k) ==
    /\ k \notin Cards /\ outbox[k].status = "none"
    /\ PersistOutbox(k, 1, TRUE)
    /\ UNCHANGED <<shown, sending>>

OutboxNext ==
    \E k \in Keys :
        \/ WriteRow(k)
        \/ \E render \in BOOLEAN : JobMoves(k, render)
        \/ StartDelivery(k) \/ EndDelivery(k)
        \/ EditUnavailable(k) \/ RowLeaseExpires(k)

OutboxSpec == OutboxInit /\ [][OutboxNext]_outboxVars

-----------------------------------------------------------------------------
(* Properties *)

\* A row that counts as sent shows the owner the text it has now, also when it
\* was rewritten while an earlier text was on its way.
SentMeansShown ==
    \A k \in Keys : outbox[k].status = "sent" =>
        outbox[k].known /\ shown[k] = outbox[k].text

\* Every text is delivered in the end or given up, however often the row was
\* rewritten, its call was lost or its lease expired.
EveryRowIsDelivered ==
    \A k \in Keys : outbox[k].status \in Waiting ~> outbox[k].status \in {"sent", "dead"}
=============================================================================
