------------------------------ MODULE Services ------------------------------
(***************************************************************************)
(* The services beside the conversation: updates come in through           *)
(* TelegramIngress, texts go out through Outbox, and Obligations wakes the *)
(* agent for what it waits for.  The conversation is between them and      *)
(* decides when texts are written.  They share no state, and a behaviour   *)
(* is about the one that `end` names.                                      *)
(***************************************************************************)
EXTENDS TelegramIngress, Outbox, Obligations

VARIABLE end

Ends == {"in", "out", "join", "watch"}

servicesVars == <<ingressVars, outboxVars, obligationVars, end>>

ServicesTypeOK == IngressTypeOK /\ OutboxTypeOK /\ ObligationsTypeOK /\ end \in Ends

ServicesInit == IngressInit /\ OutboxInit /\ ObligationsInit /\ end \in Ends

In(A) == end = "in" /\ A /\ UNCHANGED <<outboxVars, obligationVars, end>>
Out(A) == end = "out" /\ A /\ UNCHANGED <<ingressVars, obligationVars, end>>
Owed(what, A) == end = what /\ A /\ UNCHANGED <<ingressVars, outboxVars, end>>

ServicesNext ==
    \/ In(IngressNext)
    \/ Out(OutboxNext)
    \/ Owed("join", DelegationNext)
    \/ Owed("watch", WatchNext)
    \/ end \in {"join", "watch"} /\ Owed(end, SweepNext)

\* Time passes, the loops go on and handlers end.  A text that is sent over and
\* over is in the end acknowledged before its lease is lost or it is rewritten;
\* rows wait for the loops in turn, and a thread at rest can in the end be read.
FairServices ==
    /\ ServicesInit /\ [][ServicesNext]_servicesVars
    /\ WF_servicesVars(In(Poll))
    /\ \A u \in UpdateIds :
          /\ WF_servicesVars(In(BeginTelegramUpdate(u)))
          /\ WF_servicesVars(In(Handling(u)))
          /\ WF_servicesVars(In(ClaimExpires(u)))
    /\ \A k \in Keys :
          /\ SF_servicesVars(Out(StartDelivery(k)))
          /\ WF_servicesVars(Out(EndDelivery(k)))
          /\ SF_servicesVars(Out(CompleteOutbox(k)))
    /\ \A d \in Delegations :
          /\ WF_servicesVars(Owed("join", DeadlinePasses(d)))
          /\ SF_servicesVars(Owed("join", \E s \in Sweepers : SweepDelegation(s, d)))
    /\ \A s \in Sweepers : WF_servicesVars(Owed("join", SweepGoesOn(s)))
    /\ <>[][~Owed("join", ProcessDies)]_servicesVars
=============================================================================
