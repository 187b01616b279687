------------------------------- MODULE Duties -------------------------------
(***************************************************************************)
(* Three duties that go on beside each other and share no state: a job has *)
(* its head reviewed (ReviewLane), the agent calls its tools               *)
(* (ToolReceipts), and it asks a provider (Connectors).  A behaviour is    *)
(* about the one that `duty` names.                                        *)
(***************************************************************************)
EXTENDS ReviewLane, ToolReceipts, Connectors

VARIABLE duty

dutiesVars == <<reviewVars, receiptVars, connectorVars, duty>>

DutiesTypeOK ==
    \/ duty = "reviews" /\ ReviewTypeOK
    \/ duty = "tools" /\ ReceiptsTypeOK
    \/ duty = "connectors" /\ ConnectorsTypeOK

\* The origin of a job and the profile of the agent matter only to their own duty.
DutiesInit ==
    /\ ReviewInit /\ ReceiptsInit /\ ConnectorsInit
    /\ duty \in {"reviews", "tools", "connectors"}
    /\ duty # "reviews" => job.origin = "requested"
    /\ duty # "tools" => profile = CHOOSE p \in Profiles : TRUE

DutiesNext ==
    \/ duty = "reviews" /\ ReviewNext /\ UNCHANGED <<receiptVars, connectorVars, duty>>
    \/ duty = "tools" /\ ReceiptsNext /\ UNCHANGED <<reviewVars, connectorVars, duty>>
    \/ duty = "connectors" /\ ConnectorsNext /\ UNCHANGED <<reviewVars, receiptVars, duty>>

DutiesSpec == DutiesInit /\ [][DutiesNext]_dutiesVars
=============================================================================
