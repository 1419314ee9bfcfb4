-------------------------------- MODULE MCQueues --------------------------------
(***************************************************************************)
(* The two queues the heartbeat drains, a player's input and the delayed    *)
(* events. They share no state: part says which one runs in a behaviour.    *)
(***************************************************************************)
EXTENDS InputQueue, EventQueue

VARIABLE part

queuesVars == <<part, inputVars, eventVars>>

QueuesTypeOK == part \in {"input", "events"} /\ InputTypeOK /\ EventTypeOK

Init == part \in {"input", "events"} /\ InputInit /\ EventInit

Next ==
    /\ UNCHANGED part
    /\ \/ part = "input" /\ InputNext /\ UNCHANGED eventVars
       \/ part = "events" /\ EventNext /\ UNCHANGED inputVars

\* The queue that does not run has nothing to do, so its fairness asks for nothing.
Spec == Init /\ [][Next]_queuesVars /\ InputFairness /\ EventFairness
=============================================================================
