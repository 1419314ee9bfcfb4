------------------------------- MODULE EventQueue -------------------------------
(***************************************************************************)
(* The delayed-action queue of pkg/events/queue.go with its one producer in *)
(* the game, the planned ambush of game/ambush.go, and its one canceller,  *)
(* the death of a mob (game/death.go).                                     *)
(*                                                                         *)
(* Two goroutines call Process: the queue's own ticker, which              *)
(* World.StartEventQueue starts, and the heartbeat (OnEventProcess in      *)
(* cmd/server/main.go). An event's time is kept as the passes still to go, *)
(* When - pulse in the code.                                               *)
(***************************************************************************)
EXTENDS Naturals, FiniteSets

CONSTANTS
    Ambushers,    \* database ids of the players
    MobIds,       \* instance ids of the mobs, numbered from 1 as well
    Delay,        \* PULSE_VIOLENCE * 2
    MaxPlans      \* bound: ambushes planned in all

ASSUME EventAssumption ==
    /\ Ambushers \subseteq Nat \ {0} /\ MobIds \subseteq Nat \ {0}
    /\ Delay \in Nat \ {0} /\ MaxPlans \in Nat

VARIABLES
    nextID,       \* EventQueue.nextID
    heap,         \* EventQueue.events
    cancelledIDs, \* events whose Cancelled was set
    due,          \* the events a Process pass has popped and not run yet
    slot,         \* Player.ambushAction: the pending event, or 0
    living,       \* mobs that have not died
    robbed        \* history: players whose event a mob's death cancelled

eventVars == <<nextID, heap, cancelledIDs, due, slot, living, robbed>>

Clocks == {"ticker", "heartbeat"}
Event == [id : 1..MaxPlans, source : Ambushers, left : 0..Delay]
Ids(S) == {e.id : e \in S}
Events == heap \cup UNION {due[c] : c \in Clocks}

\* Besides the types: an event is in the heap or in one pass, never in two places.
EventTypeOK ==
    /\ nextID \in 0..MaxPlans
    /\ heap \subseteq Event /\ due \in [Clocks -> SUBSET Event]
    /\ cancelledIDs \subseteq 1..MaxPlans /\ living \subseteq MobIds
    /\ slot \in [Ambushers -> 0..MaxPlans]
    /\ robbed \subseteq Ambushers
    /\ Cardinality(heap) + Cardinality(due["ticker"]) + Cardinality(due["heartbeat"])
         = Cardinality(Ids(Events))

EventInit ==
    /\ nextID = 0 /\ heap = {} /\ cancelledIDs = {}
    /\ due = [c \in Clocks |-> {}]
    /\ slot = [p \in Ambushers |-> 0]
    /\ living = MobIds
    /\ robbed = {}

-----------------------------------------------------------------------------
\* EventQueue.Create: a fresh id, Delay passes from now.
Create(p) ==
    /\ nextID' = nextID + 1
    /\ heap' = heap \cup {[id |-> nextID + 1, source |-> p, left |-> Delay]}

\* CmdAmbush and PlanAmbush: refused while an ambush is pending.
MayPlan(p) == slot[p] = 0

PlanAmbush(p) ==
    /\ nextID < MaxPlans /\ MayPlan(p)
    /\ Create(p)
    /\ slot' = [slot EXCEPT ![p] = nextID + 1]
    /\ robbed' = robbed \ {p}
    /\ UNCHANGED <<cancelledIDs, due, living>>

\* EventQueue.CancelBySource: marks what is still in the heap, by number.
CancelBySource(n) == {e \in heap : e.source = n}

\* HandleMobDeath cancels "all pending events for this mob".
MobDies(m) ==
    /\ m \in living /\ living' = living \ {m}
    /\ cancelledIDs' = cancelledIDs \cup Ids(CancelBySource(m))
    /\ robbed' = robbed \cup {p \in Ambushers : \E e \in CancelBySource(m) : slot[p] = e.id}
    /\ UNCHANGED <<nextID, heap, due, slot>>

\* Process, under the lock: the pulse counts up and everything due is popped.
\* Events keep the pass they are due at, so a second caller brings it nearer.
Popped == {e \in heap : e.left = 1}
MutantAdvanced == heap \ Popped
Advanced == {[e EXCEPT !.left = @ - 1] : e \in heap \ Popped}

Process(c) ==
    /\ due[c] = {} /\ heap # {}
    /\ due' = [due EXCEPT ![c] = Popped]
    /\ heap' = Advanced
    /\ UNCHANGED <<nextID, cancelledIDs, slot, living, robbed>>

\* Process, outside the lock: one popped event. The ambush function clears the
\* player's slot if it still is its own, and returns 0, so nothing is re-queued.
MutantResolved(e) == slot
Resolved(e) == IF slot[e.source] = e.id THEN [slot EXCEPT ![e.source] = 0] ELSE slot

RunDue(c) ==
    \E e \in due[c] :
        /\ due' = [due EXCEPT ![c] = @ \ {e}]
        /\ slot' = IF e.id \in cancelledIDs THEN slot ELSE Resolved(e)
        /\ UNCHANGED <<nextID, heap, cancelledIDs, living, robbed>>

Clock(c) == Process(c) \/ RunDue(c)

EventNext ==
    \/ \E p \in Ambushers : PlanAmbush(p)
    \/ \E m \in MobIds : MobDies(m)
    \/ \E c \in Clocks : Clock(c)

\* The heartbeat keeps beating; the queue's own ticker need not start a pass (a
\* frozen clock does not start it), but runs to the end the one it started.
EventFairness == WF_eventVars(Clock("heartbeat")) /\ WF_eventVars(RunDue("ticker"))

EventSpec == EventInit /\ [][EventNext]_eventVars

-----------------------------------------------------------------------------
\* A player that is refused as busy has one event pending that will end it, in the
\* heap or in a pass of either clock, except when a mob's death cancelled it.
BusyHasItsEvent ==
    \A p \in Ambushers : slot[p] # 0 =>
        p \in robbed \/ \E e \in Events : e.id = slot[p] /\ e.id \notin cancelledIDs

\* An ambush is resolved at last, whichever clock pops it, with the same exception.
AmbushResolves == \A p \in Ambushers : slot[p] # 0 ~> slot[p] = 0 \/ p \in robbed
=============================================================================
