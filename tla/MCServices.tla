------------------------------- MODULE MCServices -------------------------------
(***************************************************************************)
(* The parts of the game that share no state with each other, checked side *)
(* by side: part says which of them runs in a behaviour, the variables of   *)
(* the others stay as they began. A product of all would show no more.      *)
(***************************************************************************)
EXTENDS OlcEditing, CombatList, ObjectPlaces, NotifyService, TLC

VARIABLE part

Parts == {"olc", "combat", "places", "notify"}

TheKinds == <<"room", "mob">>
TheKindOf == [r \in Resources |-> IF r = "m1" THEN "mob" ELSE "room"]

servicesVars == <<part, olcVars, combatVars, placesVars, notifyVars>>

\* Mobs that start no fight are interchangeable and so are players.
MCSymmetry == Permutations(Mobs \ Starters) \cup Permutations(Players)

\* Only the part that runs distinguishes states.
MCView == <<part, CASE part = "olc" -> olcVars [] part = "combat" -> combatVars
                    [] part = "places" -> placesVars [] part = "notify" -> notifyVars>>

\* Each part keeps its shape while it runs.
ServicesTypeOK ==
    CASE part = "olc" -> OlcTypeOK [] part = "combat" -> CombatTypeOK
      [] part = "places" -> PlacesTypeOK [] part = "notify" -> NotifyTypeOK

Init == part \in Parts /\ OlcInit /\ CombatInit /\ PlacesInit /\ NotifyInit

Next ==
    /\ UNCHANGED part
    /\ \/ part = "olc" /\ OlcNext /\ UNCHANGED <<combatVars, placesVars, notifyVars>>
       \/ part = "combat" /\ CombatNext /\ UNCHANGED <<olcVars, placesVars, notifyVars>>
       \/ part = "places" /\ PlacesNext /\ UNCHANGED <<olcVars, combatVars, notifyVars>>
       \/ part = "notify" /\ NotifyNext /\ UNCHANGED <<olcVars, combatVars, placesVars>>

Spec == Init /\ [][Next]_servicesVars
=============================================================================
