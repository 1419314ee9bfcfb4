------------------------------ MODULE ObjectPlaces ------------------------------
(***************************************************************************)
(* Where the objects of one room are: on the floor, carried, worn, or in a *)
(* container, kept twice, in ObjectInstance.Location and in the list of the *)
(* holder. game/movement.go, item_transfer.go, item_container.go,           *)
(* item_equipment.go, world_object.go.                                      *)
(*                                                                         *)
(* Every player's commands run in a goroutine of its own, corpses decay in *)
(* the heartbeat. A command looks an object up in a copy of a list and      *)
(* moves it later under World.mu; wearing takes World.mu not at all.        *)
(***************************************************************************)
EXTENDS Naturals, FiniteSets

CONSTANTS
    Players, Objects,
    Containers,   \* objects that hold objects; they decay like corpses
    Piles,        \* piles of coins, consumed by whoever gets them
    Capacity,     \* objects a player can carry
    MaxDepth,     \* how many containers up a refusal looks; 10 in the code
    MaxLoose,     \* bound: no new command once more objects than that are loose
    Floor         \* the room

ASSUME PlacesAssumption ==
    /\ Containers \subseteq Objects /\ Piles \subseteq Objects \ Containers
    /\ Capacity \in Nat \ {0} /\ MaxDepth \in Nat \ {0} /\ MaxLoose \in Nat

VARIABLES
    location,     \* ObjectInstance.Location
    holds,        \* roomItems, Inventory.items, Equipment.slots (one slot) and Contains
    registered,   \* World.objectInstances
    cmd,          \* each player's command, between looking up and moving
    spill,        \* the decaying container, what it still has to drop, and where to
    credited,     \* history: how often the coins of a pile were paid out
    loose         \* history: objects that were moved from where they were not, or out
                  \* of a container that was not where its Location says, or into
                  \* themselves, deeper than the refusal looks

placesVars == <<location, holds, registered, cmd, spill, credited, loose>>

At(kind, owner) == [kind |-> kind, of |-> owner]
Nowhere == At("nowhere", Floor)
Room == At("room", Floor)
Inv(p) == At("inventory", p)
Worn(p) == At("worn", p)
In(c) == At("container", c)
Holders == {Room} \cup {Inv(p) : p \in Players} \cup {Worn(p) : p \in Players}
           \cup {In(c) : c \in Containers}

NoCommand == [at |-> "idle", obj |-> Floor, dst |-> Nowhere]
NoDecay == [of |-> Floor, left |-> {}, to |-> Room]
Stages == {"get", "getfrom", "move", "pay", "give", "wear", "slot"}

PlacesTypeOK ==
    /\ location \in [Objects -> Holders \cup {Nowhere}]
    /\ holds \in [Holders -> SUBSET Objects]
    /\ registered \subseteq Objects
    /\ cmd \in [Players -> [at : Stages, obj : Objects, dst : Holders] \cup {NoCommand}]
    /\ spill \in [of : Containers \cup {Floor}, left : SUBSET Objects, to : Holders]
    /\ credited \in [Piles -> Nat] /\ loose \subseteq Objects

PlacesInit ==
    /\ location = [o \in Objects |-> Room]
    /\ holds = [h \in Holders |-> IF h = Room THEN Objects ELSE {}]
    /\ registered = Objects
    /\ cmd = [p \in Players |-> NoCommand]
    /\ spill = NoDecay
    /\ credited = [o \in Piles |-> 0] /\ loose = {}

-----------------------------------------------------------------------------
Full(h, p) == Cardinality(h[Inv(p)]) >= Capacity

\* detachObjectLocked. A worn object goes through Equipment.Unequip, which empties
\* the slot into the inventory and fails, logged only, when that is full.
Detached(o) ==
    LET from == location[o] p == from.of IN
    IF from = Nowhere THEN holds
    ELSE IF from.kind # "worn" THEN [holds EXCEPT ![from] = @ \ {o}]
    ELSE IF Full(holds, p) \/ holds[from] = {} THEN holds
    ELSE [holds EXCEPT ![from] = {}, ![Inv(p)] = (@ \cup holds[from]) \ {o}]

Unequipped(o) ==
    LET from == location[o] IN
    IF from.kind = "worn" /\ ~Full(holds, from.of)
    THEN [x \in Objects |-> IF x \in holds[from] THEN Inv(from.of) ELSE location[x]]
    ELSE location

Misplaced(o) ==
    \/ location[o] = Nowhere \/ o \notin holds[location[o]]
    \/ location[o].kind = "worn" /\ Full(holds, location[o].of)

\* What an object lies in, up to the first in last: the least set with the registered
\* container of whatever is in it.
MutantChain(c) == {c}
Around(S, last) ==
    \A x \in S \ last : location[x].kind = "container" /\ location[x].of \in registered
                       => location[x].of \in S
Way(c, last) == {x \in Objects : \A S \in SUBSET Objects : c \in S /\ Around(S, last) => x \in S}
Chain(c) == Way(c, {})

\* An object and what it contains at any depth: the least set that has all a container
\* in it holds.
Inside(h, S) == \A c \in S \cap Containers : h[In(c)] \subseteq S
Tree(h, o) == {x \in Objects : \A S \in SUBSET Objects : o \in S /\ Inside(h, S) => x \in S}

\* attachObjectLocked: a container must be registered and must not be, or lie in,
\* the object, as far as the walk upward looks. AddToContainer refuses what it contains
\* already; it looks eleven levels down, which matters to loose objects only, since
\* others have been detached from wherever they lay.
Meets(c, o) == o \in Chain(c) /\ Cardinality(Way(c, {o})) <= MaxDepth

Attaches(h, o, d) ==
    CASE d.kind = "inventory" -> ~Full(h, d.of)
      [] d.kind = "container" -> /\ d.of \in registered
                                 /\ ~Meets(d.of, o)
                                 /\ o \notin Tree(h, d.of)
      [] OTHER -> TRUE

Placed(h, o, d) == IF d = Nowhere THEN h ELSE [h EXCEPT ![d] = @ \cup {o}]

\* moveObjectLocked: detach, attach, and back to the old place when that fails.
MutantBack(h, o, d) == h
Back(h, o, d) == Placed(h, o, d)

Astray(d) == d.kind = "container" /\ Chain(d.of) \cap loose # {}
InItself(o, d) == d.kind = "container" /\ o \in Chain(d.of)

Move(o, d) ==
    LET h == Detached(o) old == Unequipped(o)[o] IN
    /\ loose' = IF Misplaced(o) \/ Astray(location[o]) \/ (Attaches(h, o, d) /\ InItself(o, d))
                THEN loose \cup {o} ELSE loose
    /\ IF Attaches(h, o, d)
       THEN holds' = Placed(h, o, d) /\ location' = [Unequipped(o) EXCEPT ![o] = d]
       ELSE IF Attaches(h, o, old)
       THEN holds' = Back(h, o, old) /\ location' = Unequipped(o)
       ELSE holds' = h /\ location' = [Unequipped(o) EXCEPT ![o] = Nowhere]

Moves(o, d) == Attaches(Detached(o), o, d)

\* extractObjectLocked: the object and all it contains. One that is worn stays in
\* its slot when the inventory it has to pass through is full.
Stuck(o) == location[o].kind = "worn" /\ Full(holds, location[o].of)

ExtractObject(o) ==
    \E out \in {Tree(holds, o)} :
    /\ holds' = [h \in Holders |->
          IF h \in {In(c) : c \in out} THEN {}
          ELSE {x \in holds[h] : x \in out /\ location[x] = h => Stuck(x)}]
    /\ location' = [x \in Objects |-> IF x \in out THEN Nowhere ELSE location[x]]
    /\ registered' = registered \ out
    /\ loose' = loose \cup {x \in out : location[x] # Nowhere /\ Misplaced(x)}

Start(p, step, o, d) == cmd' = [cmd EXCEPT ![p] = [at |-> step, obj |-> o, dst |-> d]]
Done(p) == cmd' = [cmd EXCEPT ![p] = NoCommand]

-----------------------------------------------------------------------------
\* doGet, doPut, doDrop, doGive and doWear look their objects up in copies.
LookUp(p) ==
    /\ cmd[p] = NoCommand /\ Cardinality(loose) <= MaxLoose
    /\ \/ \E o \in holds[Room] : Start(p, "get", o, Inv(p))
       \/ \E c \in Containers \cap (holds[Room] \cup holds[Inv(p)]) :
             \E o \in holds[In(c)] : Start(p, "getfrom", o, In(c))
       \/ \E o \in holds[Inv(p)] :
             \/ Start(p, "move", o, Room)
             \/ \E q \in Players \ {p} : Start(p, "give", o, Inv(q))
             \/ \E c \in (Containers \cap (holds[Room] \cup holds[Inv(p)])) \ {o} : Start(p, "move", o, In(c))
             \/ holds[Worn(p)] = {} /\ Start(p, "wear", o, Worn(p))
    /\ UNCHANGED <<location, holds, registered, spill, credited, loose>>

\* performGetFromRoom: an extracted object is left, but the look is outside World.mu.
CheckGet(p) ==
    /\ cmd[p].at = "get"
    /\ IF location[cmd[p].obj] = Nowhere \/ Full(holds, p)
       THEN Done(p) ELSE Start(p, "move", cmd[p].obj, cmd[p].dst)
    /\ UNCHANGED <<location, holds, registered, spill, credited, loose>>

\* performGetFromContainer writes the Location itself before it moves the object.
GetFrom(p) ==
    LET o == cmd[p].obj c == cmd[p].dst IN
    /\ cmd[p].at = "getfrom"
    /\ IF Full(holds, p)
       THEN Done(p) /\ UNCHANGED <<location, loose>>
       ELSE /\ location' = [location EXCEPT ![o] = c]
            /\ loose' = IF o \in holds[c] /\ location[o] = c THEN loose ELSE loose \cup {o}
            /\ Start(p, "move", o, Inv(p))
    /\ UNCHANGED <<holds, registered, spill, credited>>

\* performGive looks at the hands of the other player first.
CheckGive(p) ==
    /\ cmd[p].at = "give"
    /\ IF Full(holds, cmd[p].dst.of) THEN Done(p) ELSE Start(p, "move", cmd[p].obj, cmd[p].dst)
    /\ UNCHANGED <<location, holds, registered, spill, credited, loose>>

\* MoveObject under World.mu, and getCheckMoney after a successful get.
MoveObject(p) ==
    LET o == cmd[p].obj d == cmd[p].dst IN
    /\ cmd[p].at = "move"
    /\ Move(o, d)
    /\ IF Moves(o, d) /\ d = Inv(p) /\ o \in Piles THEN Start(p, "pay", o, d) ELSE Done(p)
    /\ UNCHANGED <<registered, spill, credited>>

MutantConsumed(o) == FALSE
Consumed(o) == location[o] = Nowhere

GetCheckMoney(p) ==
    LET o == cmd[p].obj IN
    /\ cmd[p].at = "pay" /\ Done(p)
    /\ IF Consumed(o) THEN UNCHANGED <<location, holds, registered, credited, loose>>
       ELSE ExtractObject(o) /\ credited' = [credited EXCEPT ![o] = @ + 1]
    /\ UNCHANGED spill

\* EquipItem: out of the inventory, then into the slot, with the inventory's and the
\* equipment's own locks. The slot is still free: a player has one command at a time.
TakeToWear(p) ==
    LET o == cmd[p].obj IN
    /\ cmd[p].at = "wear" /\ Start(p, "slot", o, Worn(p))
    /\ holds' = [holds EXCEPT ![Inv(p)] = @ \ {o}]
    /\ loose' = IF o \in holds[Inv(p)] THEN loose ELSE loose \cup {o}
    /\ UNCHANGED <<location, registered, spill, credited>>

SetSlot(p) ==
    LET o == cmd[p].obj IN
    /\ cmd[p].at = "slot" /\ Done(p)
    /\ holds' = [holds EXCEPT ![Worn(p)] = {o}]
    /\ location' = [location EXCEPT ![o] = Worn(p)]
    /\ loose' = IF location[o] = Inv(p) THEN loose ELSE loose \cup {o}
    /\ UNCHANGED <<registered, spill, credited>>

\* performRemove and UnequipItem.
UnequipItem(p) ==
    /\ cmd[p] = NoCommand /\ holds[Worn(p)] # {} /\ ~Full(holds, p)
    /\ holds' = [holds EXCEPT ![Worn(p)] = {}, ![Inv(p)] = @ \cup holds[Worn(p)]]
    /\ location' = [o \in Objects |-> IF o \in holds[Worn(p)] THEN Inv(p) ELSE location[o]]
    /\ UNCHANGED <<registered, cmd, spill, credited, loose>>

-----------------------------------------------------------------------------
\* decayCorpse in the heartbeat: a copy of the contents goes one by one to where
\* the container was, or to the floor under who has it, then the container is
\* extracted with whatever is in it by then.
Decay(c) ==
    LET to == IF location[c].kind = "container" THEN location[c] ELSE Room IN
    /\ spill.of = Floor /\ c \in registered
    /\ spill' = [of |-> c, left |-> holds[In(c)], to |-> to]
    /\ UNCHANGED <<location, holds, registered, cmd, credited, loose>>

\* An outer container that is gone meanwhile takes nothing.
SpillOne ==
    \E o \in spill.left :
        /\ IF spill.to = Room \/ spill.to.of \in registered
           THEN Move(o, spill.to) ELSE UNCHANGED <<location, holds, loose>>
        /\ spill' = [spill EXCEPT !.left = @ \ {o}]
        /\ UNCHANGED <<registered, cmd, credited>>

EndDecay ==
    /\ spill.of # Floor /\ spill.left = {}
    /\ ExtractObject(spill.of)
    /\ spill' = NoDecay
    /\ UNCHANGED <<cmd, credited>>

\* Anything else that extracts an object: a spell, a script, a wizard, a timer.
Destroy(o) ==
    /\ o \in registered /\ ExtractObject(o)
    /\ UNCHANGED <<cmd, spill, credited>>

PlacesNext ==
    \/ \E p \in Players : LookUp(p) \/ CheckGet(p) \/ GetFrom(p) \/ CheckGive(p) \/ MoveObject(p)
                          \/ GetCheckMoney(p) \/ TakeToWear(p) \/ SetSlot(p) \/ UnequipItem(p)
    \/ \E c \in Containers : Decay(c)
    \/ SpillOne \/ EndDecay
    \/ \E o \in Objects : Destroy(o)

PlacesSpec == PlacesInit /\ [][PlacesNext]_placesVars

-----------------------------------------------------------------------------
InHand(o) == \E p \in Players : cmd[p].at = "slot" /\ cmd[p].obj = o

\* An object that was always moved from where it was is where its Location says and
\* nowhere else, and in the registry exactly as long as it is somewhere.
OneHolder ==
    \A o \in Objects \ loose : ~InHand(o) =>
        /\ {h \in Holders : o \in holds[h]} = {location[o]} \ {Nowhere}
        /\ o \in registered <=> location[o] # Nowhere

\* No container comes to lie in itself, whatever two players put where at once, as
\* long as none of those involved was in two places before or put into itself deeper
\* than the refusal looks.
NoCycle ==
    \A c \in Containers : \A o \in holds[In(c)] :
        c \in Tree(holds, o) => loose \cap Tree(holds, c) # {}

\* "Consume-once": the coins of a pile are paid to one getter.
PaidOnce == \A o \in Piles \ loose : credited[o] <= 1
=============================================================================
