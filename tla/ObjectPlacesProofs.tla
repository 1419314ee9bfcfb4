--------------------------- MODULE ObjectPlacesProofs ---------------------------
(***************************************************************************)
(* Theorems about ObjectPlaces for any players, objects, containers and     *)
(* capacity: an object that was always moved from where it was is held once, *)
(* where its Location says; no container comes to lie in itself; the coins   *)
(* of a pile are paid once.                                                  *)
(*                                                                         *)
(* The inductive invariant speaks of those objects, the straight ones. The   *)
(* refusal to put a container into itself follows Locations upward, what     *)
(* lies in what is kept in the holders' lists: that the lists of straight    *)
(* objects have no cycle needs the agreement of the two, and the way back of *)
(* a failed move needs that there is no cycle.                               *)
(***************************************************************************)
EXTENDS ObjectPlaces, FiniteSetTheorems, TLAPS

-----------------------------------------------------------------------------
(* The inductive invariant *)

Straight == Objects \ loose

\* Where a command of p at each of its stages is going.
Command(p, c) ==
    \/ c = NoCommand
    \/ /\ c \in [at : Stages, obj : Objects, dst : Holders]
       /\ c.at \in {"get", "pay"} => c.dst = Inv(p)
       /\ c.at \in {"getfrom"} => c.dst.kind = "container"
       /\ c.at = "give" => c.dst.kind = "inventory"
       /\ c.at = "move" => c.dst.kind # "worn"
       /\ c.at \in {"wear", "slot"} => c.dst = Worn(p)
       /\ c.at = "pay" => c.obj \in Piles
Commands == \A p \in Players : Command(p, cmd[p])
Spills == spill.to.kind \in {"room", "container"}

\* Location and lists agree, but for the moment when an object is in its wearer's
\* hands, out of the inventory and not yet in the slot.
Sited == \A o \in Straight : \A h \in Holders : o \in holds[h] => location[o] = h
Slotting(o) == \E p \in Players : cmd[p].at = "slot" /\ cmd[p].obj = o
Found == \A o \in Straight :
    location[o] # Nowhere => o \in holds[location[o]] \/ Slotting(o)
Listed == \A o \in Straight : o \in registered <=> location[o] # Nowhere
Held(p) == cmd[p].at = "slot" /\ cmd[p].obj \in Straight =>
    location[cmd[p].obj] = Inv(p) /\ \A h \in Holders : cmd[p].obj \notin holds[h]

\* What says it is worn is; a slot has one object, and none when one is to come.
Worned == \A q \in Players, o \in Objects : location[o] = Worn(q) => o \in holds[Worn(q)]
OneEach == \A q \in Players : \A x, y \in holds[Worn(q)] : x = y
Bare == \A q \in Players : cmd[q].at \in {"wear", "slot"} => holds[Worn(q)] = {}

Fits(s) == IsFiniteSet(s) /\ Cardinality(s) <= Capacity
Fitting == \A p \in Players : Fits(holds[Inv(p)])
Standing == \A c \in Containers : holds[In(c)] # {} => c \in registered

\* No straight objects lie in each other all around.
Ring(S) == S # {} /\ \A x \in S : x \in Containers /\ \E y \in S : y \in holds[In(x)]
Acyclic == \A S \in SUBSET Straight : ~Ring(S)

PaidGone == \A o \in Piles \ loose :
    credited[o] <= 1 /\ (credited[o] = 1 => location[o] = Nowhere)

Agree == Sited /\ Found /\ Listed /\ (\A p \in Players : Held(p))
Slots == Worned /\ OneEach /\ Bare
Belongings == Agree /\ Slots /\ Fitting /\ Standing /\ Acyclic
PlacesInv == PlacesTypeOK /\ Commands /\ Spills /\ Belongings /\ PaidGone

-----------------------------------------------------------------------------
(* Holders, and the two closures *)

\* Holders are told apart by their kind and owner.
LEMMA HoldersAre ==
    /\ Nowhere \notin Holders /\ Nowhere.kind = "nowhere"
    /\ Room \in Holders /\ Room.kind = "room"
    /\ \A p : Inv(p).kind = "inventory" /\ Inv(p).of = p
    /\ \A p : Worn(p).kind = "worn" /\ Worn(p).of = p
    /\ \A c : In(c).kind = "container" /\ In(c).of = c
    /\ \A p \in Players : Inv(p) \in Holders /\ Worn(p) \in Holders
    /\ \A c \in Containers : In(c) \in Holders
BY DEF Nowhere, Room, Inv, Worn, In, At, Holders

\* Each holder is the room or one of the three kinds.
LEMMA HolderKinds ==
    ASSUME NEW h \in Holders
    PROVE \/ h = Room
          \/ h.of \in Players /\ h = Inv(h.of)
          \/ h.of \in Players /\ h = Worn(h.of)
          \/ h.of \in Containers /\ h = In(h.of)
BY HoldersAre DEF Holders

\* By its kind.
LEMMA KindTells ==
    ASSUME NEW h \in Holders \cup {Nowhere}
    PROVE /\ h.kind = "nowhere" <=> h = Nowhere
          /\ h.kind = "worn" => h.of \in Players /\ h = Worn(h.of) /\ h \in Holders
          /\ h.kind = "inventory" => h.of \in Players /\ h = Inv(h.of) /\ h \in Holders
          /\ h.kind = "container" => h.of \in Containers /\ h = In(h.of) /\ h \in Holders
          /\ h.kind = "room" => h = Room
          /\ h.kind \in {"nowhere", "worn", "inventory", "container", "room"}
BY HoldersAre, HolderKinds

\* A tree has its root, and with a container what it holds, and is the least such set.
LEMMA TreeFacts ==
    ASSUME NEW h \in [Holders -> SUBSET Objects], NEW o \in Objects
    PROVE /\ o \in Tree(h, o) /\ Tree(h, o) \subseteq Objects
          /\ Inside(h, Tree(h, o))
          /\ \A S \in SUBSET Objects : o \in S /\ Inside(h, S) => Tree(h, o) \subseteq S
<1>1. \A S \in SUBSET Objects : o \in S /\ Inside(h, S) => Tree(h, o) \subseteq S
      BY DEF Tree
<1>2. ASSUME NEW c \in Tree(h, o), c \in Containers, NEW x \in h[In(c)]
      PROVE x \in Tree(h, o)
  <2>1. x \in Objects
        BY <1>2, HoldersAre
  <2>2. ASSUME NEW S \in SUBSET Objects, o \in S, Inside(h, S) PROVE x \in S
        BY <1>1, <1>2, <2>2 DEF Inside
  <2> QED BY <2>1, <2>2 DEF Tree
<1>3. Inside(h, Tree(h, o))
      BY <1>2 DEF Inside
<1> QED BY <1>1, <1>3 DEF Tree

\* So is the chain of what an object lies in.
LEMMA ChainFacts ==
    ASSUME NEW c \in Objects, location \in [Objects -> Holders \cup {Nowhere}],
           Containers \subseteq Objects
    PROVE /\ c \in Chain(c) /\ Chain(c) \subseteq Objects
          /\ Around(Chain(c), {})
          /\ \A S \in SUBSET Objects : c \in S /\ Around(S, {}) => Chain(c) \subseteq S
<1>1. \A S \in SUBSET Objects : c \in S /\ Around(S, {}) => Chain(c) \subseteq S
      BY DEF Chain, Way
<1>2. ASSUME NEW x \in Chain(c), location[x].kind = "container", location[x].of \in registered
      PROVE location[x].of \in Chain(c)
  <2>1. location[x] \in Holders \cup {Nowhere}
        BY DEF Chain, Way
  <2>2. location[x].of \in Objects
        BY <1>2, <2>1, KindTells
  <2>3. ASSUME NEW S \in SUBSET Objects, c \in S, Around(S, {}) PROVE location[x].of \in S
        BY <1>1, <1>2, <2>3 DEF Around
  <2> QED BY <2>2, <2>3 DEF Chain, Way
<1>3. Around(Chain(c), {})
      BY <1>2 DEF Around
<1> QED BY <1>1, <1>3 DEF Chain, Way

\* What an object lies in lies in nothing more than the object does.
LEMMA ChainGrows ==
    ASSUME NEW x \in Containers \cap registered, NEW y \in Objects, location[y] = In(x),
           location \in [Objects -> Holders \cup {Nowhere}], Containers \subseteq Objects
    PROVE Chain(x) \subseteq Chain(y)
<1>1. x \in Chain(y) /\ Chain(y) \in SUBSET Objects /\ Around(Chain(y), {})
      BY ChainFacts, HoldersAre DEF Around
<1> QED BY <1>1, ChainFacts

\* Every member of a chain but the first has its next below it in the chain.
LEMMA ChainLinks ==
    ASSUME NEW c \in Objects, NEW x \in Chain(c), x # c,
           location \in [Objects -> Holders \cup {Nowhere}], Containers \subseteq Objects
    PROVE x \in Containers /\ \E y \in Chain(c) : location[y] = In(x)
<1> SUFFICES ASSUME ~\E y \in Chain(c) : location[y].kind = "container" /\ location[y].of = x
             PROVE FALSE
  <2>1. \A y \in Chain(c) : location[y] \in Holders \cup {Nowhere}
        BY ChainFacts
  <2> QED BY <2>1, KindTells
<1> DEFINE S == Chain(c) \ {x}
<1>1. S \in SUBSET Objects /\ c \in S /\ Around(S, {})
      BY ChainFacts DEF Around
<1> HIDE DEF S
<1>2. Chain(c) \subseteq S
      BY <1>1, ChainFacts
<1> QED BY <1>2 DEF S

-----------------------------------------------------------------------------
(* moveObjectLocked *)

\* What the moves are argued from.
Bags == /\ location \in [Objects -> Holders \cup {Nowhere}]
        /\ holds \in [Holders -> SUBSET Objects]
        /\ loose \subseteq Objects /\ Containers \subseteq Objects
        /\ Capacity \in Nat \ {0}

\* The type invariant and the assumption give it.
LEMMA BagsHold == PlacesInv => Bags
BY PlacesAssumption DEF PlacesInv, PlacesTypeOK, Bags

\* Detaching takes the object out of the holder its Location names and leaves the
\* others where they are: the slot of a worn object has no other. One that cannot
\* come off for want of room stays.
LEMMA DetachFacts ==
    ASSUME Bags, Belongings, NEW o \in Objects
    PROVE LET h == Detached(o) old == Unequipped(o)[o] IN
          /\ h \in [Holders -> SUBSET Objects]
          /\ Unequipped(o) \in [Objects -> Holders \cup {Nowhere}]
          /\ \A x \in Objects \ {o} : Unequipped(o)[x] = location[x]
          /\ \A x \in Objects \ {o}, k \in Holders : x \in h[k] <=> x \in holds[k]
          /\ \A k \in Holders : o \in h[k] => o \in holds[k]
          /\ old.kind = "worn" => location[o] = old /\ Misplaced(o) /\ h = holds
          /\ old # location[o] => location[o].kind = "worn" /\ old = Inv(location[o].of)
          /\ ~Misplaced(o) => o \notin h[location[o]]
<1> DEFINE from == location[o]
           q == from.of
<1>0. from \in Holders \cup {Nowhere}
      BY DEF Bags
<1>1. CASE from = Nowhere
  <2>1. Detached(o) = holds /\ Unequipped(o) = location
        BY <1>1, HoldersAre DEF Detached, Unequipped
  <2> QED BY <1>1, <2>1, HoldersAre DEF Bags, Misplaced
<1>2. CASE from # Nowhere /\ from.kind # "worn"
  <2>1. Detached(o) = [holds EXCEPT ![from] = @ \ {o}] /\ Unequipped(o) = location
        BY <1>2 DEF Detached, Unequipped
  <2> QED BY <1>0, <1>2, <2>1 DEF Bags
<1>3. CASE from.kind = "worn"
  <2>1. q \in Players /\ from = Worn(q) /\ from \in Holders /\ from # Nowhere
        BY <1>0, <1>3, KindTells, HoldersAre
  <2>2. holds[from] = {o}
    <3>1. o \in holds[from] /\ \A x \in holds[from] : x = o
          BY <2>1 DEF Belongings, Slots, Worned, OneEach
    <3> QED BY <3>1
  <2>3. CASE Full(holds, q)
    <3>1. Detached(o) = holds /\ Unequipped(o) = location /\ Misplaced(o)
          BY <1>3, <2>1, <2>3 DEF Detached, Unequipped, Misplaced
    <3> QED BY <3>1 DEF Bags
  <2>4. CASE ~Full(holds, q)
    <3>1. Detached(o) = [holds EXCEPT ![from] = {}, ![Inv(q)] = (@ \cup {o}) \ {o}]
          BY <1>3, <2>1, <2>2, <2>4 DEF Detached
    <3>2. Unequipped(o) = [x \in Objects |-> IF x = o THEN Inv(q) ELSE location[x]]
      <4>1. Unequipped(o) = [x \in Objects |-> IF x \in holds[from] THEN Inv(q) ELSE location[x]]
            BY <1>3, <2>4 DEF Unequipped
      <4> QED BY <2>2, <4>1
    <3>3. Inv(q) \in Holders /\ Inv(q) # from /\ Inv(q).kind # "worn"
          BY <2>1, HoldersAre
    <3>4. \A k \in Holders : Detached(o)[k] =
              IF k = from THEN {} ELSE IF k = Inv(q) THEN holds[k] \ {o} ELSE holds[k]
      <4>1. \A S : (S \cup {o}) \ {o} = S \ {o}
            OBVIOUS
      <4> QED BY <3>1, <3>3, <4>1 DEF Bags
    <3>5. Detached(o) \in [Holders -> SUBSET Objects]
          BY <3>1, <3>3 DEF Bags
    <3> HIDE DEF from, q
    <3>6. \A x \in Objects \ {o}, k \in Holders : x \in Detached(o)[k] <=> x \in holds[k]
          BY <2>2, <3>4
    <3>7. (\A k \in Holders : o \in Detached(o)[k] => o \in holds[k]) /\ o \notin Detached(o)[from]
          BY <2>1, <3>4
    <3>8. Unequipped(o)[o] = Inv(q) /\ Unequipped(o) \in [Objects -> Holders \cup {Nowhere}]
          /\ \A x \in Objects \ {o} : Unequipped(o)[x] = location[x]
          BY <3>2, <3>3 DEF Bags
    <3> QED BY <1>3, <3>3, <3>5, <3>6, <3>7, <3>8 DEF from, q
  <2> QED BY <2>3, <2>4
<1> QED BY <1>1, <1>2, <1>3

\* A hand that loses an object, or was not full, has room without it.
LEMMA RoomWithout ==
    ASSUME NEW s, NEW o, Fits(s), Capacity \in Nat \ {0}, o \in s \/ ~(Cardinality(s) >= Capacity)
    PROVE ~(Cardinality(s \ {o}) >= Capacity)
<1> DEFINE n == Cardinality(s)
           m == Cardinality(s \ {o})
<1>1. n \in Nat /\ n <= Capacity
      BY FS_CardinalityType DEF Fits
<1>2. m = IF o \in s THEN n - 1 ELSE n
      BY FS_RemoveElement DEF Fits
<1> HIDE DEF n, m
<1>3. o \in s \/ ~(n >= Capacity)
      BY DEF n
<1>4. ~(m >= Capacity)
      BY <1>1, <1>2, <1>3
<1> QED BY <1>4 DEF m

\* Where an object was it can go back to: nothing has filled its place, and no
\* straight object lies in itself.
LEMMA BackFits ==
    ASSUME Bags, Belongings, NEW o \in Straight, ~Misplaced(o), ~Astray(location[o])
    PROVE LET old == Unequipped(o)[o] IN
          old # Nowhere /\ Attaches(Detached(o), o, old) /\ ~InItself(o, old)
<1> DEFINE h == Detached(o)
           old == Unequipped(o)[o]
<1>1. h \in [Holders -> SUBSET Objects] /\ old \in Holders \cup {Nowhere} /\ old.kind # "worn"
      /\ (old # location[o] => location[o].kind = "worn" /\ old = Inv(location[o].of))
      /\ \A x \in Objects \ {o}, k \in Holders : x \in h[k] <=> x \in holds[k]
      BY DetachFacts DEF Straight
<1>1a. \A k \in Holders : o \in h[k] => o \in holds[k]
       BY DetachFacts DEF Straight
<1>2. o \in Objects /\ location[o] \in Holders /\ o \in holds[location[o]] /\ o \notin h[location[o]]
      BY DetachFacts DEF Straight, Misplaced, Bags
<1>3. old # Nowhere
      BY <1>1, <1>2, HoldersAre
<1>4. ASSUME NEW k \in Holders PROVE o \notin h[k]
      BY <1>1a, <1>2 DEF Belongings, Agree, Sited
<1> HIDE DEF h, old
<1>5. CASE old.kind = "inventory"
  <2> DEFINE p == old.of
  <2>1. p \in Players /\ old = Inv(p) /\ old \in Holders
        BY <1>1, <1>5, KindTells
  <2>2. Fits(holds[old])
        BY <2>1 DEF Belongings, Fitting
  <2>3. h[old] = holds[old] \ {o}
        BY <1>1, <1>1a, <1>4, <2>1 DEF Bags
  <2>4. o \in holds[old] \/ ~(Cardinality(holds[old]) >= Capacity)
    <3>1. CASE location[o] # old
      <4>1. location[o].kind = "worn" /\ old = Inv(location[o].of)
            BY <1>1, <3>1
      <4> QED BY <4>1 DEF Misplaced, Full
    <3> QED BY <1>2, <3>1
  <2>5. ~Full(h, p)
        BY <2>1, <2>2, <2>3, <2>4, RoomWithout DEF Full, Bags
  <2> QED BY <1>3, <1>5, <2>5 DEF Attaches, InItself, h, old
<1>6. CASE old.kind = "container"
  <2> DEFINE c == old.of
  <2>1. c \in Containers /\ old = In(c) /\ location[o] = In(c) /\ c \in Objects
        BY <1>1, <1>6, KindTells, HoldersAre DEF Bags
  <2>2. c \in registered
        BY <1>2, <2>1 DEF Belongings, Standing
  <2>3. o \notin Chain(c)
    <3> SUFFICES ASSUME o \in Chain(c) PROVE FALSE
        OBVIOUS
    <3>1. Chain(c) \cap loose = {} /\ Chain(c) \in SUBSET Straight /\ c \in Chain(c)
          BY <2>1, ChainFacts, HoldersAre DEF Astray, Straight, Bags
    <3>2. ASSUME NEW x \in Chain(c)
          PROVE x \in Containers /\ \E y \in Chain(c) : y \in holds[In(x)]
      <4>1. CASE x = c
            BY <1>2, <2>1, <4>1
      <4>2. CASE x # c
        <5>1. x \in Containers /\ \E y \in Chain(c) : location[y] = In(x)
              BY <2>1, <4>2, ChainLinks DEF Bags
        <5>2. PICK y \in Chain(c) : location[y] = In(x)
              BY <5>1
        <5>3. y \in Straight /\ location[y] # Nowhere
              BY <3>1, <5>2, HoldersAre
        <5>4. ~Slotting(y)
              BY <5>2, <5>3, HoldersAre DEF Slotting, Belongings, Agree, Held
        <5> QED BY <5>1, <5>2, <5>3, <5>4 DEF Belongings, Agree, Found
      <4> QED BY <4>1, <4>2
    <3> QED BY <3>1, <3>2 DEF Belongings, Acyclic, Ring
  <2>4. o \notin Tree(h, c)
    <3> DEFINE S == Objects \ {o}
    <3>1. o # c
      <4>1. o = c => Ring({o})
            BY <1>2, <2>1 DEF Ring
      <4> QED BY <4>1 DEF Belongings, Acyclic
    <3>2. S \in SUBSET Objects /\ c \in S /\ Inside(h, S)
          BY <1>1, <1>4, <2>1, <3>1, HoldersAre DEF Inside
    <3> HIDE DEF S
    <3>3. Tree(h, c) \subseteq S
          BY <1>1, <2>1, <3>2, TreeFacts
    <3> QED BY <3>3 DEF S
  <2> QED BY <1>3, <1>6, <2>2, <2>3, <2>4 DEF Attaches, Meets, InItself, h, old
<1>7. CASE old.kind \notin {"inventory", "container"}
      BY <1>3, <1>7 DEF Attaches, InItself, h, old
<1> QED BY <1>5, <1>6, <1>7 DEF h, old

\* A move concerns one object: it ends where its Location says, if anywhere, in a
\* holder that had room and does not lie in it.
LEMMA MoveFacts ==
    ASSUME Bags, Belongings, NEW o \in Objects, NEW d \in Holders, d.kind # "worn", Move(o, d)
    PROVE /\ location' \in [Objects -> Holders \cup {Nowhere}]
          /\ holds' \in [Holders -> SUBSET Objects]
          /\ loose' \in {loose, loose \cup {o}}
          /\ \A x \in Objects \ {o} : location'[x] = location[x]
          /\ \A x \in Objects \ {o}, k \in Holders : x \in holds'[k] <=> x \in holds[k]
          /\ \A k \in Holders : o \in holds'[k] => o \in holds[k] \/ k = location'[o]
          /\ location'[o] # Nowhere => o \in holds'[location'[o]]
          /\ location'[o].kind = "worn" => location'[o] = location[o]
          /\ o \notin loose' => /\ ~Misplaced(o) /\ location'[o] # Nowhere
                                /\ \A k \in Holders : o \in holds'[k] => k = location'[o]
          /\ \A c \in Containers : o \in holds'[In(c)] =>
                \/ o \in holds[In(c)]
                \/ c \in registered /\ (o \notin loose' => o \notin Chain(c))
          /\ \A p \in Players : o \in holds'[Inv(p)] =>
                o \in holds[Inv(p)] \/ ~(Cardinality(holds[Inv(p)]) >= Capacity)
<1> DEFINE h == Detached(o)
           u == Unequipped(o)
           old == Unequipped(o)[o]
<1>1. /\ h \in [Holders -> SUBSET Objects] /\ u \in [Objects -> Holders \cup {Nowhere}]
      /\ \A x \in Objects \ {o} : u[x] = location[x]
      /\ \A x \in Objects \ {o}, k \in Holders : x \in h[k] <=> x \in holds[k]
      /\ \A k \in Holders : o \in h[k] => o \in holds[k]
      BY DetachFacts
<1>2. /\ old.kind = "worn" => old = location[o] /\ Misplaced(o)
      /\ ~Misplaced(o) => o \notin h[location[o]]
      BY DetachFacts
<1>3. loose' = IF Misplaced(o) \/ Astray(location[o]) \/ (Attaches(h, o, d) /\ InItself(o, d))
               THEN loose \cup {o} ELSE loose
      BY DEF Move
<1>4. ASSUME o \notin loose'
      PROVE o \in Straight /\ ~Misplaced(o) /\ old # Nowhere /\ Attaches(h, o, old) /\ ~InItself(o, old)
            /\ \A k \in Holders : o \notin h[k]
  <2>1. o \in Straight /\ ~Misplaced(o) /\ ~Astray(location[o])
        BY <1>3, <1>4 DEF Straight
  <2>2. \A k \in Holders : o \notin h[k]
        BY <1>1, <1>2, <2>1 DEF Belongings, Agree, Sited
  <2> QED BY <2>1, <2>2, BackFits
<1>5. \E t \in Holders \cup {Nowhere} :
          /\ location' = [u EXCEPT ![o] = t] /\ holds' = Placed(h, o, t)
          /\ t = Nowhere \/ Attaches(h, o, t)
          /\ t.kind = "worn" => t = location[o]
          /\ o \notin loose' => t # Nowhere /\ ~InItself(o, t)
  <2>1. CASE Attaches(h, o, d)
    <3>1. holds' = Placed(h, o, d) /\ location' = [u EXCEPT ![o] = d]
          BY <2>1 DEF Move
    <3> QED BY <1>3, <2>1, <3>1, HoldersAre
  <2>2. CASE ~Attaches(h, o, d) /\ Attaches(h, o, old)
    <3>1. holds' = Placed(h, o, old) /\ location' = u
          BY <2>2 DEF Move, Back
    <3>2. u = [u EXCEPT ![o] = old] /\ old \in Holders \cup {Nowhere}
          BY <1>1
    <3> HIDE DEF h, u, old
    <3> QED BY <1>2, <1>4, <2>2, <3>1, <3>2
  <2>3. CASE ~Attaches(h, o, d) /\ ~Attaches(h, o, old)
    <3>1. holds' = h /\ location' = [u EXCEPT ![o] = Nowhere]
          BY <2>3 DEF Move
    <3>2. holds' = Placed(h, o, Nowhere)
          BY <3>1 DEF Placed
    <3> QED BY <1>4, <2>3, <3>1, <3>2, HoldersAre
  <2> QED BY <2>1, <2>2, <2>3
<1>6. PICK t \in Holders \cup {Nowhere} :
          /\ location' = [u EXCEPT ![o] = t] /\ holds' = Placed(h, o, t)
          /\ t = Nowhere \/ Attaches(h, o, t)
          /\ t.kind = "worn" => t = location[o]
          /\ o \notin loose' => t # Nowhere /\ ~InItself(o, t)
      BY <1>5
<1>7. Attaches(h, o, t) => /\ \A p \in Players : t = Inv(p) => ~(Cardinality(h[Inv(p)]) >= Capacity)
                           /\ \A c \in Containers : t = In(c) => c \in registered
      BY HoldersAre DEF Attaches, Full
<1> HIDE DEF h, u, old
<1>8. \A k \in Holders : holds'[k] = IF k = t THEN h[k] \cup {o} ELSE h[k]
  <2>1. CASE t = Nowhere
        BY <1>6, <2>1, HoldersAre DEF Placed
  <2>2. CASE t # Nowhere
    <3>1. holds' = [h EXCEPT ![t] = @ \cup {o}] /\ t \in Holders
          BY <1>6, <2>2 DEF Placed
    <3> QED BY <1>1, <3>1
  <2> QED BY <2>1, <2>2
<1>9. location'[o] = t /\ location' \in [Objects -> Holders \cup {Nowhere}]
      /\ \A x \in Objects \ {o} : location'[x] = location[x]
      BY <1>1, <1>6
<1>10. holds' \in [Holders -> SUBSET Objects]
      BY <1>1, <1>6 DEF Placed
<1>11. \A x \in Objects \ {o}, k \in Holders : x \in holds'[k] <=> x \in holds[k]
      BY <1>1, <1>8
<1>12. \A k \in Holders : o \in holds'[k] => o \in holds[k] \/ k = t
      BY <1>1, <1>8
<1>13. o \notin loose' => ~Misplaced(o) /\ t # Nowhere /\ \A k \in Holders : o \in holds'[k] => k = t
      BY <1>4, <1>6, <1>8
<1>14. ASSUME NEW c \in Containers, o \in holds'[In(c)], o \notin holds[In(c)]
       PROVE c \in registered /\ (o \notin loose' => o \notin Chain(c))
       BY <1>6, <1>7, <1>12, <1>14, HoldersAre DEF InItself
<1>15. ASSUME NEW p \in Players, o \in holds'[Inv(p)], o \notin holds[Inv(p)]
       PROVE ~(Cardinality(holds[Inv(p)]) >= Capacity)
  <2>1. Inv(p) \in Holders /\ t = Inv(p) /\ t # Nowhere
        BY <1>12, <1>15, HoldersAre
  <2>2. h[Inv(p)] = holds[Inv(p)]
        BY <1>1, <1>15, <2>1 DEF Bags
  <2> QED BY <1>6, <1>7, <2>1, <2>2
<1> QED BY <1>3, <1>6, <1>8, <1>9, <1>10, <1>11, <1>12, <1>13, <1>14, <1>15

\* Players keep their hands where they were, as far as wearing goes.
HandsStay == \A q \in Players :
    cmd'[q] = cmd[q] \/ {cmd[q].at, cmd'[q].at} \cap {"wear", "slot"} = {}

\* A hand that takes one more has room for it.
LEMMA FitsOneMore ==
    ASSUME NEW s, NEW t, NEW o, Fits(s), Capacity \in Nat \ {0},
           t \subseteq s \cup {o}, o \in t => o \in s \/ ~(Cardinality(s) >= Capacity)
    PROVE Fits(t)
<1>1. CASE t \subseteq s
      BY <1>1, FS_Subset, FS_CardinalityType DEF Fits
<1>2. CASE ~(t \subseteq s)
  <2> DEFINE n == Cardinality(s)
             m == Cardinality(s \cup {o})
             l == Cardinality(t)
  <2>1. o \notin s /\ ~(n >= Capacity)
        BY <1>2
  <2>2. IsFiniteSet(s \cup {o}) /\ n \in Nat /\ m = n + 1
        BY <2>1, FS_AddElement, FS_CardinalityType DEF Fits
  <2>3. IsFiniteSet(t) /\ l \in Nat /\ l <= m
        BY <2>2, FS_Subset, FS_CardinalityType
  <2> HIDE DEF n, m, l
  <2>4. l <= Capacity
        BY <2>1, <2>2, <2>3
  <2> QED BY <2>3, <2>4 DEF Fits, l
<1> QED BY <1>1, <1>2

\* A move keeps what is said of belongings.
LEMMA MoveKeeps ==
    ASSUME Bags, Belongings, NEW o \in Objects, NEW d \in Holders, d.kind # "worn", Move(o, d),
           registered' = registered, HandsStay
    PROVE Belongings'
<1>1. /\ location' \in [Objects -> Holders \cup {Nowhere}]
      /\ holds' \in [Holders -> SUBSET Objects]
      /\ Straight' \subseteq Straight /\ Straight \ {o} \subseteq Straight'
      /\ \A x \in Objects \ {o} : location'[x] = location[x]
      /\ \A x \in Objects \ {o}, k \in Holders : x \in holds'[k] <=> x \in holds[k]
      /\ location'[o] # Nowhere => o \in holds'[location'[o]]
      BY MoveFacts DEF Straight
<1>2. o \in Straight' => /\ ~Misplaced(o) /\ location'[o] # Nowhere
                         /\ \A k \in Holders : o \in holds'[k] => k = location'[o]
      BY MoveFacts DEF Straight
<1>3. Straight' \subseteq Objects /\ Straight \subseteq Objects
      BY DEF Straight
<1>4. \A p \in Players : cmd'[p].at = "slot" <=> cmd[p].at = "slot"
      BY DEF HandsStay
<1>5. \A p \in Players : cmd[p].at = "slot" => cmd'[p] = cmd[p]
      BY DEF HandsStay
<1>6. Sited'
      BY <1>1, <1>2, <1>3 DEF Belongings, Agree, Sited
<1>7. Found'
  <2>1. \A x \in Objects : Slotting(x) => Slotting(x)'
        BY <1>4, <1>5 DEF Slotting
  <2> QED BY <1>1, <1>3, <2>1 DEF Belongings, Agree, Found
<1>8. Listed'
  <2>1. o \in Straight' => location[o] # Nowhere
        BY <1>2 DEF Misplaced
  <2> QED BY <1>1, <1>2, <1>3, <2>1 DEF Belongings, Agree, Listed
<1>9. \A p \in Players : Held(p)'
  <2> SUFFICES ASSUME NEW p \in Players, cmd[p].at = "slot", cmd[p].obj \in Straight'
               PROVE location'[cmd[p].obj] = Inv(p) /\ \A h \in Holders : cmd[p].obj \notin holds'[h]
      BY <1>4, <1>5 DEF Held
  <2>1. location[cmd[p].obj] = Inv(p) /\ \A h \in Holders : cmd[p].obj \notin holds[h]
        BY <1>1 DEF Belongings, Agree, Held
  <2>2. cmd[p].obj # o
        BY <1>2, <2>1, HoldersAre DEF Misplaced
  <2> QED BY <1>1, <1>3, <2>1, <2>2
<1>10. Slots'
  <2>1. \A k \in Holders : k.kind = "worn" => (o \in holds'[k] => o \in holds[k])
    <3>1. \A k \in Holders : k.kind = "worn" /\ k = location'[o] => o \in holds[k]
          BY MoveFacts, KindTells DEF Belongings, Slots, Worned
    <3> QED BY <3>1, MoveFacts
  <2>2. Worned'
    <3>1. ASSUME NEW q \in Players, NEW x \in Objects, location'[x] = Worn(q)
          PROVE x \in holds'[Worn(q)]
          BY <1>1, <3>1, HoldersAre DEF Belongings, Slots, Worned
    <3> QED BY <3>1 DEF Worned
  <2>3. \A q \in Players : holds'[Worn(q)] \subseteq holds[Worn(q)]
        BY <1>1, <2>1, HoldersAre
  <2>4. OneEach'
        BY <2>3 DEF Belongings, Slots, OneEach
  <2>5. Bare'
        BY <2>3 DEF Belongings, Slots, Bare, HandsStay
  <2> QED BY <2>2, <2>4, <2>5 DEF Slots
<1>11. Fitting'
  <2> SUFFICES ASSUME NEW p \in Players PROVE Fits(holds'[Inv(p)])
      BY DEF Fitting, Fits
  <2>1. holds'[Inv(p)] \subseteq holds[Inv(p)] \cup {o} /\ Fits(holds[Inv(p)])
        BY <1>1, HoldersAre DEF Belongings, Fitting
  <2>2. o \in holds'[Inv(p)] => o \in holds[Inv(p)] \/ ~(Cardinality(holds[Inv(p)]) >= Capacity)
        BY MoveFacts
  <2> QED BY <2>1, <2>2, FitsOneMore DEF Bags
<1>12. Standing'
  <2>1. ASSUME NEW c \in Containers, NEW x \in holds'[In(c)] PROVE c \in registered
    <3>1. x \in Objects /\ In(c) \in Holders
          BY <1>1, <2>1, HoldersAre
    <3>2. x # o => x \in holds[In(c)]
          BY <1>1, <3>1
    <3> QED BY <3>2, MoveFacts DEF Belongings, Standing
  <2> QED BY <2>1 DEF Standing
<1>13. Acyclic'
  <2> SUFFICES ASSUME NEW S \in SUBSET Straight', S # {},
                      \A x \in S : x \in Containers /\ \E y \in S : y \in holds'[In(x)]
               PROVE FALSE
      BY DEF Acyclic, Ring
  <2> DEFINE T == {x \in S : o \in Chain(x)}
  <2>1. S \subseteq Straight /\ S \subseteq Objects
        BY <1>1, <1>3
  <2>2. CASE o \notin S
    <3>1. \A x \in S : \E y \in S : y \in holds[In(x)]
          BY <1>1, <2>1, <2>2, HoldersAre
    <3> QED BY <2>1, <3>1 DEF Belongings, Acyclic, Ring
  <2>3. CASE o \in S
    <3>1. o \in T
          BY <2>1, <2>3, ChainFacts DEF Bags
    <3>2. ASSUME NEW x \in S, o \in Chain(x) PROVE \E y \in T : y \in holds[In(x)]
      <4>1. PICK y \in S : y \in holds'[In(x)]
            BY <3>2
      <4>2. x \in Containers /\ In(x) \in Holders
            BY HoldersAre
      <4>3. CASE y = o
            BY <2>3, <3>1, <3>2, <4>1, <4>2, <4>3, MoveFacts DEF Straight
      <4>4. CASE y # o
        <5>1. y \in holds[In(x)]
              BY <1>1, <2>1, <4>1, <4>2, <4>4
        <5>2. location[y] = In(x)
              BY <2>1, <4>2, <5>1 DEF Belongings, Agree, Sited
        <5>3. x \in registered
              BY <4>2, <5>1 DEF Belongings, Standing
        <5>4. Chain(x) \subseteq Chain(y)
              BY <2>1, <4>2, <5>2, <5>3, ChainGrows DEF Bags
        <5> QED BY <3>2, <5>1, <5>4
      <4> QED BY <4>3, <4>4
    <3>3. T \in SUBSET Straight /\ Ring(T)
          BY <2>1, <3>1, <3>2 DEF Ring
    <3> QED BY <3>3 DEF Belongings, Acyclic
  <2> QED BY <2>2, <2>3
<1> QED BY <1>6, <1>7, <1>8, <1>9, <1>10, <1>11, <1>12, <1>13 DEF Belongings, Agree

-----------------------------------------------------------------------------
(* extractObjectLocked *)

\* The object and all it contains are nowhere and out of the registry; the rest
\* stays where it is. What was where its Location said is in no list any more.
LEMMA ExtractFacts ==
    ASSUME Bags, Belongings, NEW o \in Objects, ExtractObject(o)
    PROVE \E out \in SUBSET Objects :
          /\ o \in out /\ registered' = registered \ out
          /\ location' = [x \in Objects |-> IF x \in out THEN Nowhere ELSE location[x]]
          /\ holds' \in [Holders -> SUBSET Objects]
          /\ \A k \in Holders : holds'[k] \subseteq holds[k]
          /\ \A x \in Objects \ out, k \in Holders : x \in holds'[k] <=> x \in holds[k]
          /\ \A c \in out \cap Containers : holds'[In(c)] = {}
          /\ loose \subseteq loose' /\ loose' \subseteq Objects
          /\ \A x \in out : x \notin loose' =>
                /\ location[x] # Nowhere => ~Misplaced(x)
                /\ \A k \in Holders : x \notin holds'[k]
<1> DEFINE out == Tree(holds, o)
<1>1. o \in out /\ out \in SUBSET Objects /\ Inside(holds, out)
      BY TreeFacts DEF Bags
<1>2. /\ holds' = [h \in Holders |->
            IF h \in {In(c) : c \in out} THEN {}
            ELSE {x \in holds[h] : x \in out /\ location[x] = h => Stuck(x)}]
      /\ location' = [x \in Objects |-> IF x \in out THEN Nowhere ELSE location[x]]
      /\ registered' = registered \ out
      /\ loose' = loose \cup {x \in out : location[x] # Nowhere /\ Misplaced(x)}
      BY DEF ExtractObject
<1> HIDE DEF out
<1>3. \A k \in Holders : holds'[k] \subseteq holds[k]
      BY <1>2
<1>4. holds' \in [Holders -> SUBSET Objects]
      BY <1>2 DEF Bags
<1>5. ASSUME NEW x \in Objects \ out, NEW k \in Holders, x \in holds[k] PROVE x \in holds'[k]
  <2>1. CASE k \in {In(c) : c \in out}
    <3>1. PICK c \in out : k = In(c)
          BY <2>1
    <3>2. c \in Containers
          BY <3>1, HoldersAre, KindTells
    <3> QED BY <1>1, <1>5, <3>1, <3>2 DEF Inside
  <2>2. CASE k \notin {In(c) : c \in out}
        BY <1>2, <1>5, <2>2
  <2> QED BY <2>1, <2>2
<1>6. \A c \in out \cap Containers : holds'[In(c)] = {}
      BY <1>2, HoldersAre
<1>7. ASSUME NEW x \in out, x \notin loose'
      PROVE (location[x] # Nowhere => ~Misplaced(x)) /\ \A k \in Holders : x \notin holds'[k]
  <2>1. location[x] # Nowhere => ~Misplaced(x)
        BY <1>2, <1>7
  <2>2. x \in Straight
        BY <1>1, <1>2, <1>7 DEF Straight
  <2>3. ASSUME NEW k \in Holders, x \in holds'[k] PROVE FALSE
    <3>1. location[x] = k
          BY <1>3, <2>2, <2>3 DEF Belongings, Agree, Sited
    <3>2. ~Stuck(x)
          BY <2>1, <3>1, HoldersAre DEF Misplaced, Stuck
    <3> QED BY <1>2, <1>7, <2>3, <3>1, <3>2
  <2> QED BY <2>1, <2>3
<1>8. \A x \in Objects \ out, k \in Holders : x \in holds'[k] <=> x \in holds[k]
      BY <1>3, <1>5
<1>9. loose \subseteq loose' /\ loose' \subseteq Objects
      BY <1>1, <1>2 DEF Bags
<1> QED BY <1>1, <1>2, <1>3, <1>4, <1>6, <1>7, <1>8, <1>9

\* Where straight objects gain no place in a container there is no new ring.
LEMMA NoNewRing ==
    ASSUME Acyclic, Straight' \subseteq Straight,
           \A c \in Containers, x \in Straight' : x \in holds'[In(c)] => x \in holds[In(c)]
    PROVE Acyclic'
<1> SUFFICES ASSUME NEW S \in SUBSET Straight', S # {},
                    \A x \in S : x \in Containers /\ \E y \in S : y \in holds'[In(x)]
             PROVE FALSE
    BY DEF Acyclic, Ring
<1>1. \A x \in S : \E y \in S : y \in holds[In(x)]
      OBVIOUS
<1> QED BY <1>1 DEF Acyclic, Ring

\* An extraction keeps what is said of belongings.
LEMMA ExtractKeeps ==
    ASSUME Bags, Belongings, NEW o \in Objects, ExtractObject(o), HandsStay
    PROVE Belongings'
<1>1. PICK out \in SUBSET Objects :
          /\ o \in out /\ registered' = registered \ out
          /\ location' = [x \in Objects |-> IF x \in out THEN Nowhere ELSE location[x]]
          /\ holds' \in [Holders -> SUBSET Objects]
          /\ \A k \in Holders : holds'[k] \subseteq holds[k]
          /\ \A x \in Objects \ out, k \in Holders : x \in holds'[k] <=> x \in holds[k]
          /\ \A c \in out \cap Containers : holds'[In(c)] = {}
          /\ loose \subseteq loose' /\ loose' \subseteq Objects
          /\ \A x \in out : x \notin loose' =>
                /\ location[x] # Nowhere => ~Misplaced(x)
                /\ \A k \in Holders : x \notin holds'[k]
      BY ExtractFacts
<1>2. Straight' \subseteq Straight /\ Straight' \subseteq Objects /\ \A x \in Straight' : x \notin loose'
      BY <1>1 DEF Straight
<1>3. \A p \in Players : cmd'[p].at = "slot" <=> cmd[p].at = "slot"
      BY DEF HandsStay
<1>4. \A p \in Players : cmd[p].at = "slot" => cmd'[p] = cmd[p]
      BY DEF HandsStay
<1>5. \A x \in Objects : x \in out => location'[x] = Nowhere
      BY <1>1
<1>6. \A x \in Objects : x \notin out => location'[x] = location[x]
      BY <1>1
<1>7. Sited'
      BY <1>1, <1>2, <1>6 DEF Belongings, Agree, Sited
<1>8. Found'
  <2>1. \A x \in Objects : Slotting(x) => Slotting(x)'
        BY <1>3, <1>4 DEF Slotting
  <2>2. ASSUME NEW x \in Straight', location'[x] # Nowhere
        PROVE x \in holds'[location'[x]] \/ Slotting(x)'
    <3>1. x \notin out /\ location'[x] = location[x] /\ location[x] \in Holders
          BY <1>2, <1>5, <1>6, <2>2 DEF Bags
    <3> QED BY <1>1, <1>2, <2>1, <2>2, <3>1 DEF Belongings, Agree, Found
  <2> QED BY <2>2 DEF Found
<1>9. Listed'
      BY <1>1, <1>2, <1>5, <1>6 DEF Belongings, Agree, Listed
<1>10. \A p \in Players : Held(p)'
  <2> SUFFICES ASSUME NEW p \in Players, cmd[p].at = "slot", cmd[p].obj \in Straight'
               PROVE location'[cmd[p].obj] = Inv(p) /\ \A h \in Holders : cmd[p].obj \notin holds'[h]
      BY <1>3, <1>4 DEF Held
  <2>1. location[cmd[p].obj] = Inv(p) /\ \A h \in Holders : cmd[p].obj \notin holds[h]
        BY <1>2 DEF Belongings, Agree, Held
  <2>2. cmd[p].obj \notin out
        BY <1>1, <1>2, <2>1, HoldersAre DEF Misplaced
  <2> QED BY <1>1, <1>2, <1>6, <2>1, <2>2
<1>11. Slots'
  <2>1. ASSUME NEW q \in Players, NEW x \in Objects, location'[x] = Worn(q)
        PROVE x \in holds'[Worn(q)]
        BY <1>1, <1>5, <1>6, <2>1, HoldersAre DEF Belongings, Slots, Worned
  <2>2. \A q \in Players : holds'[Worn(q)] \subseteq holds[Worn(q)]
        BY <1>1, HoldersAre
  <2> QED BY <2>1, <2>2 DEF Belongings, Slots, Worned, OneEach, Bare, HandsStay
<1>12. Fitting'
  <2> SUFFICES ASSUME NEW p \in Players PROVE Fits(holds'[Inv(p)])
      BY DEF Fitting, Fits
  <2>1. holds'[Inv(p)] \subseteq holds[Inv(p)] /\ Fits(holds[Inv(p)])
        BY <1>1, HoldersAre DEF Belongings, Fitting
  <2> QED BY <2>1, FitsOneMore DEF Bags
<1>13. Standing'
  <2>1. ASSUME NEW c \in Containers, holds'[In(c)] # {} PROVE c \in registered'
    <3>1. c \notin out /\ holds[In(c)] # {}
          BY <1>1, <2>1, HoldersAre
    <3> QED BY <1>1, <3>1 DEF Belongings, Standing
  <2> QED BY <2>1 DEF Standing
<1>14. Acyclic'
  <2>1. \A c \in Containers, x \in Straight' : x \in holds'[In(c)] => x \in holds[In(c)]
        BY <1>1, HoldersAre
  <2> QED BY <1>2, <2>1, NoNewRing DEF Belongings
<1> QED BY <1>7, <1>8, <1>9, <1>10, <1>11, <1>12, <1>13, <1>14 DEF Belongings, Agree

-----------------------------------------------------------------------------
(* Commands *)

\* The steps of a command have other names than its absence.
LEMMA NoCommandIdle == NoCommand.at = "idle" /\ "idle" \notin Stages
BY DEF NoCommand, Stages

\* A player's new command is one player's.
LEMMA CommandStored ==
    ASSUME PlacesInv, NEW p \in Players, NEW c, Command(p, c), cmd' = [cmd EXCEPT ![p] = c]
    PROVE /\ cmd' \in [Players -> [at : Stages, obj : Objects, dst : Holders] \cup {NoCommand}]
          /\ Commands' /\ cmd'[p] = c /\ \A q \in Players \ {p} : cmd'[q] = cmd[q]
<1>1. c \in [at : Stages, obj : Objects, dst : Holders] \cup {NoCommand}
      BY DEF Command
<1>2. cmd \in [Players -> [at : Stages, obj : Objects, dst : Holders] \cup {NoCommand}]
      BY DEF PlacesInv, PlacesTypeOK
<1>3. cmd'[p] = c /\ \A q \in Players \ {p} : cmd'[q] = cmd[q]
      BY <1>2
<1>4. \A q \in Players : Command(q, cmd'[q])
      BY <1>3 DEF PlacesInv, Commands
<1> QED BY <1>1, <1>2, <1>3, <1>4 DEF Commands, Command

\* A command under way is well formed.
LEMMA CommandOf ==
    ASSUME PlacesInv, NEW p \in Players, cmd[p].at # "idle"
    PROVE cmd[p].at \in Stages /\ cmd[p].obj \in Objects /\ cmd[p].dst \in Holders
          /\ Command(p, cmd[p]) /\ cmd[p] # NoCommand
BY NoCommandIdle DEF PlacesInv, Commands, Command

\* Only a command changes, and not one at the slot.
LEMMA CommandKeeps ==
    ASSUME PlacesInv, NEW p \in Players, NEW c, Command(p, c), cmd' = [cmd EXCEPT ![p] = c],
           cmd[p].at # "slot", c.at # "slot", c.at = "wear" => holds[Worn(p)] = {},
           UNCHANGED <<location, holds, registered, spill, credited, loose>>
    PROVE PlacesInv'
<1>1. /\ cmd' \in [Players -> [at : Stages, obj : Objects, dst : Holders] \cup {NoCommand}]
      /\ Commands' /\ cmd'[p] = c /\ \A q \in Players \ {p} : cmd'[q] = cmd[q]
      BY CommandStored
<1>2. PlacesTypeOK' /\ Spills' /\ PaidGone'
      BY <1>1 DEF PlacesInv, PlacesTypeOK, Spills, PaidGone
<1>3. Straight' = Straight
      BY DEF Straight
<1>4. \A q \in Players : cmd'[q].at = "slot" <=> cmd[q].at = "slot"
      BY <1>1
<1>5. \A q \in Players : cmd[q].at = "slot" => cmd'[q] = cmd[q]
      BY <1>1
<1>6. \A o : Slotting(o) => Slotting(o)'
      BY <1>4, <1>5 DEF Slotting
<1>7. Sited' /\ Found' /\ Listed'
      BY <1>3, <1>6 DEF PlacesInv, Belongings, Agree, Sited, Found, Listed
<1>8. \A q \in Players : Held(q)'
      BY <1>3, <1>4, <1>5 DEF PlacesInv, Belongings, Agree, Held
<1>9. Slots'
  <2>1. Worned' /\ OneEach'
        BY DEF PlacesInv, Belongings, Slots, Worned, OneEach
  <2>2. Bare'
        BY <1>1 DEF PlacesInv, Belongings, Slots, Bare
  <2> QED BY <2>1, <2>2 DEF Slots
<1>10. Fitting' /\ Standing' /\ Acyclic'
       BY <1>3 DEF PlacesInv, Belongings, Fitting, Fits, Standing, Acyclic, Ring
<1> QED BY <1>1, <1>2, <1>7, <1>8, <1>9, <1>10 DEF PlacesInv, Belongings, Agree

\* A step from one stage to another of those before the wearing leaves hands alone.
LEMMA HandsOfOthers ==
    ASSUME PlacesInv, NEW p \in Players, NEW c, Command(p, c), cmd' = [cmd EXCEPT ![p] = c],
           cmd[p].at \notin {"wear", "slot"}, c.at \notin {"wear", "slot"}
    PROVE HandsStay
BY CommandStored DEF HandsStay

\* Looking an object up starts a command for it.
LEMMA LookUpKeeps ==
    ASSUME PlacesInv, NEW p \in Players, LookUp(p)
    PROVE PlacesInv'
<1>1. Bags /\ holds \in [Holders -> SUBSET Objects]
      BY BagsHold DEF Bags
<1>2. cmd[p].at = "idle" /\ UNCHANGED <<location, holds, registered, spill, credited, loose>>
      BY NoCommandIdle DEF LookUp
<1>3. ASSUME NEW step \in Stages, NEW o \in Objects, NEW d \in Holders,
             Start(p, step, o, d), step \notin {"slot", "pay"},
             step = "get" => d = Inv(p), step = "getfrom" => d.kind = "container",
             step = "give" => d.kind = "inventory", step = "move" => d.kind # "worn",
             step = "wear" => d = Worn(p) /\ holds[Worn(p)] = {}
      PROVE PlacesInv'
  <2> DEFINE c == [at |-> step, obj |-> o, dst |-> d]
  <2>1. Command(p, c) /\ c.at = step
        BY <1>3 DEF Command
  <2>2. cmd' = [cmd EXCEPT ![p] = c]
        BY <1>3 DEF Start
  <2> HIDE DEF c
  <2> QED BY <1>2, <1>3, <2>1, <2>2, CommandKeeps
<1>4. \A k \in Holders : holds[k] \subseteq Objects
      BY <1>1
<1>5. Inv(p) \in Holders /\ Worn(p) \in Holders /\ \A c \in Containers : In(c) \in Holders
      BY HoldersAre
<1>6. CASE \E o \in holds[Room] : Start(p, "get", o, Inv(p))
      BY <1>3, <1>4, <1>5, <1>6, HoldersAre DEF Stages
<1>7. CASE \E c \in Containers \cap (holds[Room] \cup holds[Inv(p)]) :
               \E o \in holds[In(c)] : Start(p, "getfrom", o, In(c))
      BY <1>3, <1>4, <1>5, <1>7, HoldersAre DEF Stages
<1>8. ASSUME NEW o \in holds[Inv(p)],
             \/ Start(p, "move", o, Room)
             \/ \E q \in Players \ {p} : Start(p, "give", o, Inv(q))
             \/ \E c \in (Containers \cap (holds[Room] \cup holds[Inv(p)])) \ {o} :
                   Start(p, "move", o, In(c))
             \/ holds[Worn(p)] = {} /\ Start(p, "wear", o, Worn(p))
      PROVE PlacesInv'
  <2>1. o \in Objects
        BY <1>4, <1>5
  <2>2. CASE Start(p, "move", o, Room)
        BY <1>3, <2>1, <2>2, HoldersAre DEF Stages
  <2>3. ASSUME NEW q \in Players, Start(p, "give", o, Inv(q)) PROVE PlacesInv'
        BY <1>3, <2>1, <2>3, HoldersAre DEF Stages
  <2>4. ASSUME NEW c \in Containers, Start(p, "move", o, In(c)) PROVE PlacesInv'
        BY <1>3, <2>1, <2>4, HoldersAre DEF Stages
  <2>5. CASE holds[Worn(p)] = {} /\ Start(p, "wear", o, Worn(p))
        BY <1>3, <1>5, <2>1, <2>5 DEF Stages
  <2> QED BY <1>8, <2>2, <2>3, <2>4, <2>5
<1> QED BY <1>6, <1>7, <1>8 DEF LookUp

\* What a command goes on with or ends as.
LEMMA NextStages ==
    ASSUME NEW p \in Players, NEW o \in Objects, NEW d \in Holders
    PROVE /\ Command(p, NoCommand)
          /\ d.kind # "worn" => Command(p, [at |-> "move", obj |-> o, dst |-> d])
          /\ d = Inv(p) /\ o \in Piles => Command(p, [at |-> "pay", obj |-> o, dst |-> d])
          /\ d = Worn(p) => Command(p, [at |-> "slot", obj |-> o, dst |-> d])
BY DEF Command, Stages

\* The looks before a get and before a give.
LEMMA ChecksKeep ==
    ASSUME PlacesInv, NEW p \in Players, CheckGet(p) \/ CheckGive(p)
    PROVE PlacesInv'
<1> DEFINE c == [at |-> "move", obj |-> cmd[p].obj, dst |-> cmd[p].dst]
<1>1. cmd[p].at \in {"get", "give"}
      /\ UNCHANGED <<location, holds, registered, spill, credited, loose>>
      /\ (cmd' = [cmd EXCEPT ![p] = NoCommand] \/ cmd' = [cmd EXCEPT ![p] = c])
      BY DEF CheckGet, CheckGive, Start, Done
<1>2. cmd[p].obj \in Objects /\ cmd[p].dst \in Holders /\ cmd[p].dst.kind = "inventory"
      BY <1>1, CommandOf, HoldersAre DEF Command
<1>3. Command(p, c) /\ Command(p, NoCommand) /\ c.at = "move"
      BY <1>2, NextStages
<1> HIDE DEF c
<1> QED BY <1>1, <1>3, CommandKeeps, NoCommandIdle

\* A get from a container writes the Location: of a straight object what it was.
LEMMA GetFromKeeps ==
    ASSUME PlacesInv, NEW p \in Players, GetFrom(p)
    PROVE PlacesInv'
<1> DEFINE o == cmd[p].obj
           k == cmd[p].dst
           c == [at |-> "move", obj |-> o, dst |-> Inv(p)]
<1>1. o \in Objects /\ k \in Holders /\ k.kind = "container" /\ cmd[p].at = "getfrom"
      BY CommandOf DEF GetFrom, Command
<1>2. Command(p, c) /\ Command(p, NoCommand) /\ c.at = "move" /\ Bags
      BY <1>1, NextStages, HoldersAre, BagsHold
<1>3. CASE cmd' = [cmd EXCEPT ![p] = NoCommand] /\ UNCHANGED <<location, loose>>
  <2>1. UNCHANGED <<location, holds, registered, spill, credited, loose>>
        BY <1>3 DEF GetFrom
  <2> QED BY <1>1, <1>2, <1>3, <2>1, CommandKeeps, NoCommandIdle
<1>4. CASE /\ location' = [location EXCEPT ![o] = k]
           /\ loose' = IF o \in holds[k] /\ location[o] = k THEN loose ELSE loose \cup {o}
           /\ cmd' = [cmd EXCEPT ![p] = c]
  <2>0. UNCHANGED <<holds, registered, spill, credited>>
        BY DEF GetFrom
  <2> HIDE DEF c
  <2>1. /\ cmd' \in [Players -> [at : Stages, obj : Objects, dst : Holders] \cup {NoCommand}]
        /\ Commands' /\ cmd'[p] = c /\ \A q \in Players \ {p} : cmd'[q] = cmd[q]
        BY <1>2, <1>4, CommandStored
  <2> HIDE DEF o, k
  <2>2. /\ location' \in [Objects -> Holders \cup {Nowhere}] /\ loose' \subseteq Objects
        /\ Straight' \subseteq Straight /\ \A x \in Straight' : location'[x] = location[x]
        /\ \A x \in Objects \ {o} : location'[x] = location[x]
        /\ location'[o] = k
        BY <1>1, <1>2, <1>4 DEF Bags, Straight
  <2>3. PlacesTypeOK' /\ Spills'
        BY <2>0, <2>1, <2>2 DEF PlacesInv, PlacesTypeOK, Spills
  <2>4. PaidGone'
    <3>1. \A x \in Piles \ loose' : x \in Straight'
          BY PlacesAssumption DEF Straight
    <3> QED BY <2>0, <2>2, <3>1 DEF PlacesInv, PaidGone, Straight
  <2>5. HandsStay
        BY <1>1, <1>2, <1>4, HandsOfOthers
  <2>6. \A q \in Players : cmd[q].at = "slot" <=> cmd'[q].at = "slot"
        BY <2>5 DEF HandsStay
  <2>7. \A q \in Players : cmd[q].at = "slot" => cmd'[q] = cmd[q]
        BY <2>5 DEF HandsStay
  <2>8. \A x : Slotting(x) => Slotting(x)'
        BY <2>6, <2>7 DEF Slotting
  <2>9. Sited' /\ Found' /\ Listed'
        BY <2>0, <2>2, <2>8 DEF PlacesInv, Belongings, Agree, Sited, Found, Listed
  <2>10. \A q \in Players : Held(q)'
    <3> SUFFICES ASSUME NEW q \in Players, cmd[q].at = "slot", cmd[q].obj \in Straight'
                 PROVE location'[cmd[q].obj] = Inv(q) /\ \A h \in Holders : cmd[q].obj \notin holds'[h]
        BY <2>6, <2>7 DEF Held
    <3> QED BY <2>0, <2>2 DEF PlacesInv, Belongings, Agree, Held
  <2>11. Slots'
    <3>1. Worned'
          BY <1>1, <2>0, <2>2, HoldersAre DEF PlacesInv, Belongings, Slots, Worned
    <3>2. OneEach' /\ Bare'
          BY <2>0, <2>5 DEF PlacesInv, Belongings, Slots, OneEach, Bare, HandsStay
    <3> QED BY <3>1, <3>2 DEF Slots
  <2>12. Fitting' /\ Standing'
         BY <2>0 DEF PlacesInv, Belongings, Fitting, Fits, Standing
  <2>13. Acyclic'
         BY <2>0, <2>2, NoNewRing DEF PlacesInv, Belongings
  <2> QED BY <2>1, <2>3, <2>4, <2>9, <2>10, <2>11, <2>12, <2>13 DEF PlacesInv, Belongings, Agree
<1> QED BY <1>3, <1>4 DEF GetFrom, Start, Done

\* A move keeps the rest of the invariant too, when command and corpse stay in shape.
LEMMA MoveStepKeeps ==
    ASSUME PlacesInv, NEW o \in Objects, NEW d \in Holders, d.kind # "worn", Move(o, d),
           UNCHANGED <<registered, credited>>, HandsStay, Commands', Spills',
           cmd' \in [Players -> [at : Stages, obj : Objects, dst : Holders] \cup {NoCommand}],
           spill' \in [of : Containers \cup {Floor}, left : SUBSET Objects, to : Holders]
    PROVE PlacesInv'
<1>1. Bags /\ Belongings
      BY BagsHold DEF PlacesInv
<1>2. Belongings'
      BY <1>1, MoveKeeps
<1>3. /\ location' \in [Objects -> Holders \cup {Nowhere}]
      /\ holds' \in [Holders -> SUBSET Objects]
      /\ loose' \in {loose, loose \cup {o}}
      /\ \A x \in Objects \ {o} : location'[x] = location[x]
      /\ o \notin loose' => ~Misplaced(o)
      BY <1>1, MoveFacts
<1>4. PlacesTypeOK'
      BY <1>3 DEF PlacesInv, PlacesTypeOK
<1>5. PaidGone'
  <2> SUFFICES ASSUME NEW x \in Piles, x \notin loose'
               PROVE credited[x] <= 1 /\ (credited[x] = 1 => location'[x] = Nowhere)
      BY DEF PaidGone
  <2>1. x \in Objects /\ x \notin loose
        BY <1>3, PlacesAssumption
  <2>2. CASE x = o
    <3>1. location[o] # Nowhere
          BY <1>3, <2>2 DEF Misplaced
    <3> QED BY <2>1, <2>2, <3>1 DEF PlacesInv, PaidGone
  <2>3. CASE x # o
        BY <1>3, <2>1, <2>3 DEF PlacesInv, PaidGone
  <2> QED BY <2>2, <2>3
<1> QED BY <1>2, <1>4, <1>5 DEF PlacesInv

\* MoveObject at the end of a get, a put, a drop or a give.
LEMMA MoveObjectKeeps ==
    ASSUME PlacesInv, NEW p \in Players, MoveObject(p)
    PROVE PlacesInv'
<1> DEFINE o == cmd[p].obj
           d == cmd[p].dst
           pay == [at |-> "pay", obj |-> o, dst |-> d]
<1>1. o \in Objects /\ d \in Holders /\ d.kind # "worn" /\ cmd[p].at = "move"
      BY CommandOf DEF MoveObject, Command
<1>2. Move(o, d) /\ UNCHANGED <<registered, spill, credited>>
      BY DEF MoveObject
<1>3. PICK c : cmd' = [cmd EXCEPT ![p] = c] /\ Command(p, c) /\ c.at \in {"idle", "pay"}
  <2>1. CASE Moves(o, d) /\ d = Inv(p) /\ o \in Piles
    <3>1. cmd' = [cmd EXCEPT ![p] = pay] /\ Command(p, pay) /\ pay.at \in {"idle", "pay"}
          BY <1>1, <2>1, NextStages DEF MoveObject, Start
    <3> HIDE DEF pay
    <3> QED BY <3>1
  <2>2. CASE ~(Moves(o, d) /\ d = Inv(p) /\ o \in Piles)
    <3>1. cmd' = [cmd EXCEPT ![p] = NoCommand] /\ Command(p, NoCommand)
          BY <1>1, <2>2, NextStages DEF MoveObject, Done
    <3> QED BY <3>1, NoCommandIdle
  <2> QED BY <2>1, <2>2
<1>4. cmd' \in [Players -> [at : Stages, obj : Objects, dst : Holders] \cup {NoCommand}] /\ Commands'
      BY <1>3, CommandStored
<1>5. HandsStay
      BY <1>1, <1>3, HandsOfOthers
<1>6. Spills' /\ spill' \in [of : Containers \cup {Floor}, left : SUBSET Objects, to : Holders]
      BY <1>2 DEF PlacesInv, PlacesTypeOK, Spills
<1> HIDE DEF o, d
<1> QED BY <1>1, <1>2, <1>4, <1>5, <1>6, MoveStepKeeps

\* Spilling moves what is left of the contents.
LEMMA SpillOneKeeps == PlacesInv /\ SpillOne => PlacesInv'
<1> SUFFICES ASSUME PlacesInv, SpillOne PROVE PlacesInv'
    OBVIOUS
<1>1. PICK o \in spill.left :
          /\ IF spill.to = Room \/ spill.to.of \in registered
             THEN Move(o, spill.to) ELSE UNCHANGED <<location, holds, loose>>
          /\ spill' = [spill EXCEPT !.left = @ \ {o}]
          /\ UNCHANGED <<registered, cmd, credited>>
      BY DEF SpillOne
<1>2. spill \in [of : Containers \cup {Floor}, left : SUBSET Objects, to : Holders]
      BY DEF PlacesInv, PlacesTypeOK
<1>3. o \in Objects /\ spill.to \in Holders /\ spill.to.kind # "worn"
      BY <1>2 DEF PlacesInv, Spills
<1>4. spill' \in [of : Containers \cup {Floor}, left : SUBSET Objects, to : Holders] /\ spill'.to = spill.to
      BY <1>1, <1>2
<1>5. HandsStay /\ Commands' /\ Spills'
      /\ cmd' \in [Players -> [at : Stages, obj : Objects, dst : Holders] \cup {NoCommand}]
      BY <1>1, <1>4 DEF HandsStay, PlacesInv, PlacesTypeOK, Commands, Command, Spills
<1>6. CASE Move(o, spill.to)
      BY <1>1, <1>3, <1>4, <1>5, <1>6, MoveStepKeeps
<1>7. CASE UNCHANGED <<location, holds, loose>>
  <2>1. PlacesTypeOK'
        BY <1>1, <1>4, <1>7 DEF PlacesInv, PlacesTypeOK
  <2> QED BY <1>1, <1>5, <1>7, <2>1
          DEF PlacesInv, Belongings, Agree, Sited, Found, Slotting, Listed, Held, Slots, Worned,
              OneEach, Bare, Fitting, Fits, Standing, Acyclic, Ring, PaidGone, Straight
<1> QED BY <1>1, <1>6, <1>7

-----------------------------------------------------------------------------
(* Extractions *)

\* An extraction keeps the rest of the invariant, when command and corpse stay in
\* shape and only a pile that was still somewhere is credited.
LEMMA ExtractStepKeeps ==
    ASSUME PlacesInv, NEW o \in Objects, ExtractObject(o), HandsStay, Commands', Spills',
           cmd' \in [Players -> [at : Stages, obj : Objects, dst : Holders] \cup {NoCommand}],
           spill' \in [of : Containers \cup {Floor}, left : SUBSET Objects, to : Holders],
           \/ credited' = credited
           \/ o \in Piles /\ location[o] # Nowhere /\ credited' = [credited EXCEPT ![o] = @ + 1]
    PROVE PlacesInv'
<1>1. Bags /\ Belongings
      BY BagsHold DEF PlacesInv
<1>2. Belongings'
      BY <1>1, ExtractKeeps
<1>3. PICK out \in SUBSET Objects :
          /\ o \in out /\ registered' = registered \ out
          /\ location' = [x \in Objects |-> IF x \in out THEN Nowhere ELSE location[x]]
          /\ holds' \in [Holders -> SUBSET Objects]
          /\ loose \subseteq loose' /\ loose' \subseteq Objects
      BY <1>1, ExtractFacts
<1>4. location' \in [Objects -> Holders \cup {Nowhere}]
      BY <1>1, <1>3 DEF Bags
<1>5. credited \in [Piles -> Nat] /\ registered \subseteq Objects
      BY DEF PlacesInv, PlacesTypeOK
<1>6. PlacesTypeOK'
  <2>1. credited' \in [Piles -> Nat]
        BY <1>5
  <2> QED BY <1>3, <1>4, <1>5, <2>1 DEF PlacesTypeOK
<1>7. PaidGone'
  <2> SUFFICES ASSUME NEW x \in Piles, x \notin loose'
               PROVE credited'[x] <= 1 /\ (credited'[x] = 1 => location'[x] = Nowhere)
      BY DEF PaidGone
  <2>1. x \in Objects /\ x \notin loose /\ credited[x] \in Nat
        BY <1>3, <1>5, PlacesAssumption
  <2>2. credited[x] <= 1 /\ (credited[x] = 1 => location[x] = Nowhere)
        BY <2>1 DEF PlacesInv, PaidGone
  <2>3. location[x] = Nowhere => location'[x] = Nowhere
        BY <1>3, <2>1
  <2>4. location'[o] = Nowhere
        BY <1>3
  <2>5. CASE credited'[x] = credited[x]
        BY <2>2, <2>3, <2>5
  <2>6. CASE credited'[x] # credited[x]
    <3>1. x = o /\ credited'[x] = credited[x] + 1 /\ location[x] # Nowhere
          BY <1>5, <2>6
    <3> QED BY <2>1, <2>2, <2>4, <3>1
  <2> QED BY <2>5, <2>6
<1> QED BY <1>2, <1>6, <1>7 DEF PlacesInv

\* getCheckMoney: a pile that is nowhere is not paid again.
LEMMA GetCheckMoneyKeeps ==
    ASSUME PlacesInv, NEW p \in Players, GetCheckMoney(p)
    PROVE PlacesInv'
<1> DEFINE o == cmd[p].obj
<1>1. o \in Objects /\ o \in Piles /\ cmd[p].at = "pay"
      BY CommandOf DEF GetCheckMoney, Command
<1>2. cmd' = [cmd EXCEPT ![p] = NoCommand] /\ Command(p, NoCommand) /\ spill' = spill
      BY DEF GetCheckMoney, Done, Command
<1>3. CASE Consumed(o)
  <2>1. UNCHANGED <<location, holds, registered, spill, credited, loose>>
        BY <1>2, <1>3 DEF GetCheckMoney
  <2> QED BY <1>1, <1>2, <2>1, CommandKeeps, NoCommandIdle
<1>4. CASE ~Consumed(o)
  <2>1. ExtractObject(o) /\ location[o] # Nowhere /\ credited' = [credited EXCEPT ![o] = @ + 1]
        BY <1>4 DEF GetCheckMoney, Consumed
  <2>2. cmd' \in [Players -> [at : Stages, obj : Objects, dst : Holders] \cup {NoCommand}] /\ Commands'
        BY <1>2, CommandStored
  <2>3. HandsStay
        BY <1>1, <1>2, HandsOfOthers, NoCommandIdle
  <2>4. Spills' /\ spill' \in [of : Containers \cup {Floor}, left : SUBSET Objects, to : Holders]
        BY <1>2 DEF PlacesInv, PlacesTypeOK, Spills
  <2> HIDE DEF o
  <2> QED BY <1>1, <2>1, <2>2, <2>3, <2>4, ExtractStepKeeps
<1> QED BY <1>3, <1>4

\* The end of a decay, and every other extraction.
LEMMA DestructionKeeps ==
    ASSUME PlacesInv, EndDecay \/ \E o \in Objects : Destroy(o)
    PROVE PlacesInv'
<1>1. PICK o \in Objects : ExtractObject(o) /\ UNCHANGED <<cmd, credited>>
                           /\ (spill' = NoDecay \/ spill' = spill)
  <2>1. CASE EndDecay
    <3>1. spill.of \in Objects
          BY <2>1, PlacesAssumption DEF EndDecay, PlacesInv, PlacesTypeOK
    <3> QED BY <2>1, <3>1 DEF EndDecay
  <2>2. CASE \E o \in Objects : Destroy(o)
        BY <2>2 DEF Destroy
  <2> QED BY <2>1, <2>2
<1>2. Spills' /\ spill' \in [of : Containers \cup {Floor}, left : SUBSET Objects, to : Holders]
      BY <1>1, HoldersAre DEF PlacesInv, PlacesTypeOK, Spills, NoDecay
<1>3. HandsStay /\ Commands'
      /\ cmd' \in [Players -> [at : Stages, obj : Objects, dst : Holders] \cup {NoCommand}]
      BY <1>1 DEF HandsStay, PlacesInv, PlacesTypeOK, Commands, Command
<1> QED BY <1>1, <1>2, <1>3, ExtractStepKeeps

\* A decay begins with a look at the contents.
LEMMA DecayKeeps ==
    ASSUME PlacesInv, NEW c \in Containers, Decay(c)
    PROVE PlacesInv'
<1>1. UNCHANGED <<location, holds, registered, cmd, credited, loose>>
      BY DEF Decay
<1>2. Bags
      BY BagsHold
<1>3. PICK to : /\ spill' = [of |-> c, left |-> holds[In(c)], to |-> to]
                /\ to \in Holders /\ to.kind \in {"room", "container"}
  <2>1. location[c] \in Holders \cup {Nowhere}
        BY <1>2 DEF Bags
  <2>2. CASE location[c].kind = "container"
        BY <2>1, <2>2, KindTells DEF Decay
  <2>3. CASE location[c].kind # "container"
        BY <2>3, HoldersAre DEF Decay
  <2> QED BY <2>2, <2>3
<1>4. holds[In(c)] \subseteq Objects
      BY <1>2, HoldersAre DEF Bags
<1>5. Spills' /\ spill' \in [of : Containers \cup {Floor}, left : SUBSET Objects, to : Holders]
      BY <1>3, <1>4 DEF Spills
<1>6. PlacesTypeOK' /\ Commands'
      BY <1>1, <1>5 DEF PlacesInv, PlacesTypeOK, Commands, Command
<1> QED BY <1>1, <1>5, <1>6
        DEF PlacesInv, Belongings, Agree, Sited, Found, Slotting, Listed, Held, Slots, Worned,
            OneEach, Bare, Fitting, Fits, Standing, Acyclic, Ring, PaidGone, Straight

-----------------------------------------------------------------------------
(* Wearing *)

\* Out of the inventory: a straight object is then in its wearer's hands only.
LEMMA TakeToWearKeeps ==
    ASSUME PlacesInv, NEW p \in Players, TakeToWear(p)
    PROVE PlacesInv'
<1> DEFINE o == cmd[p].obj
           c == [at |-> "slot", obj |-> o, dst |-> Worn(p)]
<1>1. o \in Objects /\ cmd[p].at = "wear" /\ Bags
      BY CommandOf, BagsHold DEF TakeToWear
<1>2. /\ cmd' = [cmd EXCEPT ![p] = c]
      /\ holds' = [holds EXCEPT ![Inv(p)] = @ \ {o}]
      /\ loose' = IF o \in holds[Inv(p)] THEN loose ELSE loose \cup {o}
      /\ UNCHANGED <<location, registered, spill, credited>>
      BY DEF TakeToWear, Start
<1>3. Command(p, c) /\ c.at = "slot" /\ c.obj = o
      BY <1>1, NextStages, HoldersAre
<1> HIDE DEF c
<1>4. /\ cmd' \in [Players -> [at : Stages, obj : Objects, dst : Holders] \cup {NoCommand}]
      /\ Commands' /\ cmd'[p] = c /\ \A q \in Players \ {p} : cmd'[q] = cmd[q]
      BY <1>2, <1>3, CommandStored
<1> HIDE DEF o
<1>5. /\ \A k \in Holders : holds'[k] = IF k = Inv(p) THEN holds[k] \ {o} ELSE holds[k]
      /\ holds' \in [Holders -> SUBSET Objects]
      BY <1>1, <1>2, HoldersAre DEF Bags
<1>6. /\ loose' \subseteq Objects /\ Straight' \subseteq Straight
      /\ Straight \subseteq Objects /\ (o \in Straight' => o \in holds[Inv(p)])
      BY <1>1, <1>2 DEF Bags, Straight
<1>7. PlacesTypeOK' /\ Spills'
      BY <1>2, <1>4, <1>5, <1>6 DEF PlacesInv, PlacesTypeOK, Spills
<1>8. PaidGone'
      BY <1>2 DEF PlacesInv, PaidGone
<1>9. o \in Straight' => location[o] = Inv(p) /\ \A k \in Holders : o \notin holds'[k]
  <2> SUFFICES ASSUME o \in Straight' PROVE location[o] = Inv(p) /\ \A k \in Holders : o \notin holds'[k]
      OBVIOUS
  <2>1. \A k \in Holders : o \in holds[k] => k = Inv(p)
        BY <1>6, HoldersAre DEF PlacesInv, Belongings, Agree, Sited
  <2>2. location[o] = Inv(p)
        BY <1>6, HoldersAre DEF PlacesInv, Belongings, Agree, Sited
  <2> QED BY <1>5, <2>1, <2>2
<1>10. Sited' /\ Listed'
       BY <1>2, <1>5, <1>6 DEF PlacesInv, Belongings, Agree, Sited, Listed
<1>11. Found'
  <2>1. \A x : x = o => Slotting(x)'
        BY <1>3, <1>4 DEF Slotting
  <2>2. \A x : Slotting(x) => Slotting(x)'
        BY <1>1, <1>4 DEF Slotting
  <2>3. \A x \in Straight', k \in Holders : x # o /\ x \in holds[k] => x \in holds'[k]
        BY <1>5
  <2>4. ASSUME NEW x \in Straight', location[x] # Nowhere, x # o
        PROVE x \in holds'[location[x]] \/ Slotting(x)'
    <3>1. location[x] \in Holders
          BY <1>1, <1>6, <2>4 DEF Bags
    <3> QED BY <1>6, <2>2, <2>3, <2>4, <3>1 DEF PlacesInv, Belongings, Agree, Found
  <2> QED BY <1>2, <2>1, <2>4 DEF Found
<1>12. ASSUME NEW q \in Players PROVE Held(q)'
  <2>1. CASE q = p
        BY <1>2, <1>3, <1>4, <1>9, <2>1 DEF Held
  <2>2. CASE q # p
    <3>1. Held(q) /\ cmd'[q] = cmd[q]
          BY <1>4, <2>2 DEF PlacesInv, Belongings, Agree
    <3> QED BY <1>2, <1>5, <1>6, <3>1 DEF Held
  <2> QED BY <2>1, <2>2
<1>13. Slots'
  <2>1. \A q \in Players : holds'[Worn(q)] = holds[Worn(q)]
        BY <1>5, HoldersAre
  <2>2. Worned' /\ OneEach'
        BY <1>2, <2>1 DEF PlacesInv, Belongings, Slots, Worned, OneEach
  <2>3. Bare'
        BY <1>1, <1>4, <2>1 DEF PlacesInv, Belongings, Slots, Bare
  <2> QED BY <2>2, <2>3 DEF Slots
<1>14. Fitting'
  <2>1. ASSUME NEW q \in Players PROVE Fits(holds'[Inv(q)])
    <3>1. holds'[Inv(q)] \subseteq holds[Inv(q)] /\ Fits(holds[Inv(q)])
          BY <1>5, HoldersAre DEF PlacesInv, Belongings, Fitting
    <3> QED BY <1>1, <3>1, FitsOneMore DEF Bags
  <2> QED BY <2>1 DEF Fitting, Fits
<1>15. Standing' /\ Acyclic'
  <2>1. \A b \in Containers : holds'[In(b)] = holds[In(b)]
        BY <1>5, HoldersAre
  <2>2. Standing'
        BY <1>2, <2>1 DEF PlacesInv, Belongings, Standing
  <2> QED BY <1>6, <2>1, <2>2, NoNewRing DEF PlacesInv, Belongings
<1> QED BY <1>4, <1>7, <1>8, <1>10, <1>11, <1>12, <1>13, <1>14, <1>15 DEF PlacesInv, Belongings, Agree

\* Into the slot, which is bare: the object is where its Location now says.
LEMMA SetSlotKeeps ==
    ASSUME PlacesInv, NEW p \in Players, SetSlot(p)
    PROVE PlacesInv'
<1> DEFINE o == cmd[p].obj
<1>1. o \in Objects /\ cmd[p].at = "slot" /\ Bags
      BY CommandOf, BagsHold DEF SetSlot
<1>2. /\ cmd' = [cmd EXCEPT ![p] = NoCommand]
      /\ holds' = [holds EXCEPT ![Worn(p)] = {o}]
      /\ location' = [location EXCEPT ![o] = Worn(p)]
      /\ loose' = IF location[o] = Inv(p) THEN loose ELSE loose \cup {o}
      /\ UNCHANGED <<registered, spill, credited>>
      BY DEF SetSlot, Done
<1>3. Held(p) /\ holds[Worn(p)] = {}
      BY <1>1 DEF PlacesInv, Belongings, Agree, Slots, Bare
<1>4. /\ cmd' \in [Players -> [at : Stages, obj : Objects, dst : Holders] \cup {NoCommand}]
      /\ Commands' /\ cmd'[p] = NoCommand /\ \A q \in Players \ {p} : cmd'[q] = cmd[q]
      BY <1>2, CommandStored DEF Command
<1>5. \A q \in Players : cmd[q].at = "slot" /\ cmd[q].obj # o => cmd'[q] = cmd[q]
      BY <1>4
<1>6. \A q \in Players : cmd'[q].at \in {"wear", "slot"} => q # p /\ cmd'[q] = cmd[q]
      BY <1>4, NoCommandIdle
<1>7. /\ loose' \subseteq Objects /\ Straight' \subseteq Straight /\ Straight \subseteq Objects
      /\ o \in Straight' => location[o] = Inv(p) /\ \A k \in Holders : o \notin holds[k]
      BY <1>1, <1>2, <1>3 DEF Bags, Straight, Held
<1> HIDE DEF o
<1>8. /\ \A k \in Holders : holds'[k] = IF k = Worn(p) THEN {o} ELSE holds[k]
      /\ holds' \in [Holders -> SUBSET Objects]
      /\ location' \in [Objects -> Holders \cup {Nowhere}]
      /\ location'[o] = Worn(p) /\ \A x \in Objects \ {o} : location'[x] = location[x]
      BY <1>1, <1>2, HoldersAre DEF Bags
<1>9. Worn(p) \in Holders /\ Worn(p) # Nowhere /\ Inv(p) # Nowhere /\ Inv(p) # Worn(p)
      BY HoldersAre
<1>10. PlacesTypeOK' /\ Spills'
       BY <1>2, <1>4, <1>7, <1>8 DEF PlacesInv, PlacesTypeOK, Spills
<1>11. PaidGone'
  <2> SUFFICES ASSUME NEW x \in Piles, x \notin loose'
               PROVE credited[x] <= 1 /\ (credited[x] = 1 => location'[x] = Nowhere)
      BY <1>2 DEF PaidGone
  <2>1. x \in Straight' /\ x \in Objects /\ x \notin loose
        BY <1>7, PlacesAssumption DEF Straight
  <2> QED BY <1>7, <1>8, <1>9, <2>1 DEF PlacesInv, PaidGone
<1>12. Sited'
  <2>1. ASSUME NEW x \in Straight', NEW k \in Holders, x \in holds'[k] PROVE location'[x] = k
    <3>1. CASE x = o
          BY <1>7, <1>8, <2>1, <3>1
    <3>2. CASE x # o
          BY <1>7, <1>8, <2>1, <3>2 DEF PlacesInv, Belongings, Agree, Sited
    <3> QED BY <3>1, <3>2
  <2> QED BY <2>1 DEF Sited
<1>13. Found'
  <2>1. ASSUME NEW x \in Straight', x # o, location'[x] # Nowhere
        PROVE x \in holds'[location'[x]] \/ Slotting(x)'
    <3>1. location'[x] = location[x] /\ location[x] \in Holders
          BY <1>1, <1>7, <1>8, <2>1 DEF Bags
    <3>2. x \in holds[location[x]] \/ Slotting(x)
          BY <1>7, <2>1, <3>1 DEF PlacesInv, Belongings, Agree, Found
    <3>3. x \in holds[location[x]] => x \in holds'[location[x]]
          BY <1>3, <1>8, <3>1
    <3>4. Slotting(x) => Slotting(x)'
          BY <1>5, <2>1 DEF Slotting
    <3> QED BY <3>1, <3>2, <3>3, <3>4
  <2> QED BY <1>8, <1>9, <2>1 DEF Found
<1>14. Listed'
       BY <1>2, <1>7, <1>8, <1>9 DEF PlacesInv, Belongings, Agree, Listed
<1>15. ASSUME NEW q \in Players PROVE Held(q)'
  <2> SUFFICES ASSUME cmd'[q].at = "slot", cmd'[q].obj \in Straight'
               PROVE location'[cmd'[q].obj] = Inv(q) /\ \A h \in Holders : cmd'[q].obj \notin holds'[h]
      BY DEF Held
  <2>1. q # p /\ cmd'[q] = cmd[q]
        BY <1>6
  <2>2. location[cmd[q].obj] = Inv(q) /\ \A h \in Holders : cmd[q].obj \notin holds[h]
        BY <1>7, <2>1 DEF PlacesInv, Belongings, Agree, Held
  <2>3. cmd[q].obj # o
        BY <1>7, <2>1, <2>2, HoldersAre
  <2> QED BY <1>7, <1>8, <2>1, <2>2, <2>3
<1>16. Slots'
  <2>1. \A q \in Players : q # p => holds'[Worn(q)] = holds[Worn(q)]
        BY <1>8, HoldersAre
  <2>2. holds'[Worn(p)] = {o}
        BY <1>8, <1>9
  <2>3. Worned'
    <3>1. ASSUME NEW q \in Players, NEW x \in Objects, location'[x] = Worn(q) PROVE x \in holds'[Worn(q)]
      <4>1. CASE x = o
            BY <1>8, <2>2, <3>1, <4>1, HoldersAre
      <4>2. CASE x # o
        <5>1. x \in holds[Worn(q)]
              BY <1>8, <3>1, <4>2 DEF PlacesInv, Belongings, Slots, Worned
        <5> QED BY <1>3, <2>1, <5>1
      <4> QED BY <4>1, <4>2
    <3> QED BY <3>1 DEF Worned
  <2>4. OneEach'
        BY <2>1, <2>2 DEF PlacesInv, Belongings, Slots, OneEach
  <2>5. Bare'
        BY <1>6, <2>1 DEF PlacesInv, Belongings, Slots, Bare
  <2> QED BY <2>3, <2>4, <2>5 DEF Slots
<1>17. Fitting'
  <2>1. \A q \in Players : holds'[Inv(q)] = holds[Inv(q)]
        BY <1>8, HoldersAre
  <2> QED BY <2>1 DEF PlacesInv, Belongings, Fitting, Fits
<1>18. Standing' /\ Acyclic'
  <2>1. \A b \in Containers : holds'[In(b)] = holds[In(b)]
        BY <1>8, HoldersAre
  <2>2. Standing'
        BY <1>2, <2>1 DEF PlacesInv, Belongings, Standing
  <2> QED BY <1>7, <2>1, <2>2, NoNewRing DEF PlacesInv, Belongings
<1> QED BY <1>4, <1>10, <1>11, <1>12, <1>13, <1>14, <1>15, <1>16, <1>17, <1>18
        DEF PlacesInv, Belongings, Agree

\* Out of the slot into an inventory that has room.
LEMMA UnequipItemKeeps ==
    ASSUME PlacesInv, NEW p \in Players, UnequipItem(p)
    PROVE PlacesInv'
<1>1. PICK w : w \in holds[Worn(p)]
      BY DEF UnequipItem
<1>2. /\ Bags /\ Worn(p) \in Holders /\ Inv(p) \in Holders /\ Inv(p) # Worn(p)
      /\ Inv(p) # Nowhere /\ Worn(p) # Nowhere
      BY BagsHold, HoldersAre
<1>3. holds[Worn(p)] = {w} /\ w \in Objects
      BY <1>1, <1>2 DEF Bags, PlacesInv, Belongings, Slots, OneEach
<1>4. /\ holds' = [holds EXCEPT ![Worn(p)] = {}, ![Inv(p)] = @ \cup {w}]
      /\ location' = [x \in Objects |-> IF x = w THEN Inv(p) ELSE location[x]]
      /\ UNCHANGED <<registered, cmd, spill, credited, loose>> /\ ~Full(holds, p)
  <2>1. location' = [x \in Objects |-> IF x \in holds[Worn(p)] THEN Inv(p) ELSE location[x]]
        BY DEF UnequipItem
  <2> QED BY <1>3, <2>1 DEF UnequipItem
<1>5. /\ \A k \in Holders : holds'[k] = IF k = Worn(p) THEN {}
                                        ELSE IF k = Inv(p) THEN holds[k] \cup {w} ELSE holds[k]
      /\ holds' \in [Holders -> SUBSET Objects]
      /\ location' \in [Objects -> Holders \cup {Nowhere}]
      /\ location'[w] = Inv(p) /\ \A x \in Objects \ {w} : location'[x] = location[x]
      BY <1>2, <1>3, <1>4 DEF Bags
<1>6. Straight' = Straight /\ Straight \subseteq Objects
      /\ (w \in Straight => location[w] = Worn(p) /\ \A k \in Holders : w \in holds[k] => k = Worn(p))
      BY <1>1, <1>2, <1>4 DEF Straight, PlacesInv, Belongings, Agree, Sited
<1>7. PlacesTypeOK' /\ Spills' /\ Commands'
      BY <1>4, <1>5 DEF PlacesInv, PlacesTypeOK, Spills, Commands, Command
<1>8. PaidGone'
  <2> SUFFICES ASSUME NEW x \in Piles, x \notin loose
               PROVE credited[x] <= 1 /\ (credited[x] = 1 => location'[x] = Nowhere)
      BY <1>4 DEF PaidGone
  <2>1. x \in Straight /\ x \in Objects
        BY PlacesAssumption DEF Straight
  <2> QED BY <1>2, <1>5, <1>6, <2>1 DEF PlacesInv, PaidGone
<1>9. Sited'
      BY <1>2, <1>5, <1>6 DEF PlacesInv, Belongings, Agree, Sited
<1>10. Found'
  <2>1. \A x : Slotting(x)' <=> Slotting(x)
        BY <1>4 DEF Slotting
  <2>2. ASSUME NEW x \in Straight, x # w, location[x] # Nowhere
        PROVE x \in holds'[location[x]] \/ Slotting(x)'
    <3>1. location[x] \in Holders
          BY <1>2, <1>6, <2>2 DEF Bags
    <3>2. x \in holds[location[x]] => x \in holds'[location[x]]
          BY <1>3, <1>5, <2>2, <3>1
    <3> QED BY <2>1, <2>2, <3>2 DEF PlacesInv, Belongings, Agree, Found
  <2> QED BY <1>2, <1>5, <1>6, <2>2 DEF Found
<1>11. Listed'
       BY <1>2, <1>4, <1>5, <1>6 DEF PlacesInv, Belongings, Agree, Listed
<1>12. ASSUME NEW q \in Players PROVE Held(q)'
  <2> SUFFICES ASSUME cmd[q].at = "slot", cmd[q].obj \in Straight
               PROVE location'[cmd[q].obj] = Inv(q) /\ \A h \in Holders : cmd[q].obj \notin holds'[h]
      BY <1>4, <1>6 DEF Held
  <2>1. location[cmd[q].obj] = Inv(q) /\ \A h \in Holders : cmd[q].obj \notin holds[h]
        BY DEF PlacesInv, Belongings, Agree, Held
  <2>2. cmd[q].obj # w
        BY <1>1, <1>2, <2>1
  <2> QED BY <1>5, <1>6, <2>1, <2>2
<1>13. Slots'
  <2>0. \A q \in Players : /\ Worn(q) \in Holders /\ Worn(q) # Inv(p)
                           /\ Worn(q) = Worn(p) => q = p
        BY HoldersAre
  <2>1. /\ holds'[Worn(p)] = {}
        /\ \A q \in Players : q # p => holds'[Worn(q)] = holds[Worn(q)]
        BY <1>5, <2>0
  <2>2. Worned'
    <3>1. ASSUME NEW q \in Players, NEW x \in Objects, location'[x] = Worn(q) PROVE x \in holds'[Worn(q)]
      <4>1. x # w
            BY <1>5, <3>1, HoldersAre
      <4>2. x \in holds[Worn(q)]
            BY <1>5, <3>1, <4>1 DEF PlacesInv, Belongings, Slots, Worned
      <4> QED BY <1>3, <2>1, <4>1, <4>2
    <3> QED BY <3>1 DEF Worned
  <2>3. \A q \in Players : holds'[Worn(q)] \subseteq holds[Worn(q)]
        BY <2>1
  <2>4. OneEach' /\ Bare'
        BY <1>4, <2>3 DEF PlacesInv, Belongings, Slots, OneEach, Bare
  <2> QED BY <2>2, <2>4 DEF Slots
<1>14. Fitting'
  <2>1. ASSUME NEW q \in Players PROVE Fits(holds'[Inv(q)])
    <3>1. holds'[Inv(q)] \subseteq holds[Inv(q)] \cup {w} /\ Fits(holds[Inv(q)])
          BY <1>2, <1>5, HoldersAre DEF PlacesInv, Belongings, Fitting
    <3>2. CASE q = p
          BY <1>2, <1>4, <3>1, <3>2, FitsOneMore DEF Bags, Full
    <3>3. CASE q # p
      <4>1. holds'[Inv(q)] = holds[Inv(q)]
            BY <1>5, <3>3, HoldersAre
      <4> QED BY <3>1, <4>1
    <3> QED BY <3>2, <3>3
  <2> QED BY <2>1 DEF Fitting, Fits
<1>15. Standing' /\ Acyclic'
  <2>1. \A b \in Containers : holds'[In(b)] = holds[In(b)]
        BY <1>5, HoldersAre
  <2>2. Standing'
        BY <1>4, <2>1 DEF PlacesInv, Belongings, Standing
  <2> QED BY <1>6, <2>1, <2>2, NoNewRing DEF PlacesInv, Belongings
<1> QED BY <1>7, <1>8, <1>9, <1>10, <1>11, <1>12, <1>13, <1>14, <1>15 DEF PlacesInv, Belongings, Agree

-----------------------------------------------------------------------------
(* The invariant always holds *)

\* Everything lies on the floor at first.
LEMMA PlacesInvInit == PlacesInit => PlacesInv
<1> SUFFICES ASSUME PlacesInit PROVE PlacesInv
    OBVIOUS
<1>1. /\ \A o \in Objects : location[o] = Room
      /\ \A h \in Holders : holds[h] = IF h = Room THEN Objects ELSE {}
      /\ \A p \in Players : cmd[p] = NoCommand
      /\ registered = Objects /\ loose = {} /\ spill = NoDecay
      /\ \A o \in Piles : credited[o] = 0
      BY DEF PlacesInit
<1>2. /\ location \in [Objects -> Holders \cup {Nowhere}] /\ holds \in [Holders -> SUBSET Objects]
      /\ cmd \in [Players -> [at : Stages, obj : Objects, dst : Holders] \cup {NoCommand}]
      /\ credited \in [Piles -> Nat]
      BY HoldersAre DEF PlacesInit
<1>3. spill \in [of : Containers \cup {Floor}, left : SUBSET Objects, to : Holders] /\ Spills
      BY <1>1, HoldersAre DEF NoDecay, Spills
<1>4. PlacesTypeOK /\ Commands
      BY <1>1, <1>2, <1>3 DEF PlacesTypeOK, Commands, Command
<1>5. Room # Nowhere /\ Room \in Holders
      BY HoldersAre
<1>6. Agree
  <2>1. Sited /\ Found /\ Listed
        BY <1>1, <1>5 DEF Sited, Found, Listed, Straight
  <2> QED BY <1>1, <2>1, NoCommandIdle DEF Agree, Held
<1>7. \A p \in Players : holds[Inv(p)] = {} /\ holds[Worn(p)] = {}
      BY <1>1, HoldersAre
<1>8. Slots
  <2>1. Worned
        BY <1>1, HoldersAre DEF Worned
  <2> QED BY <1>7, <2>1 DEF Slots, OneEach, Bare
<1>9. Fitting
      BY <1>7, FS_EmptySet, PlacesAssumption DEF Fitting, Fits
<1>10. \A c \in Containers : holds[In(c)] = {}
       BY <1>1, HoldersAre
<1>11. Standing /\ Acyclic /\ PaidGone
       BY <1>1, <1>10 DEF Standing, Acyclic, Ring, PaidGone
<1> QED BY <1>3, <1>4, <1>6, <1>8, <1>9, <1>11 DEF PlacesInv, Belongings

\* Every step keeps the invariant.
LEMMA PlacesInvNext == PlacesInv /\ [PlacesNext]_placesVars => PlacesInv'
<1> SUFFICES ASSUME PlacesInv, [PlacesNext]_placesVars PROVE PlacesInv'
    OBVIOUS
<1>1. ASSUME NEW p \in Players, LookUp(p) PROVE PlacesInv'
      BY <1>1, LookUpKeeps
<1>2. ASSUME NEW p \in Players, CheckGet(p) \/ CheckGive(p) PROVE PlacesInv'
      BY <1>2, ChecksKeep
<1>3. ASSUME NEW p \in Players, GetFrom(p) PROVE PlacesInv'
      BY <1>3, GetFromKeeps
<1>4. ASSUME NEW p \in Players, MoveObject(p) PROVE PlacesInv'
      BY <1>4, MoveObjectKeeps
<1>5. ASSUME NEW p \in Players, GetCheckMoney(p) PROVE PlacesInv'
      BY <1>5, GetCheckMoneyKeeps
<1>6. ASSUME NEW p \in Players, TakeToWear(p) PROVE PlacesInv'
      BY <1>6, TakeToWearKeeps
<1>7. ASSUME NEW p \in Players, SetSlot(p) PROVE PlacesInv'
      BY <1>7, SetSlotKeeps
<1>8. ASSUME NEW p \in Players, UnequipItem(p) PROVE PlacesInv'
      BY <1>8, UnequipItemKeeps
<1>9. ASSUME NEW c \in Containers, Decay(c) PROVE PlacesInv'
      BY <1>9, DecayKeeps
<1>10. CASE SpillOne
       BY <1>10, SpillOneKeeps
<1>11. CASE EndDecay \/ \E o \in Objects : Destroy(o)
       BY <1>11, DestructionKeeps
<1>12. CASE UNCHANGED placesVars
  <2>1. PlacesTypeOK' /\ Commands' /\ Spills'
        BY <1>12 DEF placesVars, PlacesInv, PlacesTypeOK, Commands, Command, Spills
  <2> QED BY <1>12, <2>1
          DEF placesVars, PlacesInv, Belongings, Agree, Sited, Found, Slotting, Listed, Held, Slots,
              Worned, OneEach, Bare, Fitting, Fits, Standing, Acyclic, Ring, PaidGone, Straight
<1> QED BY <1>1, <1>2, <1>3, <1>4, <1>5, <1>6, <1>7, <1>8, <1>9, <1>10, <1>11, <1>12 DEF PlacesNext

\* The invariant holds in every state.
LEMMA PlacesInvAlways == PlacesSpec => []PlacesInv
BY PlacesInvInit, PlacesInvNext, PTL DEF PlacesSpec

\* Every variable keeps its shape.
THEOREM PlacesShapes == PlacesSpec => []PlacesTypeOK
<1>1. PlacesInv => PlacesTypeOK
      BY DEF PlacesInv
<1> QED BY <1>1, PlacesInvAlways, PTL

\* getCheckMoney pays the coins of a pile once, however many players took it up: they
\* are nowhere from then on, unless the pile was moved from where it was not.
THEOREM PaidAtMostOnce == PlacesSpec => []PaidOnce
<1>1. PlacesInv => PaidOnce
      BY DEF PlacesInv, PaidGone, PaidOnce
<1> QED BY <1>1, PlacesInvAlways, PTL

\* MoveObject, EquipItem and ExtractObject leave an object that was always moved from
\* where it was in one list, the one of its Location, and registered while it is
\* somewhere: a failed move always finds the way back.
THEOREM HeldOnce == PlacesSpec => []OneHolder
<1>1. PlacesInv => OneHolder
  <2> SUFFICES ASSUME PlacesInv, NEW o \in Straight, ~InHand(o)
               PROVE /\ {h \in Holders : o \in holds[h]} = {location[o]} \ {Nowhere}
                     /\ o \in registered <=> location[o] # Nowhere
      BY DEF OneHolder, Straight
  <2>1. location[o] \in Holders \cup {Nowhere} /\ Nowhere \notin Holders
        BY BagsHold, HoldersAre DEF Bags, Straight
  <2>2. \A h \in Holders : o \in holds[h] => location[o] = h
        BY DEF PlacesInv, Belongings, Agree, Sited
  <2>3. location[o] # Nowhere => o \in holds[location[o]]
        BY DEF PlacesInv, Belongings, Agree, Found, Slotting, InHand
  <2> QED BY <2>1, <2>2, <2>3 DEF PlacesInv, Belongings, Agree, Listed
<1> QED BY <1>1, PlacesInvAlways, PTL

\* What an object contains, and what that contains, is less than what the object does.
LEMMA TreeGrows ==
    ASSUME holds \in [Holders -> SUBSET Objects], NEW x \in Objects, NEW y \in Tree(holds, x)
    PROVE y \in Objects /\ Tree(holds, y) \subseteq Tree(holds, x)
<1>1. y \in Objects /\ Tree(holds, x) \in SUBSET Objects /\ Inside(holds, Tree(holds, x))
      BY TreeFacts
<1> QED BY <1>1, TreeFacts

\* What an object contains lies in one of those it holds.
LEMMA TreeOfOne ==
    ASSUME holds \in [Holders -> SUBSET Objects], NEW x \in Objects, NEW z \in Tree(holds, x), z # x
    PROVE x \in Containers /\ \E y \in holds[In(x)] : z \in Tree(holds, y)
<1> SUFFICES ASSUME ~(x \in Containers /\ \E y \in holds[In(x)] : z \in Tree(holds, y))
             PROVE FALSE
    OBVIOUS
<1> DEFINE S == {w \in Tree(holds, x) : w = x \/ (x \in Containers /\ \E y \in holds[In(x)] : w \in Tree(holds, y))}
<1>1. \A y \in Objects : y \in Tree(holds, y) /\ Inside(holds, Tree(holds, y)) /\ Tree(holds, y) \subseteq Objects
      BY TreeFacts
<1>2. \A c \in Containers : holds[In(c)] \subseteq Objects
      BY HoldersAre
<1>3. x \in S /\ S \in SUBSET Objects
      BY <1>1
<1>4. ASSUME NEW w \in S, w \in Containers, NEW v \in holds[In(w)] PROVE v \in S
  <2>1. v \in Tree(holds, x) /\ v \in Objects
        BY <1>1, <1>2, <1>4 DEF Inside
  <2>2. CASE w = x
        BY <1>1, <1>4, <2>1, <2>2
  <2>3. CASE w # x
        BY <1>1, <1>2, <1>4, <2>1, <2>3 DEF Inside
  <2> QED BY <2>2, <2>3
<1>5. Inside(holds, S)
      BY <1>4 DEF Inside
<1>6. z \notin S
      OBVIOUS
<1> HIDE DEF S
<1> QED BY <1>3, <1>5, <1>6, TreeFacts

\* attachObjectLocked refuses to put a container into itself or into what it contains.
\* Two players who put two bags into each other at once do not get around it: only
\* with an object that was moved from where it was not does a container lie in itself.
THEOREM NeverInItself == PlacesSpec => []NoCycle
<1>1. PlacesInv => NoCycle
  <2> SUFFICES ASSUME PlacesInv, NEW c \in Containers, NEW o \in holds[In(c)],
                      c \in Tree(holds, o), loose \cap Tree(holds, c) = {}
               PROVE FALSE
      BY DEF NoCycle
  <2> DEFINE T == {x \in Tree(holds, c) : c \in Tree(holds, x)}
  <2>1. /\ holds \in [Holders -> SUBSET Objects] /\ c \in Objects
        BY BagsHold, PlacesAssumption DEF Bags
  <2>2. /\ c \in Tree(holds, c) /\ Tree(holds, c) \in SUBSET Straight /\ o \in Tree(holds, c)
        BY <2>1, TreeFacts DEF Inside, Straight
  <2>3. ASSUME NEW x \in T PROVE x \in Containers /\ \E y \in T : y \in holds[In(x)]
    <3>1. CASE x = c
          BY <2>2, <3>1
    <3>2. CASE x # c
      <4>1. x \in Containers /\ \E y \in holds[In(x)] : c \in Tree(holds, y)
            BY <2>1, <2>2, <2>3, <3>2, TreeOfOne DEF Straight
      <4>2. Inside(holds, Tree(holds, c))
            BY <2>1, TreeFacts
      <4> QED BY <2>3, <4>1, <4>2 DEF Inside
    <3> QED BY <3>1, <3>2
  <2>4. T \in SUBSET Straight /\ Ring(T)
        BY <2>2, <2>3 DEF Ring
  <2> HIDE DEF T
  <2> QED BY <2>4 DEF PlacesInv, Belongings, Acyclic
<1> QED BY <1>1, PlacesInvAlways, PTL
=============================================================================
