--------------------------- MODULE CombatListProofs ---------------------------
(***************************************************************************)
(* Theorems about CombatList for any set of bodies: a mob's death is paid   *)
(* out once, a body that was extracted has left combat for good, and field, *)
(* list and pair agree about every body no skill has touched.               *)
(*                                                                         *)
(* The second follows from CombatInv: whatever is marked, dying or on its   *)
(* way out is dead, nobody wakes the dead, and a dead and retired body that *)
(* fights nobody gets no opponent, no turn and no pair from any thread.     *)
(* The third follows from MeleeInv, which says when the three disagree:     *)
(* between raw_kill's stop and the engine's retirement of its victim. Last  *)
(* the shape of the state, where the bound on a body's deaths takes a count *)
(* of the swings that can still pay for one.                                *)
(***************************************************************************)
EXTENDS CombatList, TLAPS

-----------------------------------------------------------------------------
(* The inductive invariant *)

Swings == [at : Steps, att : Bodies, def : Bodies, melee : BOOLEAN]
OpType == [Threads -> Swings \cup {Resting}]
FightType == [Bodies -> Bodies \cup {Nil}]
CombatShapes ==
    /\ op \in OpType
    /\ fighting \in FightType /\ list \subseteq Bodies
    /\ pair = [b \in Bodies |-> pair[b]]
    /\ health = [b \in Bodies |-> health[b]]
    /\ leaving = [at |-> leaving.at, body |-> leaving.body, others |-> leaving.others]
    /\ leaving.at # "no" => leaving.body \in Bodies
    /\ gone \subseteq Bodies

Dead(b) == health[b] = "dead"
Fatal == {"dying", "latch", "raw"}

\* The marked, the dying and the one the extraction pass has in hand are dead.
DeathsAreReal ==
    /\ \A b \in flagged : b \in Bodies => Dead(b)
    /\ leaving.at # "no" => Dead(leaving.body)
    /\ \A t \in Threads : op[t].at \in Fatal => Dead(op[t].def)

Silent(b) == fighting[b] = Nil /\ b \notin list /\ pair[b] = Nil
Quiet(b) == b \in retired /\ Dead(b) /\ Silent(b)
Departed(b) == b \in gone \/ (leaving.at = "retired" /\ leaving.body = b)
DepartedQuiet == \A b \in Bodies : Departed(b) => Quiet(b)

CombatInv == CombatShapes /\ DeathsAreReal /\ DepartedQuiet

-----------------------------------------------------------------------------
(* The pieces the actions are built from *)

\* The steps of a swing are no rest.
LEMMA StepNames == "idle" \notin Steps /\ Fatal \subseteq Steps /\ Resting.at = "idle"
BY DEF Steps, Fatal, Resting

\* A thread that is in a swing goes to another step of it.
LEMMA GotoFacts ==
    ASSUME op \in OpType, NEW t \in Threads, op[t].at # "idle", NEW s \in Steps, Goto(t, s)
    PROVE /\ op' \in OpType
          /\ op'[t].at = s /\ op'[t].def = op[t].def /\ op'[t].att = op[t].att
          /\ op'[t].melee = op[t].melee
          /\ \A u \in Threads : u # t => op'[u] = op[u]
<1>1. op[t] \in Swings
      BY DEF OpType, Resting
<1>2. op' = [op EXCEPT ![t] = [op[t] EXCEPT !.at = s]]
      BY DEF Goto
<1>3. [op[t] EXCEPT !.at = s] \in Swings
      BY <1>1 DEF Swings
<1>4. /\ [op[t] EXCEPT !.at = s].at = s
      /\ [op[t] EXCEPT !.at = s].def = op[t].def
      /\ [op[t] EXCEPT !.at = s].att = op[t].att
      /\ [op[t] EXCEPT !.at = s].melee = op[t].melee
      BY <1>1 DEF Swings
<1> QED BY <1>2, <1>3, <1>4 DEF OpType

\* Or ends it.
LEMMA EndFacts ==
    ASSUME op \in OpType, NEW t \in Threads, End(t)
    PROVE /\ op' \in OpType /\ op'[t] = Resting
          /\ \A u \in Threads : u # t => op'[u] = op[u]
BY DEF End, OpType

\* A swing that is not at rest is between two bodies.
LEMMA SwingFacts ==
    ASSUME op \in OpType, NEW t \in Threads, op[t].at # "idle"
    PROVE op[t] \in Swings /\ op[t].att \in Bodies /\ op[t].def \in Bodies
BY DEF OpType, Resting, Swings

\* An heir is in the set it is taken from, and who fights nobody has none.
LEMMA HeirFacts ==
    ASSUME NEW b, NEW S
    PROVE /\ HeirsAmong(b, S) \subseteq S \cup {Nil}
          /\ fighting[b] = Nil => HeirsAmong(b, S) = {Nil}
BY DEF HeirsAmong

\* Stopping bodies, each with an heir of its own, leaves the silent silent.
LEMMA SettleFacts ==
    ASSUME CombatShapes, NEW heirs, Settle(heirs),
           \A x \in DOMAIN heirs : /\ heirs[x] \in Bodies \cup {Nil}
                                   /\ fighting[x] = Nil => heirs[x] = Nil
    PROVE /\ fighting' \in FightType /\ list' \subseteq Bodies /\ pair' = [b \in Bodies |-> pair'[b]]
          /\ \A b \in Bodies : Silent(b) => Silent(b)'
<1>1. /\ fighting' = [x \in Bodies |-> IF x \in DOMAIN heirs THEN heirs[x] ELSE fighting[x]]
      /\ pair' = [x \in Bodies |-> IF x \in DOMAIN heirs /\ pair[x] # Nil THEN heirs[x] ELSE pair[x]]
      /\ list' \subseteq list
      BY DEF Settle
<1>2. \A b \in Bodies : Silent(b) => Silent(b)'
      BY <1>1 DEF Silent
<1>3. fighting' \in FightType /\ list' \subseteq Bodies /\ pair' = [b \in Bodies |-> pair'[b]]
      BY <1>1 DEF CombatShapes, FightType
<1> QED BY <1>2, <1>3

\* The same of one body.
LEMMA StopFacts ==
    ASSUME CombatShapes, NEW a, StopCombat(a)
    PROVE /\ fighting' \in FightType /\ list' \subseteq Bodies /\ pair' = [b \in Bodies |-> pair'[b]]
          /\ \A b \in Bodies : Silent(b) => Silent(b)'
<1>1. PICK c \in Heirs(a) : Settle([x \in {a} |-> c])
      BY DEF StopCombat
<1> DEFINE h == [x \in {a} |-> c]
<1>2. \A x \in DOMAIN h : h[x] \in Bodies \cup {Nil} /\ (fighting[x] = Nil => h[x] = Nil)
      BY HeirFacts DEF Heirs, CombatShapes
<1> HIDE DEF h
<1> QED BY <1>1, <1>2, SettleFacts DEF h

\* Enlisting changes two bodies that have not retired.
LEMMA EnlistFacts ==
    ASSUME CombatShapes, NEW a \in Bodies, NEW d \in Bodies, NEW both \in BOOLEAN, MayStart(a, d), Enlist(a, d, both)
    PROVE /\ fighting' \in FightType /\ list' \subseteq Bodies /\ pair' = [b \in Bodies |-> pair'[b]]
          /\ \A b \in Bodies : Quiet(b) => Silent(b)'
<1>1. \A b : Quiet(b) => b # a /\ b # d
      BY DEF Quiet, MayStart
<1>2. /\ pair' = [pair EXCEPT ![a] = d] /\ list' \subseteq list \cup {a, d}
      /\ \E v \in Bodies \cup {Nil} : fighting' = [fighting EXCEPT ![a] = d, ![d] = v]
      BY DEF Enlist, CombatShapes, FightType
<1>3. fighting' \in FightType /\ list' \subseteq Bodies /\ pair' = [b \in Bodies |-> pair'[b]]
      BY <1>2 DEF CombatShapes, FightType
<1>4. \A b \in Bodies : Quiet(b) => Silent(b)'
      BY <1>1, <1>2 DEF CombatShapes, FightType, Quiet, Silent
<1> QED BY <1>3, <1>4

\* A step that takes no body out of the world keeps CombatInv if the dead stay dead,
\* only the dead are marked or killed, and the quiet stay silent.
LEMMA StepKeeps ==
    ASSUME CombatInv, UNCHANGED <<leaving, gone>>, retired \subseteq retired',
           op' \in OpType,
           fighting' \in FightType, list' \subseteq Bodies, pair' = [b \in Bodies |-> pair'[b]],
           health' = [b \in Bodies |-> health'[b]],
           \A b \in Bodies : Dead(b) => Dead(b)',
           \A b \in flagged' : b \in Bodies => b \in flagged \/ Dead(b)',
           \A t \in Threads : op'[t].at \in Fatal => health'[op'[t].def] = "dead",
           \A b \in Bodies : Quiet(b) => Silent(b)'
    PROVE CombatInv'
<1>1. CombatShapes'
      BY DEF CombatInv, CombatShapes
<1>2. DeathsAreReal'
      BY DEF CombatInv, CombatShapes, DeathsAreReal, Dead
<1>3. DepartedQuiet'
      BY DEF CombatInv, DepartedQuiet, Departed, Quiet, Dead
<1> QED BY <1>1, <1>2, <1>3 DEF CombatInv

\* In particular one that changes no more than fighting, list, pair and op.
LEMMA FightStepKeeps ==
    ASSUME CombatInv, UNCHANGED <<health, flagged, leaving, gone>>, retired \subseteq retired',
           fighting' \in FightType, list' \subseteq Bodies, pair' = [b \in Bodies |-> pair'[b]],
           op' \in OpType,
           \A t \in Threads : op'[t].at \in Fatal =>
               op[t].at \in Fatal /\ op'[t].def = op[t].def,
           \A b \in Bodies : Quiet(b) => Silent(b)'
    PROVE CombatInv'
<1>1. health' = [b \in Bodies |-> health'[b]]
      BY DEF CombatInv, CombatShapes
<1>2. \A t \in Threads : op'[t].at \in Fatal => health'[op'[t].def] = "dead"
      BY DEF CombatInv, DeathsAreReal, Dead
<1> QED BY <1>1, <1>2, StepKeeps DEF Dead
-----------------------------------------------------------------------------
(* The swing *)

\* Resting threads and steps that are not fatal need no care.
LEMMA OpFacts ==
    ASSUME op \in OpType, NEW t \in Threads, NEW s \in Steps \ Fatal,
           End(t) \/ (op[t].at # "idle" /\ Goto(t, s))
    PROVE /\ op' \in OpType
          /\ \A u \in Threads : op'[u].at \in Fatal => op[u].at \in Fatal /\ op'[u].def = op[u].def
<1>1. CASE End(t) BY <1>1, EndFacts, StepNames
<1>2. CASE op[t].at # "idle" /\ Goto(t, s)
  <2>1. op'[t].at = s BY <1>2, GotoFacts
  <2> QED BY <1>2, <2>1, GotoFacts
<1> QED BY <1>1, <1>2

\* The turn of a fighter changes the list only by a stop.
LEMMA TurnKeeps ==
    ASSUME CombatInv, NEW a \in Bodies, Turn(a)
    PROVE CombatInv'
<1>1. UNCHANGED <<health, flagged, retired, leaving, gone>>
      BY DEF Turn
<1>2. CASE StopCombat(a) /\ UNCHANGED op
      BY <1>1, <1>2, StopFacts, FightStepKeeps DEF CombatInv, CombatShapes, Quiet
<1>3. CASE /\ op["ticker"] = Resting
           /\ op' = [op EXCEPT !["ticker"] =
                        [at |-> "victim", att |-> a, def |-> fighting[a], melee |-> TRUE]]
           /\ fighting[a] # Nil /\ UNCHANGED <<fighting, list, pair>>
  <2>1. fighting[a] \in Bodies
        BY <1>3 DEF CombatInv, CombatShapes, FightType
  <2> QED BY <1>1, <1>3, <2>1, FightStepKeeps
          DEF CombatInv, CombatShapes, OpType, Swings, Steps, Threads, Fatal, Quiet, Silent
<1> QED BY <1>2, <1>3 DEF Turn

\* A command opens a swing or a skill between two bodies.
LEMMA OpenKeeps ==
    ASSUME CombatInv, NEW a \in Bodies, NEW d \in Bodies, Hit(a, d) \/ Skill(a, d)
    PROVE CombatInv'
<1> DEFINE New(s, m) == [at |-> s, att |-> a, def |-> d, melee |-> m]
<1>1. /\ UNCHANGED <<fighting, health, flagged, retired, gone, list, pair, leaving>>
      /\ \E o \in {New("enrol", TRUE), New("skill", FALSE)} : op' = [op EXCEPT !["command"] = o]
      BY DEF Hit, Skill
<1>2. PICK o \in {New("enrol", TRUE), New("skill", FALSE)} : op' = [op EXCEPT !["command"] = o]
      BY <1>1
<1>3. o \in Swings /\ o.at \notin Fatal
  <2>1. CASE o = New("enrol", TRUE) BY <2>1 DEF Swings, Steps, Fatal
  <2>2. CASE o = New("skill", FALSE) BY <2>2 DEF Swings, Steps, Fatal
  <2> QED BY <2>1, <2>2
<1> HIDE DEF New
<1>4. op' \in OpType /\ op'["command"] = o
      /\ \A t \in Threads : t # "command" => op'[t] = op[t]
      BY <1>2, <1>3 DEF CombatInv, CombatShapes, OpType, Threads
<1> QED BY <1>1, <1>3, <1>4, FightStepKeeps DEF CombatInv, CombatShapes, Threads, Quiet, Silent

\* The attacker is enlisted only if neither has retired.
LEMMA EnrolAttackerKeeps ==
    ASSUME CombatInv, NEW t \in Threads, EnrolAttacker(t)
    PROVE CombatInv'
<1>1. op[t].at # "idle" /\ op \in OpType /\ op[t].att \in Bodies /\ op[t].def \in Bodies
      BY StepNames, SwingFacts DEF EnrolAttacker, CombatInv, CombatShapes
<1>2. /\ UNCHANGED <<health, flagged, retired, leaving, gone>>
      /\ End(t) \/ Goto(t, "victim")
      /\ \/ UNCHANGED <<fighting, list, pair>>
         \/ MayStart(op[t].att, op[t].def) /\ Enlist(op[t].att, op[t].def, FALSE)
      BY DEF EnrolAttacker
<1>3. /\ op' \in OpType
      /\ \A u \in Threads : op'[u].at \in Fatal => op[u].at \in Fatal /\ op'[u].def = op[u].def
      BY <1>1, <1>2, OpFacts DEF Steps, Fatal
<1>4. /\ fighting' \in FightType /\ list' \subseteq Bodies /\ pair' = [b \in Bodies |-> pair'[b]]
      /\ \A b \in Bodies : Quiet(b) => Silent(b)'
      BY <1>1, <1>2, EnlistFacts DEF CombatInv, CombatShapes, Quiet, Silent
<1> QED BY <1>2, <1>3, <1>4, FightStepKeeps

\* Nor does a victim that has retired get an opponent.
LEMMA EnrolVictimKeeps ==
    ASSUME CombatInv, NEW t \in Threads, EnrolVictim(t)
    PROVE CombatInv'
<1> DEFINE a == op[t].att d == op[t].def
<1>1. op[t].at # "idle" /\ op \in OpType /\ a \in Bodies /\ d \in Bodies
      BY StepNames, SwingFacts DEF EnrolVictim, CombatInv, CombatShapes
<1>2. /\ UNCHANGED <<health, flagged, retired, leaving, gone, pair>>
      /\ End(t) \/ Goto(t, "damage")
      /\ \/ UNCHANGED <<fighting, list>>
         \/ d \notin retired /\ fighting' = [fighting EXCEPT ![d] = a] /\ list' = list \cup {d}
      BY DEF EnrolVictim, StillInCombat
<1>3. /\ op' \in OpType
      /\ \A u \in Threads : op'[u].at \in Fatal => op[u].at \in Fatal /\ op'[u].def = op[u].def
      BY <1>1, <1>2, OpFacts DEF Steps, Fatal
<1> HIDE DEF a, d
<1>4. /\ fighting' \in FightType /\ list' \subseteq Bodies /\ pair' = [b \in Bodies |-> pair'[b]]
      /\ \A b \in Bodies : Quiet(b) => Silent(b)'
      BY <1>1, <1>2 DEF CombatInv, CombatShapes, FightType, Quiet, Silent
<1> QED BY <1>2, <1>3, <1>4, FightStepKeeps

\* Any blow may be lethal, and nobody wakes the dead.
LEMMA WorseFacts == \A h : "dead" \in Worse(h) /\ (h = "dead" => Worse(h) = {"dead"})
BY DEF Worse

\* Damage: only the dead go on to die, and the dead stay dead.
LEMMA DamageKeeps ==
    ASSUME CombatInv, NEW t \in Threads, Damage(t) \/ SkillDamage(t)
    PROVE CombatInv'
<1> DEFINE d == op[t].def
<1>1. op[t].at # "idle" /\ op \in OpType /\ d \in Bodies
      BY StepNames, SwingFacts DEF Damage, SkillDamage, CombatInv, CombatShapes
<1>2. PICK h \in Worse(health[d]) :
          /\ health' = [health EXCEPT ![d] = h]
          /\ UNCHANGED <<flagged, retired, gone, list, pair, leaving>>
          /\ fighting' = fighting \/ fighting' = [fighting EXCEPT ![d] = Nil]
          /\ \/ End(t)
             \/ \E s \in {"downed", "after"} : Goto(t, s)
             \/ h = "dead" /\ Goto(t, "dying")
  <2>1. CASE Damage(t)
    <3>1. PICK h \in Worse(health[d]) :
             /\ health' = [health EXCEPT ![d] = h]
             /\ IF op[t].att \in retired \/ d \in retired \/ h = "up"
                THEN End(t) ELSE Goto(t, IF h = "down" THEN "downed" ELSE "dying")
          BY <2>1 DEF Damage
    <3>2. h \in {"up", "down", "dead"}
          BY DEF Worse
    <3> QED BY <2>1, <3>1, <3>2 DEF Damage
  <2>2. CASE SkillDamage(t)
    <3>1. PICK h \in Worse(health[d]) :
             /\ health' = [health EXCEPT ![d] = h]
             /\ fighting' = IF h = "up" THEN fighting ELSE [fighting EXCEPT ![d] = Nil]
             /\ Goto(t, IF h = "dead" THEN "dying" ELSE "after")
          BY <2>2 DEF SkillDamage
    <3> QED BY <2>2, <3>1 DEF SkillDamage
  <2> QED BY <2>1, <2>2
<1>3. /\ op' \in OpType
      /\ \A u \in Threads : u # t => op'[u] = op[u]
      /\ op'[t].at \in Fatal => op'[t].def = d /\ h = "dead"
  <2>1. CASE End(t) BY <1>1, <2>1, EndFacts, StepNames
  <2>2. ASSUME NEW s \in {"downed", "after"}, Goto(t, s)
        PROVE op' \in OpType /\ op'[t].at = s /\ \A u \in Threads : u # t => op'[u] = op[u]
        BY <1>1, <2>2, GotoFacts DEF Steps
  <2>3. CASE h = "dead" /\ Goto(t, "dying")
        BY <1>1, <2>3, GotoFacts DEF Steps
  <2> QED BY <1>2, <2>1, <2>2, <2>3 DEF Fatal
<1> HIDE DEF d
<1>4. /\ health' = [b \in Bodies |-> health'[b]] /\ health'[d] = h
      /\ \A b \in Bodies : b # d => health'[b] = health[b]
      BY <1>1, <1>2 DEF CombatInv, CombatShapes
<1>5. \A b \in Bodies : Dead(b) => Dead(b)'
      BY <1>1, <1>2, <1>4, WorseFacts DEF Dead
<1>6. \A u \in Threads : op'[u].at \in Fatal => health'[op'[u].def] = "dead"
  <2> SUFFICES ASSUME NEW u \in Threads, op'[u].at \in Fatal PROVE health'[op'[u].def] = "dead"
      OBVIOUS
  <2>1. CASE u = t BY <1>3, <1>4, <2>1
  <2>2. CASE u # t
    <3>1. op'[u] = op[u] /\ op[u].at # "idle" BY <1>3, <2>2, StepNames
    <3>2. op[u].def \in Bodies /\ Dead(op[u].def)
          BY <1>1, <3>1, SwingFacts DEF CombatInv, DeathsAreReal
    <3> QED BY <1>5, <3>1, <3>2 DEF Dead
  <2> QED BY <2>1, <2>2
<1>7. /\ fighting' \in FightType /\ list' \subseteq Bodies /\ pair' = [b \in Bodies |-> pair'[b]]
      /\ \A b \in Bodies : Quiet(b) => Silent(b)'
      BY <1>1, <1>2 DEF CombatInv, CombatShapes, FightType, Quiet, Silent
<1> QED BY <1>2, <1>3, <1>4, <1>5, <1>6, <1>7, StepKeeps

\* A stop, of a victim that went down or of a killer.
LEMMA StopKeeps ==
    ASSUME CombatInv, NEW t \in Threads, Downed(t) \/ StopKiller(t)
    PROVE CombatInv'
<1>1. op[t].at # "idle" /\ op \in OpType
      BY StepNames DEF Downed, StopKiller, CombatInv, CombatShapes
<1>2. /\ UNCHANGED <<health, flagged, retired, leaving, gone>>
      /\ End(t) \/ Goto(t, "retire")
      /\ \/ UNCHANGED <<fighting, list, pair>>
         \/ \E a : StopCombat(a)
      BY DEF Downed, StopKiller
<1>3. /\ op' \in OpType
      /\ \A u \in Threads : op'[u].at \in Fatal => op[u].at \in Fatal /\ op'[u].def = op[u].def
      BY <1>1, <1>2, OpFacts DEF Steps, Fatal
<1>4. /\ fighting' \in FightType /\ list' \subseteq Bodies /\ pair' = [b \in Bodies |-> pair'[b]]
      /\ \A b \in Bodies : Quiet(b) => Silent(b)'
      BY <1>2, StopFacts DEF CombatInv, CombatShapes, Quiet, Silent
<1> QED BY <1>2, <1>3, <1>4, FightStepKeeps
-----------------------------------------------------------------------------
(* Death *)

\* Of the thread that goes to a step of dying, the victim is dead already.
LEMMA FatalFacts ==
    ASSUME CombatInv, NEW t \in Threads, op[t].at \in Fatal, NEW s \in Steps, Goto(t, s),
           UNCHANGED health
    PROVE /\ op' \in OpType /\ Dead(op[t].def) /\ op[t].def \in Bodies
          /\ \A u \in Threads : op'[u].at \in Fatal => health'[op'[u].def] = "dead"
<1>1. op[t].at # "idle" /\ op \in OpType /\ Dead(op[t].def)
      BY StepNames DEF CombatInv, CombatShapes, DeathsAreReal
<1>2. /\ op' \in OpType /\ op'[t].def = op[t].def
      /\ \A u \in Threads : u # t => op'[u] = op[u]
      BY <1>1, GotoFacts
<1> QED BY <1>1, <1>2, SwingFacts DEF CombatInv, DeathsAreReal, Dead

\* The claim of a death marks a body that is dead.
LEMMA DieKeeps ==
    ASSUME CombatInv, NEW t \in Threads, Die(t) \/ LatchDying(t)
    PROVE CombatInv'
<1> DEFINE d == op[t].def
<1>1. /\ op[t].at \in Fatal
      /\ UNCHANGED <<fighting, health, retired, gone, list, pair, leaving>>
      /\ flagged' \subseteq flagged \cup {d}
      /\ End(t) \/ \E s \in {"raw", "retire", "killer", "latch"} : Goto(t, s)
      BY DEF Die, LatchDying, Fatal
<1>2. Dead(d)
      BY <1>1 DEF CombatInv, DeathsAreReal
<1>3. op' \in OpType /\ \A u \in Threads : op'[u].at \in Fatal => health'[op'[u].def] = "dead"
  <2>1. CASE End(t)
        BY <1>1, <2>1, EndFacts, StepNames
           DEF CombatInv, CombatShapes, DeathsAreReal, Dead
  <2>2. ASSUME NEW s \in {"raw", "retire", "killer", "latch"}, Goto(t, s)
        PROVE op' \in OpType /\ \A u \in Threads : op'[u].at \in Fatal => health'[op'[u].def] = "dead"
        BY <1>1, <2>2, FatalFacts DEF Steps
  <2> QED BY <1>1, <2>1, <2>2
<1> HIDE DEF d
<1> QED BY <1>1, <1>2, <1>3, StepKeeps
        DEF CombatInv, CombatShapes, Dead, Quiet, Silent

\* raw_kill marks a player's body, and retires a mob's.
LEMMA RawKillKeeps ==
    ASSUME CombatInv, NEW t \in Threads, StopRawKillBody(t)
    PROVE CombatInv'
<1> DEFINE d == op[t].def
<1>1. op[t].at \in Fatal /\ Goto(t, "killer") /\ UNCHANGED <<health, gone, leaving>>
      BY DEF StopRawKillBody, Fatal
<1>2. /\ op' \in OpType /\ Dead(d) /\ d \in Bodies
      /\ \A u \in Threads : op'[u].at \in Fatal => health'[op'[u].def] = "dead"
      BY <1>1, FatalFacts DEF Steps
<1>3. flagged' \subseteq flagged \cup {d} /\ retired \subseteq retired'
      BY DEF StopRawKillBody
<1>4. /\ fighting' \in FightType /\ list' \subseteq Bodies /\ pair' = [b \in Bodies |-> pair'[b]]
      /\ \A b \in Bodies : Quiet(b) => Silent(b)'
  <2>1. CASE d \in Mobs
        BY <2>1, StopFacts DEF StopRawKillBody, CombatInv, Quiet
  <2>2. CASE d \notin Mobs
    <3>1. fighting' = [fighting EXCEPT ![d] = Nil] /\ UNCHANGED <<list, pair>>
          BY <2>2 DEF StopRawKillBody
    <3> QED BY <3>1 DEF CombatInv, CombatShapes, FightType, Quiet, Silent
  <2> QED BY <2>1, <2>2
<1> HIDE DEF d
<1> QED BY <1>1, <1>2, <1>3, <1>4, StepKeeps DEF CombatInv, CombatShapes, Dead

\* retireDeathVictim leaves the victim without an opponent, and the killer as a stop.
LEMMA RetireVictimKeeps ==
    ASSUME CombatInv, NEW t \in Threads, RetireVictim(t)
    PROVE CombatInv'
<1> DEFINE a == op[t].att d == op[t].def
           S == {d} \cup {y \in {a} : fighting[y] # Nil}
           H(c) == [x \in S |-> IF x = d THEN Nil ELSE c]
<1>1. /\ op[t].at = "retire" /\ End(t) /\ retired \subseteq retired'
      /\ UNCHANGED <<health, flagged, gone, leaving>>
      BY DEF RetireVictim
<1>2. PICK c \in Heirs(a) : Settle(H(c))
      BY DEF RetireVictim
<1>3. /\ op' \in OpType
      /\ \A u \in Threads : op'[u].at \in Fatal => op[u].at \in Fatal /\ op'[u].def = op[u].def
      BY <1>1, EndFacts, StepNames DEF CombatInv, CombatShapes
<1>4. c \in Bodies \cup {Nil}
      BY HeirFacts DEF Heirs, CombatInv, CombatShapes
<1>5. \A x \in DOMAIN H(c) : /\ H(c)[x] \in Bodies \cup {Nil}
                             /\ fighting[x] = Nil => H(c)[x] = Nil
      BY <1>4
<1> HIDE DEF H
<1>6. /\ fighting' \in FightType /\ list' \subseteq Bodies /\ pair' = [b \in Bodies |-> pair'[b]]
      /\ \A b \in Bodies : Silent(b) => Silent(b)'
      BY <1>2, <1>5, SettleFacts DEF CombatInv
<1> QED BY <1>1, <1>3, <1>6, FightStepKeeps DEF Quiet

-----------------------------------------------------------------------------
(* Skills, flight and regeneration *)

\* A skill turns only who is up, and so not dead.
LEMMA EnterKeeps ==
    ASSUME CombatInv, NEW t \in Threads, EnterDamageFighting(t)
    PROVE CombatInv'
<1> DEFINE a == op[t].att d == op[t].def
<1>1. op[t].at # "idle" /\ op \in OpType /\ a \in Bodies /\ d \in Bodies
      BY StepNames, SwingFacts DEF EnterDamageFighting, CombatInv, CombatShapes
<1>2. /\ UNCHANGED <<health, flagged, retired, leaving, gone, list, pair>>
      /\ Goto(t, "after") \/ Goto(t, "skilldamage")
      BY DEF EnterDamageFighting
<1>3. /\ op' \in OpType
      /\ \A u \in Threads : op'[u].at \in Fatal => op[u].at \in Fatal /\ op'[u].def = op[u].def
      BY <1>1, <1>2, OpFacts DEF Steps, Fatal
<1>4. /\ fighting' \in FightType
      /\ \A b \in Bodies : health[b] # "up" => fighting'[b] = fighting[b]
  <2> DEFINE f == IF health[a] = "up" /\ fighting[a] = Nil THEN [fighting EXCEPT ![a] = d] ELSE fighting
  <2>1. fighting' = fighting \/ fighting' = (IF health[d] = "up" /\ f[d] = Nil THEN [f EXCEPT ![d] = a] ELSE f)
        BY DEF EnterDamageFighting
  <2>2. f \in FightType /\ \A b \in Bodies : health[b] # "up" => f[b] = fighting[b]
        BY <1>1 DEF CombatInv, CombatShapes, FightType
  <2> HIDE DEF f, a, d
  <2> QED BY <1>1, <2>1, <2>2 DEF CombatInv, CombatShapes, FightType
<1> HIDE DEF a, d
<1>5. \A b \in Bodies : Quiet(b) => Silent(b)'
      BY <1>2, <1>4 DEF Quiet, Dead, Silent
<1> QED BY <1>2, <1>3, <1>4, <1>5, FightStepKeeps DEF CombatInv, CombatShapes
\* The late enrolment refuses who has retired.
LEMMA EnrollAfterKeeps ==
    ASSUME CombatInv, NEW t \in Threads, EnrollAfterDamage(t)
    PROVE CombatInv'
<1> DEFINE a == op[t].att d == op[t].def
<1>1. op[t].at # "idle" /\ op \in OpType /\ a \in Bodies /\ d \in Bodies
      BY StepNames, SwingFacts DEF EnrollAfterDamage, CombatInv, CombatShapes
<1>2. /\ UNCHANGED <<health, flagged, retired, leaving, gone>> /\ End(t)
      /\ \/ UNCHANGED <<fighting, list, pair>>
         \/ \E both \in BOOLEAN : MayStart(a, d) /\ Enlist(a, d, both)
         \/ \E both \in BOOLEAN : MayStart(d, a) /\ Enlist(d, a, both)
      BY DEF EnrollAfterDamage
<1>3. /\ op' \in OpType
      /\ \A u \in Threads : op'[u].at \in Fatal => op[u].at \in Fatal /\ op'[u].def = op[u].def
      BY <1>1, <1>2, EndFacts, StepNames
<1> HIDE DEF a, d
<1>4. /\ fighting' \in FightType /\ list' \subseteq Bodies /\ pair' = [b \in Bodies |-> pair'[b]]
      /\ \A b \in Bodies : Quiet(b) => Silent(b)'
      BY <1>1, <1>2, EnlistFacts DEF CombatInv, CombatShapes, Quiet, Silent
<1> QED BY <1>2, <1>3, <1>4, FightStepKeeps

\* Who flees, and who fought it, stop.
LEMMA FleeKeeps ==
    ASSUME CombatInv, NEW b \in Bodies, Flee(b)
    PROVE CombatInv'
<1> DEFINE out == {x \in here \ {b} : fighting[x] = b}
<1>1. UNCHANGED <<health, flagged, retired, gone, op, leaving>>
      BY DEF Flee
<1>2. PICK heirs \in [out \cup {b} -> Bodies \cup {Nil}] :
          /\ \A x \in out : heirs[x] \in Heirs(x)
          /\ heirs[b] \in HeirsAmong(b, list \ out)
          /\ Settle(heirs)
      BY DEF Flee
<1>3. \A x \in DOMAIN heirs : /\ heirs[x] \in Bodies \cup {Nil}
                              /\ fighting[x] = Nil => heirs[x] = Nil
      BY <1>2, HeirFacts DEF Heirs
<1> HIDE DEF out
<1>4. /\ fighting' \in FightType /\ list' \subseteq Bodies /\ pair' = [x \in Bodies |-> pair'[x]]
      /\ \A x \in Bodies : Silent(x) => Silent(x)'
      BY <1>2, <1>3, SettleFacts DEF CombatInv
<1> QED BY <1>1, <1>4, FightStepKeeps DEF CombatInv, CombatShapes, Quiet

\* Coming back and healing: nobody that is dead is touched.
LEMMA QuietStepKeeps ==
    ASSUME CombatInv, NEW b \in Bodies, Return(b) \/ Heal(b)
    PROVE CombatInv'
<1>1. /\ UNCHANGED <<fighting, flagged, retired, gone, list, pair, op, leaving>>
      /\ UNCHANGED health \/ (health[b] = "down" /\ health' = [health EXCEPT ![b] = "up"])
      BY DEF Return, Heal
<1>2. \A x \in Bodies : Dead(x) => Dead(x)'
      BY <1>1 DEF CombatInv, CombatShapes, Dead
<1>3. \A t \in Threads : op[t].at \in Fatal => op[t].def \in Bodies
      BY SwingFacts, StepNames DEF CombatInv, CombatShapes
<1>4. \A t \in Threads : op'[t].at \in Fatal => health'[op'[t].def] = "dead"
      BY <1>1, <1>2, <1>3 DEF CombatInv, DeathsAreReal, Dead
<1>5. health' = [x \in Bodies |-> health'[x]]
      BY <1>1 DEF CombatInv, CombatShapes
<1> QED BY <1>1, <1>2, <1>4, <1>5, StepKeeps DEF CombatInv, CombatShapes, Quiet, Silent

-----------------------------------------------------------------------------
(* The extraction pass *)

\* Only what is marked, and so dead, is taken in hand.
LEMMA BeginExtractKeeps ==
    ASSUME CombatInv, NEW b \in Bodies, BeginExtract(b)
    PROVE CombatInv'
<1>1. /\ b \in flagged /\ leaving = Nobody /\ flagged' = flagged \ {b}
      /\ leaving' = [at |-> "found", body |-> b, others |-> {x \in Bodies : fighting[x] = b}]
      /\ UNCHANGED <<fighting, health, alive, retired, here, gone, list, pair, op, touched, deaths>>
      BY DEF BeginExtract
<1>2. CombatShapes'
      BY <1>1 DEF CombatInv, CombatShapes
<1>3. DeathsAreReal'
      BY <1>1 DEF CombatInv, DeathsAreReal, Dead
<1>4. DepartedQuiet'
      BY <1>1 DEF CombatInv, DepartedQuiet, Departed, Quiet, Silent, Dead
<1> QED BY <1>2, <1>3, <1>4 DEF CombatInv

\* RetireCombatant makes it quiet, and who fought it stops.
LEMMA RetireCombatantKeeps ==
    ASSUME CombatInv, RetireCombatant
    PROVE CombatInv'
<1> DEFINE b == leaving.body
           out == {b} \cup {x \in list : fighting[x] = b}
<1>1. /\ leaving.at = "found" /\ leaving' = [leaving EXCEPT !.at = "retired"]
      /\ retired' = retired \cup {b}
      /\ UNCHANGED <<health, alive, flagged, here, gone, op, touched, deaths>>
      BY DEF RetireCombatant
<1>2. PICK heirs \in [out -> Bodies \cup {Nil}] :
          /\ heirs[b] = Nil /\ \A x \in out \ {b} : heirs[x] \in Heirs(x)
          /\ fighting' = [x \in Bodies |-> IF x \in out THEN heirs[x] ELSE fighting[x]]
          /\ list' = list \ {x \in out : heirs[x] = Nil}
          /\ pair' = [x \in Bodies |-> IF x \in out /\ pair[x] # Nil THEN heirs[x]
                                       ELSE IF pair[x] = b THEN Nil ELSE pair[x]]
      BY DEF RetireCombatant, Parting
<1>3. b \in Bodies /\ Dead(b)
      BY <1>1 DEF CombatInv, CombatShapes, DeathsAreReal
<1>4. leaving' = [at |-> "retired", body |-> b, others |-> leaving.others]
      BY <1>1 DEF CombatInv, CombatShapes
<1>5. CombatShapes'
  <2>1. fighting' \in FightType
        BY <1>2 DEF CombatInv, CombatShapes, FightType
  <2>2. pair' = [x \in Bodies |-> pair'[x]] /\ list' \subseteq Bodies
        BY <1>2 DEF CombatInv, CombatShapes
  <2> HIDE DEF b
  <2> QED BY <1>1, <1>3, <1>4, <2>1, <2>2 DEF CombatInv, CombatShapes
<1>6. DeathsAreReal'
  <2> HIDE DEF b
  <2> QED BY <1>1, <1>3, <1>4 DEF CombatInv, DeathsAreReal, Dead
<1>7. fighting'[b] = Nil /\ b \notin list' /\ pair'[b] = Nil
      BY <1>2, <1>3
<1>8. ASSUME NEW x \in Bodies, Silent(x), x # b PROVE Silent(x)'
  <2>1. x \notin out
        BY <1>8 DEF Silent
  <2> HIDE DEF b, out
  <2> QED BY <1>2, <1>8, <2>1 DEF Silent
<1> HIDE DEF b
<1>9. DepartedQuiet'
  <2> SUFFICES ASSUME NEW x \in Bodies, Departed(x)' PROVE Quiet(x)'
      BY DEF DepartedQuiet
  <2>1. CASE x = b BY <1>1, <1>3, <1>7, <2>1 DEF Quiet, Silent, Dead
  <2>2. CASE x # b
    <3>1. Quiet(x) BY <1>1, <1>4, <2>2 DEF CombatInv, DepartedQuiet, Departed
    <3> QED BY <1>1, <1>8, <2>2, <3>1 DEF Quiet, Dead
  <2> QED BY <2>1, <2>2
<1> QED BY <1>5, <1>6, <1>9 DEF CombatInv

\* The rest of the pass stops who fought it, and it is gone.
LEMMA EndExtractKeeps ==
    ASSUME CombatInv, EndExtract
    PROVE CombatInv'
<1> DEFINE b == leaving.body
           out == {x \in leaving.others : fighting[x] = b}
<1>1. /\ leaving.at = "retired" /\ leaving' = Nobody /\ gone' = gone \cup {b}
      /\ UNCHANGED <<health, alive, flagged, retired, op, touched, deaths>>
      BY DEF EndExtract
<1>2. PICK heirs \in [out -> Bodies \cup {Nil}] :
          (\A x \in out : heirs[x] \in Heirs(x)) /\ Settle(heirs)
      BY DEF EndExtract
<1>3. \A x \in DOMAIN heirs : /\ heirs[x] \in Bodies \cup {Nil}
                              /\ fighting[x] = Nil => heirs[x] = Nil
      BY <1>2, HeirFacts DEF Heirs
<1>4. b \in Bodies
      BY <1>1 DEF CombatInv, CombatShapes
<1> HIDE DEF b, out
<1>5. /\ fighting' \in FightType /\ list' \subseteq Bodies /\ pair' = [x \in Bodies |-> pair'[x]]
      /\ \A x \in Bodies : Silent(x) => Silent(x)'
      BY <1>2, <1>3, SettleFacts DEF CombatInv
<1>6. CombatShapes'
      BY <1>1, <1>4, <1>5 DEF CombatInv, CombatShapes, Nobody
<1>7. DeathsAreReal'
      BY <1>1 DEF CombatInv, DeathsAreReal, Dead, Nobody
<1>8. DepartedQuiet'
      BY <1>1, <1>5 DEF b, CombatInv, DepartedQuiet, Departed, Quiet, Dead, Nobody
<1> QED BY <1>6, <1>7, <1>8 DEF CombatInv

-----------------------------------------------------------------------------
(* The theorems *)

\* At the start nobody fights and nobody is dead.
LEMMA CombatInvInit == CombatInit => CombatInv
BY CombatAssumption
DEF CombatInit, CombatInv, CombatShapes, OpType, FightType, DeathsAreReal, DepartedQuiet,
    Departed, Quiet, Fatal, Resting, Nobody

\* Every step keeps CombatInv.
LEMMA CombatInvNext == CombatInv /\ [CombatNext]_combatVars => CombatInv'
<1> SUFFICES ASSUME CombatInv, [CombatNext]_combatVars PROVE CombatInv'
    OBVIOUS
<1>1. ASSUME NEW t \in Threads, Swing(t) PROVE CombatInv'
      BY <1>1, EnrolAttackerKeeps, EnrolVictimKeeps, DamageKeeps, StopKeeps, DieKeeps,
         RawKillKeeps, RetireVictimKeeps, EnterKeeps, EnrollAfterKeeps DEF Swing
<1>2. CASE Extract
      BY <1>2, BeginExtractKeeps, RetireCombatantKeeps, EndExtractKeeps DEF Extract
<1>3. CASE UNCHANGED combatVars
      BY <1>3 DEF combatVars, CombatInv, CombatShapes, DeathsAreReal, DepartedQuiet,
                 Departed, Quiet, Silent, Dead
<1> QED BY <1>1, <1>2, <1>3, TurnKeeps, OpenKeeps, FleeKeeps, QuietStepKeeps DEF CombatNext

\* Whatever swing was in the air when the extraction pass came, a body that was
\* extracted has no turn, no pair and no opponent left.
THEOREM ExtractedIsOut == CombatSpec => []GoneLeavesCombat
<1>1. CombatInv => GoneLeavesCombat
      BY DEF CombatInv, CombatShapes, DepartedQuiet, Departed, Quiet, Silent, GoneLeavesCombat
<1> QED BY <1>1, CombatInvInit, CombatInvNext, PTL DEF CombatSpec

\* A mob whose death is not claimed has not been paid out, and the claim is for good.
ClaimOnce == /\ deaths = [b \in Bodies |-> deaths[b]]
             /\ \A b \in Bodies \cap Mobs : deaths[b] \in {0, 1} /\ (b \in alive => deaths[b] = 0)

\* One thread of two that kill a mob pays its death out.
LEMMA ClaimOnceNext == ClaimOnce /\ [CombatNext]_combatVars => ClaimOnce'
<1> SUFFICES ASSUME ClaimOnce, [CombatNext]_combatVars PROVE ClaimOnce'
    OBVIOUS
<1>1. ASSUME NEW t \in Threads, Die(t) \/ LatchDying(t) PROVE ClaimOnce'
  <2> DEFINE d == op[t].def
  <2>1. \/ d \in alive /\ alive' = alive \ {d} /\ deaths' = [deaths EXCEPT ![d] = @ + 1]
        \/ UNCHANGED <<alive, deaths>>
        BY <1>1 DEF Die, LatchDying, Claims
  <2> HIDE DEF d
  <2> QED BY <2>1 DEF ClaimOnce
<1>2. ASSUME NEW t \in Threads, StopRawKillBody(t) PROVE ClaimOnce'
  <2>1. deaths' = deaths /\ \A b \in Mobs : b \in alive' => b \in alive
        BY <1>2 DEF StopRawKillBody
  <2> QED BY <2>1 DEF ClaimOnce
<1>3. ASSUME NEW t \in Threads, Swing(t), ~(Die(t) \/ LatchDying(t) \/ StopRawKillBody(t))
      PROVE UNCHANGED <<alive, deaths>>
      BY <1>3 DEF Swing, EnrolAttacker, EnrolVictim, Damage, Downed, StopKiller, RetireVictim,
                 EnterDamageFighting, SkillDamage, EnrollAfterDamage
<1>4. CASE Extract
      BY <1>4 DEF Extract, BeginExtract, RetireCombatant, EndExtract, ClaimOnce
<1>5. ASSUME NEW a \in Bodies,
             Turn(a) \/ Flee(a) \/ Return(a) \/ Heal(a) \/ \E d \in Bodies : Hit(a, d) \/ Skill(a, d)
      PROVE UNCHANGED <<alive, deaths>>
      BY <1>5 DEF Turn, Flee, Return, Heal, Hit, Skill
<1>6. UNCHANGED <<alive, deaths>> => ClaimOnce'
      BY DEF ClaimOnce
<1> QED BY <1>1, <1>2, <1>3, <1>4, <1>5, <1>6 DEF CombatNext, combatVars

-----------------------------------------------------------------------------
(* Field, list and pair *)

\* They agree about a body ...
Agrees(b) == (fighting[b] # Nil <=> b \in list) /\ pair[b] \in {Nil, fighting[b]}

\* ... unless it was killed by a swing that is still to retire it.
Pending(b) ==
    \E t \in Threads : op[t].def = b /\ op[t].melee /\ op[t].at \in {"killer", "retire"}

\* Who fights is listed in any case, and nobody fights what has been taken out of
\* combat.
Story(b) ==
    /\ fighting[b] # Nil => b \in list
    /\ Pending(b) \/ Agrees(b)
    /\ fighting[b] \notin gone
    /\ leaving.at = "retired" => fighting[b] # leaving.body

\* The engine's own steps belong to a melee swing, and what is not melee has
\* touched the two bodies before it changes anything.
InTouch(t) == {op[t].att, op[t].def} \subseteq touched
StageOK(t) ==
    /\ op[t].at \in {"enrol", "victim", "damage", "downed", "retire"} => op[t].melee
    /\ op[t].at \in {"dying", "latch", "raw", "killer"} => op[t].melee \/ InTouch(t)
    /\ op[t].at = "skilldamage" => InTouch(t)
    /\ op[t].at = "after" => health[op[t].def] = "dead" \/ InTouch(t)
SwingStages == \A t \in Threads : StageOK(t)

OutRetired == gone \subseteq retired /\ (leaving.at = "retired" => leaving.body \in retired)

MeleeInv == SwingStages /\ OutRetired /\ \A b \in Bodies \ touched : Story(b)

\* The dead stay dead.
LEMMA DeadStay ==
    ASSUME CombatInv, [CombatNext]_combatVars
    PROVE \A b \in Bodies : Dead(b) => Dead(b)'
<1>1. UNCHANGED health => \A b \in Bodies : Dead(b) => Dead(b)'
      BY DEF Dead
<1>2. ASSUME NEW t \in Threads, Damage(t) \/ SkillDamage(t)
      PROVE \A b \in Bodies : Dead(b) => Dead(b)'
  <2>1. PICK h \in Worse(health[op[t].def]) : health' = [health EXCEPT ![op[t].def] = h]
        BY <1>2 DEF Damage, SkillDamage
  <2> QED BY <2>1, WorseFacts DEF CombatInv, CombatShapes, Dead
<1>3. ASSUME NEW b \in Bodies, Heal(b) PROVE \A c \in Bodies : Dead(c) => Dead(c)'
      BY <1>3 DEF Heal, CombatInv, CombatShapes, Dead
<1>4. ASSUME NEW t \in Threads, Swing(t), ~(Damage(t) \/ SkillDamage(t)) PROVE UNCHANGED health
      BY <1>4 DEF Swing, EnrolAttacker, EnrolVictim, Downed, Die, LatchDying, StopRawKillBody,
                 StopKiller, RetireVictim, EnterDamageFighting, EnrollAfterDamage
<1>5. ASSUME NEW a \in Bodies,
             Turn(a) \/ Flee(a) \/ Return(a) \/ \E d \in Bodies : Hit(a, d) \/ Skill(a, d)
      PROVE UNCHANGED health
      BY <1>5 DEF Turn, Flee, Return, Hit, Skill
<1>6. CASE Extract
      BY <1>1, <1>6 DEF Extract, BeginExtract, RetireCombatant, EndExtract
<1> QED BY <1>1, <1>2, <1>3, <1>4, <1>5, <1>6 DEF CombatNext, combatVars

-----------------------------------------------------------------------------
(* The stages of a swing *)

\* A step of one thread keeps the others where they belong.
LEMMA StagesKept ==
    ASSUME CombatInv, SwingStages, touched \subseteq touched',
           \A b \in Bodies : Dead(b) => Dead(b)',
           NEW t \in Threads, \A u \in Threads : u # t => op'[u] = op[u], StageOK(t)'
    PROVE SwingStages'
<1> SUFFICES ASSUME NEW u \in Threads, u # t PROVE StageOK(u)'
    BY DEF SwingStages
<1>1. op'[u] = op[u] /\ StageOK(u)
      BY DEF SwingStages
<1>2. op[u].at = "after" => op[u].def \in Bodies
      BY SwingFacts DEF CombatInv, CombatShapes
<1> QED BY <1>1, <1>2 DEF StageOK, InTouch, Dead

\* A thread at rest is nowhere.
LEMMA EndStage ==
    ASSUME CombatInv, NEW t \in Threads, End(t)
    PROVE /\ StageOK(t)'
          /\ \A u \in Threads : u # t => op'[u] = op[u]
<1>1. op'[t] = Resting /\ \A u \in Threads : u # t => op'[u] = op[u]
      BY EndFacts DEF CombatInv, CombatShapes
<1> QED BY <1>1 DEF StageOK, Resting

\* A thread that goes on keeps its two bodies and its kind.
LEMMA GotoStage ==
    ASSUME CombatInv, SwingStages, NEW t \in Threads, op[t].at # "idle", NEW s \in Steps, Goto(t, s),
           touched \subseteq touched'
    PROVE /\ op'[t].at = s /\ op'[t].melee = op[t].melee
          /\ op'[t].att = op[t].att /\ op'[t].def = op[t].def /\ op[t].def \in Bodies
          /\ \A u \in Threads : u # t => op'[u] = op[u]
          /\ StageOK(t) /\ (InTouch(t) => InTouch(t)')
<1>1. op \in OpType
      BY DEF CombatInv, CombatShapes
<1>2. /\ op'[t].at = s /\ op'[t].def = op[t].def /\ op'[t].att = op[t].att
      /\ op'[t].melee = op[t].melee
      /\ \A u \in Threads : u # t => op'[u] = op[u]
      BY <1>1, GotoFacts
<1>3. op[t].def \in Bodies
      BY <1>1, SwingFacts
<1> QED BY <1>2, <1>3 DEF InTouch, SwingStages

\* The steps of a melee swing.
LEMMA MeleeStages ==
    ASSUME CombatInv, SwingStages, \A b \in Bodies : Dead(b) => Dead(b)', NEW t \in Threads,
           EnrolAttacker(t) \/ EnrolVictim(t) \/ Damage(t) \/ Downed(t) \/ RetireVictim(t)
    PROVE SwingStages'
<1>1. UNCHANGED touched /\ op[t].at # "idle" /\ op[t].at \in {"enrol", "victim", "damage", "downed", "retire"}
      BY DEF EnrolAttacker, EnrolVictim, Damage, Downed, RetireVictim
<1>2. End(t) \/ \E s \in {"victim", "damage", "downed", "dying"} : Goto(t, s)
      BY DEF EnrolAttacker, EnrolVictim, Damage, Downed, RetireVictim
<1>3. CASE End(t)
      BY <1>1, <1>3, EndStage, StagesKept
<1>4. ASSUME NEW s \in {"victim", "damage", "downed", "dying"}, Goto(t, s) PROVE SwingStages'
  <2>1. s \in Steps
        BY DEF Steps
  <2>2. /\ op'[t].at = s /\ op'[t].melee = op[t].melee /\ StageOK(t)
        /\ \A u \in Threads : u # t => op'[u] = op[u]
        BY <1>1, <1>4, <2>1, GotoStage
  <2>3. StageOK(t)'
        BY <1>1, <2>2 DEF StageOK
  <2> QED BY <1>1, <2>2, <2>3, StagesKept
<1> QED BY <1>2, <1>3, <1>4

\* The steps of dying.
LEMMA DyingStages ==
    ASSUME CombatInv, SwingStages, \A b \in Bodies : Dead(b) => Dead(b)', NEW t \in Threads,
           Die(t) \/ LatchDying(t) \/ StopRawKillBody(t) \/ StopKiller(t)
    PROVE SwingStages'
<1>1. UNCHANGED touched /\ op[t].at # "idle" /\ op[t].at \in {"dying", "latch", "raw", "killer"}
      BY DEF Die, LatchDying, StopRawKillBody, StopKiller
<1>2. \/ End(t)
      \/ \E s \in {"raw", "latch", "killer"} : Goto(t, s)
      \/ op[t].melee /\ Goto(t, "retire")
      BY DEF Die, LatchDying, StopRawKillBody, StopKiller
<1>3. CASE End(t)
      BY <1>1, <1>3, EndStage, StagesKept
<1>4. ASSUME NEW s \in {"raw", "latch", "killer"}, Goto(t, s) PROVE SwingStages'
  <2>1. s \in Steps
        BY DEF Steps
  <2>2. /\ op'[t].at = s /\ op'[t].melee = op[t].melee /\ StageOK(t)
        /\ InTouch(t) => InTouch(t)'
        /\ \A u \in Threads : u # t => op'[u] = op[u]
        BY <1>1, <1>4, <2>1, GotoStage
  <2>3. StageOK(t)'
        BY <1>1, <2>2 DEF StageOK
  <2> QED BY <1>1, <2>2, <2>3, StagesKept
<1>5. CASE op[t].melee /\ Goto(t, "retire")
  <2>1. "retire" \in Steps
        BY DEF Steps
  <2>2. /\ op'[t].at = "retire" /\ op'[t].melee = op[t].melee
        /\ \A u \in Threads : u # t => op'[u] = op[u]
        BY <1>1, <1>5, <2>1, GotoStage
  <2>3. StageOK(t)'
        BY <1>5, <2>2 DEF StageOK
  <2> QED BY <1>1, <2>2, <2>3, StagesKept
<1> QED BY <1>2, <1>3, <1>4, <1>5

\* The steps of a skill.
LEMMA SkillStages ==
    ASSUME CombatInv, SwingStages, \A b \in Bodies : Dead(b) => Dead(b)', NEW t \in Threads,
           EnterDamageFighting(t) \/ SkillDamage(t) \/ EnrollAfterDamage(t)
    PROVE SwingStages'
<1>1. CASE EnterDamageFighting(t)
  <2>1. /\ op[t].at # "idle" /\ UNCHANGED health /\ touched \subseteq touched'
        /\ \/ health[op[t].def] = "dead" /\ Goto(t, "after")
           \/ Goto(t, "skilldamage") /\ {op[t].att, op[t].def} \subseteq touched'
        BY <1>1 DEF EnterDamageFighting
  <2>2. "after" \in Steps /\ "skilldamage" \in Steps
        BY DEF Steps
  <2>3. CASE health[op[t].def] = "dead" /\ Goto(t, "after")
    <3>1. /\ op'[t].at = "after" /\ op'[t].def = op[t].def
          /\ \A u \in Threads : u # t => op'[u] = op[u]
          BY <2>1, <2>2, <2>3, GotoStage
    <3>2. StageOK(t)'
          BY <2>1, <2>3, <3>1 DEF StageOK
    <3> QED BY <2>1, <3>1, <3>2, StagesKept
  <2>4. CASE Goto(t, "skilldamage") /\ {op[t].att, op[t].def} \subseteq touched'
    <3>1. /\ op'[t].at = "skilldamage" /\ op'[t].def = op[t].def /\ op'[t].att = op[t].att
          /\ \A u \in Threads : u # t => op'[u] = op[u]
          BY <2>1, <2>2, <2>4, GotoStage
    <3>2. StageOK(t)'
          BY <2>4, <3>1 DEF StageOK, InTouch
    <3> QED BY <2>1, <3>1, <3>2, StagesKept
  <2> QED BY <2>1, <2>3, <2>4
<1>2. CASE SkillDamage(t)
  <2>1. /\ op[t].at = "skilldamage" /\ op[t].at # "idle" /\ UNCHANGED touched
        /\ \E s \in {"dying", "after"} : Goto(t, s)
        BY <1>2 DEF SkillDamage
  <2>2. PICK s \in {"dying", "after"} : Goto(t, s)
        BY <2>1
  <2>3. s \in Steps
        BY DEF Steps
  <2>4. /\ op'[t].at = s /\ StageOK(t) /\ (InTouch(t) => InTouch(t)')
        /\ \A u \in Threads : u # t => op'[u] = op[u]
        BY <2>1, <2>2, <2>3, GotoStage
  <2>5. StageOK(t)'
        BY <2>1, <2>4 DEF StageOK
  <2> QED BY <2>1, <2>4, <2>5, StagesKept
<1>3. CASE EnrollAfterDamage(t)
      BY <1>3, EndStage, StagesKept DEF EnrollAfterDamage
<1> QED BY <1>1, <1>2, <1>3

\* The steps that begin a swing, and those that leave the threads alone.
LEMMA OpeningStages ==
    ASSUME CombatInv, SwingStages, \A b \in Bodies : Dead(b) => Dead(b)', NEW a \in Bodies,
           Turn(a) \/ \E d \in Bodies : Hit(a, d) \/ Skill(a, d)
    PROVE SwingStages'
<1>1. UNCHANGED touched
      BY DEF Turn, Hit, Skill
<1>2. CASE UNCHANGED op
  <2>1. "ticker" \in Threads /\ \A t \in Threads : op[t].at = "after" => op[t].def \in Bodies
        BY SwingFacts DEF CombatInv, CombatShapes, Threads
  <2> QED BY <1>1, <1>2, <2>1 DEF SwingStages, StageOK, InTouch, Dead
<1>3. ASSUME NEW t \in Threads, NEW d, NEW o \in {[at |-> "victim", att |-> a, def |-> d, melee |-> TRUE],
                  [at |-> "enrol", att |-> a, def |-> d, melee |-> TRUE],
                  [at |-> "skill", att |-> a, def |-> d, melee |-> FALSE]},
             op' = [op EXCEPT ![t] = o]
      PROVE SwingStages'
  <2>1. op'[t] = o /\ \A u \in Threads : u # t => op'[u] = op[u]
        BY <1>3 DEF CombatInv, CombatShapes, OpType
  <2>2. StageOK(t)'
        BY <2>1 DEF StageOK
  <2> QED BY <1>1, <2>1, <2>2, StagesKept
<1>4. "ticker" \in Threads /\ "command" \in Threads
      BY DEF Threads
<1>5. CASE Turn(a)
  <2>1. UNCHANGED op
        \/ op' = [op EXCEPT !["ticker"] =
                     [at |-> "victim", att |-> a, def |-> fighting[a], melee |-> TRUE]]
        BY <1>5 DEF Turn
  <2> QED BY <1>2, <1>3, <1>4, <2>1
<1>6. ASSUME NEW d \in Bodies, Hit(a, d) \/ Skill(a, d) PROVE SwingStages'
  <2>1. \/ op' = [op EXCEPT !["command"] = [at |-> "enrol", att |-> a, def |-> d, melee |-> TRUE]]
        \/ op' = [op EXCEPT !["command"] = [at |-> "skill", att |-> a, def |-> d, melee |-> FALSE]]
        BY <1>6 DEF Hit, Skill
  <2> QED BY <1>3, <1>4, <2>1
<1> QED BY <1>5, <1>6

\* Every step keeps the threads where they belong.
LEMMA StagesNext == CombatInv /\ SwingStages /\ [CombatNext]_combatVars => SwingStages'
<1> SUFFICES ASSUME CombatInv, SwingStages, [CombatNext]_combatVars PROVE SwingStages'
    OBVIOUS
<1>1. \A b \in Bodies : Dead(b) => Dead(b)'
      BY DeadStay
<1>2. ASSUME NEW t \in Threads, Swing(t) PROVE SwingStages'
      BY <1>1, <1>2, MeleeStages, DyingStages, SkillStages DEF Swing
<1>3. ASSUME UNCHANGED <<op, touched>> PROVE SwingStages'
  <2>1. \A t \in Threads : op[t].at = "after" => op[t].def \in Bodies
        BY SwingFacts DEF CombatInv, CombatShapes
  <2> QED BY <1>1, <1>3, <2>1 DEF SwingStages, StageOK, InTouch, Dead
<1>4. ASSUME NEW a \in Bodies,
             Turn(a) \/ Flee(a) \/ Return(a) \/ Heal(a) \/ \E d \in Bodies : Hit(a, d) \/ Skill(a, d)
      PROVE SwingStages'
      BY <1>1, <1>3, <1>4, OpeningStages DEF Flee, Return, Heal
<1>5. CASE Extract
      BY <1>3, <1>5 DEF Extract, BeginExtract, RetireCombatant, EndExtract
<1> QED BY <1>2, <1>3, <1>4, <1>5 DEF CombatNext, combatVars

\* What the extraction pass has taken out of combat has retired.
LEMMA OutRetiredNext == CombatInv /\ OutRetired /\ [CombatNext]_combatVars => OutRetired'
<1> SUFFICES ASSUME CombatInv, OutRetired, [CombatNext]_combatVars PROVE OutRetired'
    OBVIOUS
<1>1. UNCHANGED <<leaving, gone>> /\ retired \subseteq retired' => OutRetired'
      BY DEF OutRetired
<1>2. ASSUME NEW t \in Threads, Swing(t)
      PROVE UNCHANGED <<leaving, gone>> /\ retired \subseteq retired'
      BY <1>2 DEF Swing, EnrolAttacker, EnrolVictim, Damage, Downed, Die, LatchDying,
                 StopRawKillBody, StopKiller, RetireVictim, EnterDamageFighting, SkillDamage,
                 EnrollAfterDamage
<1>3. ASSUME NEW a \in Bodies,
             Turn(a) \/ Flee(a) \/ Return(a) \/ Heal(a) \/ \E d \in Bodies : Hit(a, d) \/ Skill(a, d)
      PROVE UNCHANGED <<leaving, gone>> /\ retired \subseteq retired'
      BY <1>3 DEF Turn, Flee, Return, Heal, Hit, Skill
<1>4. ASSUME NEW b \in Bodies, BeginExtract(b) PROVE OutRetired'
      BY <1>4 DEF BeginExtract, OutRetired
<1>5. CASE RetireCombatant
      BY <1>5 DEF RetireCombatant, OutRetired, CombatInv, CombatShapes
<1>6. CASE EndExtract
      BY <1>6 DEF EndExtract, OutRetired, Nobody
<1> QED BY <1>1, <1>2, <1>3, <1>4, <1>5, <1>6 DEF CombatNext, combatVars, Extract

-----------------------------------------------------------------------------
(* What a step does to the story of a body *)

\* It leaves field, list and pair of a body alone.
Same(b) ==
    /\ fighting'[b] = fighting[b] /\ pair'[b] = pair[b]
    /\ b \in list' <=> b \in list

\* It makes them agree, on an opponent that has not retired.
Settled(b) == Agrees(b)' /\ fighting'[b] \in (Bodies \ retired) \cup {Nil}

\* A body that is left alone keeps its story, if its killer is still there.
LEMMA StoryKept ==
    ASSUME UNCHANGED <<gone, leaving>>, NEW b \in Bodies, Story(b), Same(b),
           Pending(b) => Pending(b)'
    PROVE Story(b)'
BY DEF Story, Same, Agrees

\* One that is settled has one.
LEMMA StorySettled ==
    ASSUME CombatInv, OutRetired, UNCHANGED <<gone, leaving>>, NEW b \in Bodies, Settled(b)
    PROVE Story(b)'
<1>1. Nil \notin gone /\ (leaving.at = "retired" => leaving.body # Nil)
      BY CombatAssumption DEF CombatInv, CombatShapes
<1> QED BY <1>1 DEF Story, Settled, Agrees, OutRetired

\* Only a thread about to retire its victim has something pending.
LEMMA PendingKept ==
    ASSUME NEW t \in Threads, \A u \in Threads : u # t => op'[u] = op[u],
           NEW b, \/ op[t].at \notin {"killer", "retire"}
                  \/ ~op[t].melee
                  \/ op[t].def # b
    PROVE Pending(b) => Pending(b)'
BY DEF Pending

\* An heir is a listed body that has not retired.
LEMMA HeirStands ==
    ASSUME CombatInv, NEW x, NEW S, S \subseteq Bodies, NEW c \in HeirsAmong(x, S)
    PROVE /\ c \in (Bodies \ retired) \cup {Nil}
          /\ c # Nil => fighting[x] # Nil /\ ~Dead(c)
BY DEF HeirsAmong, Dead

\* Whoever stops, with an heir of its own, agrees.
LEMMA SettleStory ==
    ASSUME CombatInv, NEW heirs, Settle(heirs),
           \A x \in DOMAIN heirs : /\ heirs[x] \in (Bodies \ retired) \cup {Nil}
                                   /\ heirs[x] # Nil => fighting[x] # Nil,
           NEW b \in Bodies, fighting[b] # Nil => b \in list
    PROVE IF b \in DOMAIN heirs THEN Settled(b) ELSE Same(b)
<1>1. /\ fighting'[b] = (IF b \in DOMAIN heirs THEN heirs[b] ELSE fighting[b])
      /\ pair'[b] = (IF b \in DOMAIN heirs /\ pair[b] # Nil THEN heirs[b] ELSE pair[b])
      /\ b \in list' <=> b \in list /\ ~(b \in DOMAIN heirs /\ heirs[b] = Nil)
      BY DEF Settle
<1>2. CASE b \in DOMAIN heirs
      BY <1>1, <1>2 DEF Settled, Agrees
<1>3. CASE b \notin DOMAIN heirs
      BY <1>1, <1>3 DEF Same
<1> QED BY <1>2, <1>3

\* A plain stop settles one body.
LEMMA StopStory ==
    ASSUME CombatInv, NEW a, StopCombat(a), NEW b \in Bodies, fighting[b] # Nil => b \in list
    PROVE IF b = a THEN Settled(b) ELSE Same(b)
<1>1. PICK c \in Heirs(a) : Settle([x \in {a} |-> c])
      BY DEF StopCombat
<1>2. /\ c \in (Bodies \ retired) \cup {Nil}
      /\ c # Nil => fighting[a] # Nil
      BY HeirStands DEF Heirs, CombatInv, CombatShapes
<1> DEFINE h == [x \in {a} |-> c]
<1>3. \A x \in DOMAIN h : /\ h[x] \in (Bodies \ retired) \cup {Nil}
                          /\ h[x] # Nil => fighting[x] # Nil
      BY <1>2
<1>4. DOMAIN h = {a}
      OBVIOUS
<1> HIDE DEF h
<1>5. IF b \in DOMAIN h THEN Settled(b) ELSE Same(b)
      BY <1>1, <1>3, SettleStory DEF h
<1> QED BY <1>4, <1>5

\* A step of one thread that is not about to retire its victim: the story of every
\* body goes on if the step leaves it alone or settles it.
LEMMA StoriesKept ==
    ASSUME CombatInv, OutRetired, UNCHANGED <<gone, leaving>>,
           NEW t \in Threads, \A u \in Threads : u # t => op'[u] = op[u],
           NEW b \in Bodies, Story(b), Same(b) \/ Settled(b),
           op[t].at \notin {"killer", "retire"} \/ ~op[t].melee \/ op[t].def # b
    PROVE Story(b)'
BY StoryKept, StorySettled, PendingKept

\* An ending or a going on leaves the other threads.
LEMMA OthersStay ==
    ASSUME CombatInv, NEW t \in Threads,
           End(t) \/ (op[t].at # "idle" /\ \E s \in Steps : Goto(t, s))
    PROVE \A u \in Threads : u # t => op'[u] = op[u]
BY EndFacts, GotoFacts DEF CombatInv, CombatShapes

-----------------------------------------------------------------------------
(* The steps of a swing *)

\* A turn, a hit and a skill that begins.
LEMMA OpeningStory ==
    ASSUME CombatInv, OutRetired, NEW a \in Bodies,
           Turn(a) \/ \E d \in Bodies : Hit(a, d) \/ Skill(a, d),
           NEW b \in Bodies, Story(b)
    PROVE Story(b)'
<1>1. PICK t \in Threads : /\ op[t] = Resting
                           /\ \A u \in Threads : u # t => op'[u] = op[u]
  <2>1. CASE Turn(a)
    <3>1. op["ticker"] = Resting /\ "ticker" \in Threads
          BY <2>1 DEF Turn, Threads
    <3>2. \E o : op' = [op EXCEPT !["ticker"] = o]
      <4>1. op' = op \/ \E o : op' = [op EXCEPT !["ticker"] = o]
            BY <2>1 DEF Turn
      <4>2. op = [op EXCEPT !["ticker"] = op["ticker"]]
            BY DEF CombatInv, CombatShapes, OpType
      <4> QED BY <4>1, <4>2
    <3> QED BY <3>1, <3>2 DEF CombatInv, CombatShapes, OpType
  <2>2. ASSUME NEW d \in Bodies, Hit(a, d) \/ Skill(a, d)
        PROVE /\ op["command"] = Resting
              /\ \A u \in Threads : u # "command" => op'[u] = op[u]
        BY <2>2 DEF Hit, Skill, CombatInv, CombatShapes, OpType
  <2> QED BY <2>1, <2>2 DEF Threads
<1>2. UNCHANGED <<gone, leaving>>
      /\ (UNCHANGED <<fighting, list, pair>> \/ StopCombat(a))
      BY DEF Turn, Hit, Skill
<1>3. Same(b) \/ Settled(b)
  <2>1. CASE UNCHANGED <<fighting, list, pair>>
        BY <2>1 DEF Same
  <2>2. CASE StopCombat(a)
        BY <2>2, StopStory DEF Story
  <2> QED BY <1>2, <2>1, <2>2
<1> QED BY <1>1, <1>2, <1>3, StoriesKept DEF Resting

\* The attacker is enlisted against one that has not retired.
LEMMA EnrolAttackerStory ==
    ASSUME CombatInv, OutRetired, NEW t \in Threads, EnrolAttacker(t),
           NEW b \in Bodies, Story(b)
    PROVE Story(b)'
<1> DEFINE a == op[t].att d == op[t].def
<1>1. op[t].at = "enrol" /\ a \in Bodies /\ d \in Bodies
      BY SwingFacts DEF EnrolAttacker, CombatInv, CombatShapes
<1>2. /\ UNCHANGED <<gone, leaving>> /\ (End(t) \/ Goto(t, "victim"))
      /\ \/ UNCHANGED <<fighting, list, pair>>
         \/ fighting[a] = Nil /\ MayStart(a, d) /\ Enlist(a, d, FALSE)
      BY DEF EnrolAttacker
<1>3. \A u \in Threads : u # t => op'[u] = op[u]
      BY <1>1, <1>2, OthersStay DEF Steps
<1>4. Same(b) \/ Settled(b)
  <2>1. CASE UNCHANGED <<fighting, list, pair>>
        BY <2>1 DEF Same
  <2>2. CASE MayStart(a, d) /\ Enlist(a, d, FALSE)
    <3>1. /\ fighting' = [fighting EXCEPT ![a] = d, ![d] = @]
          /\ a \in list' /\ \A x \in Bodies : x # a => (x \in list' <=> x \in list)
          /\ pair' = [pair EXCEPT ![a] = d]
          /\ d \notin retired
          BY <2>2 DEF Enlist, MayStart
    <3> HIDE DEF a, d
    <3>2. /\ fighting'[a] = d /\ pair'[a] = d
          /\ \A x \in Bodies : x # a => fighting'[x] = fighting[x] /\ pair'[x] = pair[x]
          BY <1>1, <3>1 DEF CombatInv, CombatShapes, FightType
    <3>3. CASE b = a
          BY <1>1, <3>1, <3>2, <3>3, CombatAssumption DEF Settled, Agrees
    <3>4. CASE b # a
          BY <3>1, <3>2, <3>4 DEF Same
    <3> QED BY <3>3, <3>4
  <2> QED BY <1>2, <2>1, <2>2
<1> QED BY <1>1, <1>2, <1>3, <1>4, StoriesKept

\* A victim without an opponent gets its attacker.
LEMMA EnrolVictimStory ==
    ASSUME CombatInv, OutRetired, NEW t \in Threads, EnrolVictim(t),
           NEW b \in Bodies, Story(b)
    PROVE Story(b)'
<1> DEFINE a == op[t].att d == op[t].def
<1>1. op[t].at = "victim" /\ a \in Bodies /\ d \in Bodies
      BY SwingFacts DEF EnrolVictim, CombatInv, CombatShapes
<1>2. /\ UNCHANGED <<gone, leaving, pair>> /\ (End(t) \/ Goto(t, "damage"))
      /\ \/ UNCHANGED <<fighting, list>>
         \/ /\ a \notin retired /\ fighting[d] = Nil
            /\ fighting' = [fighting EXCEPT ![d] = a] /\ list' = list \cup {d}
      BY DEF EnrolVictim, StillInCombat
<1>3. \A u \in Threads : u # t => op'[u] = op[u]
      BY <1>1, <1>2, OthersStay DEF Steps
<1> HIDE DEF a, d
<1>4. CASE UNCHANGED <<fighting, list>>
  <2>1. Same(b)
        BY <1>2, <1>4 DEF Same
  <2> QED BY <1>1, <1>2, <1>3, <2>1, StoriesKept
<1>5. CASE /\ a \notin retired /\ fighting[d] = Nil
           /\ fighting' = [fighting EXCEPT ![d] = a] /\ list' = list \cup {d}
  <2>1. CASE b # d
    <3>1. Same(b)
          BY <1>1, <1>2, <1>5, <2>1 DEF Same, CombatInv, CombatShapes, FightType
    <3> QED BY <1>1, <1>2, <1>3, <3>1, StoriesKept
  <2>2. CASE b = d
    <3>1. fighting'[b] = a /\ b \in list' /\ pair'[b] = pair[b]
          BY <1>1, <1>2, <1>5, <2>2 DEF CombatInv, CombatShapes, FightType
    <3>2. CASE Agrees(b)
      <4>1. pair'[b] = Nil
            BY <1>5, <2>2, <3>1, <3>2 DEF Agrees
      <4>2. Settled(b)
            BY <1>1, <1>5, <3>1, <4>1, CombatAssumption DEF Settled, Agrees
      <4> QED BY <1>2, <4>2, StorySettled
    <3>3. CASE Pending(b)
      <4>1. Pending(b)'
            BY <1>1, <1>3, <3>3, PendingKept
      <4>2. a \notin gone /\ (leaving.at = "retired" => a # leaving.body)
            BY <1>5 DEF OutRetired
      <4> QED BY <1>2, <3>1, <4>1, <4>2 DEF Story
    <3> QED BY <3>2, <3>3 DEF Story
  <2> QED BY <2>1, <2>2
<1> QED BY <1>2, <1>4, <1>5

\* Damage, the claim of a death and a stop of the one that went down.
LEMMA BlowStory ==
    ASSUME CombatInv, OutRetired, NEW t \in Threads,
           Damage(t) \/ Downed(t) \/ Die(t) \/ LatchDying(t),
           NEW b \in Bodies, Story(b)
    PROVE Story(b)'
<1>1. op[t].at \in {"damage", "downed", "dying", "latch"}
      BY DEF Damage, Downed, Die, LatchDying
<1>2. /\ UNCHANGED <<gone, leaving>>
      /\ UNCHANGED <<fighting, list, pair>> \/ StopCombat(op[t].def)
      /\ End(t) \/ \E s \in {"downed", "dying", "raw", "retire", "killer", "latch"} : Goto(t, s)
      BY DEF Damage, Downed, Die, LatchDying
<1>3. \A u \in Threads : u # t => op'[u] = op[u]
      BY <1>1, <1>2, OthersStay DEF Steps
<1>4. Same(b) \/ Settled(b)
  <2>1. CASE UNCHANGED <<fighting, list, pair>>
        BY <2>1 DEF Same
  <2>2. CASE StopCombat(op[t].def)
        BY <2>2, StopStory DEF Story
  <2> QED BY <1>2, <2>1, <2>2
<1> QED BY <1>1, <1>2, <1>3, <1>4, StoriesKept

\* raw_kill's stop of a player is of the field alone, and its retirement pending,
\* unless a skill killed it.
LEMMA RawKillStory ==
    ASSUME CombatInv, OutRetired, SwingStages, NEW t \in Threads, StopRawKillBody(t),
           NEW b \in Bodies \ touched, Story(b)
    PROVE Story(b)'
<1> DEFINE d == op[t].def
<1>1. op[t].at = "raw" /\ Goto(t, "killer") /\ UNCHANGED <<gone, leaving>>
      BY DEF StopRawKillBody
<1>2. /\ op'[t].at = "killer" /\ op'[t].melee = op[t].melee /\ op'[t].def = d
      /\ StageOK(t) /\ \A u \in Threads : u # t => op'[u] = op[u]
      BY <1>1, GotoFacts DEF Steps, CombatInv, CombatShapes, SwingStages
<1>3. CASE d \in Mobs
  <2>1. Same(b) \/ Settled(b)
        BY <1>3, StopStory DEF StopRawKillBody, Story
  <2> QED BY <1>1, <1>2, <2>1, StoriesKept
<1>4. CASE d \notin Mobs
  <2>1. fighting' = [fighting EXCEPT ![d] = Nil] /\ UNCHANGED <<list, pair>>
        BY <1>4 DEF StopRawKillBody
  <2>2. CASE b # d
    <3>1. Same(b)
          BY <2>1, <2>2 DEF Same, CombatInv, CombatShapes, FightType
    <3> QED BY <1>1, <1>2, <3>1, StoriesKept
  <2>3. CASE b = d
    <3>1. op[t].melee
          BY <1>1, <1>2, <2>3 DEF StageOK, InTouch
    <3>2. Pending(b)'
          BY <1>2, <2>3, <3>1 DEF Pending
    <3>3. fighting'[b] = Nil
          BY <2>1, <2>3 DEF CombatInv, CombatShapes, FightType
    <3>4. Nil \notin gone /\ (leaving.at = "retired" => leaving.body # Nil)
          BY CombatAssumption DEF CombatInv, CombatShapes
    <3> QED BY <1>1, <3>2, <3>3, <3>4 DEF Story
  <2> QED BY <2>2, <2>3
<1> QED BY <1>3, <1>4

\* The killer stops; the retirement of a melee victim is still to come.
LEMMA StopKillerStory ==
    ASSUME CombatInv, OutRetired, NEW t \in Threads, StopKiller(t),
           NEW b \in Bodies, Story(b)
    PROVE Story(b)'
<1>1. /\ op[t].at = "killer" /\ UNCHANGED <<gone, leaving>> /\ StopCombat(op[t].att)
      /\ IF op[t].melee THEN Goto(t, "retire") ELSE End(t)
      BY DEF StopKiller
<1>2. Pending(b) => Pending(b)'
  <2>1. CASE op[t].melee
    <3>1. /\ op'[t].at = "retire" /\ op'[t].melee = op[t].melee /\ op'[t].def = op[t].def
          /\ \A u \in Threads : u # t => op'[u] = op[u]
          BY <1>1, <2>1, GotoFacts DEF Steps, CombatInv, CombatShapes
    <3> QED BY <3>1 DEF Pending
  <2>2. CASE ~op[t].melee
    <3>1. \A u \in Threads : u # t => op'[u] = op[u]
          BY <1>1, <2>2, EndFacts DEF CombatInv, CombatShapes
    <3> QED BY <2>2, <3>1, PendingKept
  <2> QED BY <2>1, <2>2
<1>3. Same(b) \/ Settled(b)
      BY <1>1, StopStory DEF Story
<1> QED BY <1>1, <1>2, <1>3, StoryKept, StorySettled

\* The retirement settles the victim, and the killer as a stop.
LEMMA RetireVictimStory ==
    ASSUME CombatInv, OutRetired, NEW t \in Threads, RetireVictim(t),
           NEW b \in Bodies, Story(b)
    PROVE Story(b)'
<1> DEFINE a == op[t].att d == op[t].def
           S == {d} \cup {y \in {a} : fighting[y] # Nil}
           H(c) == [x \in S |-> IF x = d THEN Nil ELSE c]
<1>1. op[t].at = "retire" /\ End(t) /\ UNCHANGED <<gone, leaving>>
      BY DEF RetireVictim
<1>2. PICK c \in Heirs(a) : Settle(H(c))
      BY DEF RetireVictim
<1>3. c \in (Bodies \ retired) \cup {Nil}
      BY <1>2, HeirStands DEF Heirs, CombatInv, CombatShapes
<1>4. /\ DOMAIN H(c) = S /\ d \in S
      /\ \A x \in DOMAIN H(c) : /\ H(c)[x] \in (Bodies \ retired) \cup {Nil}
                                /\ H(c)[x] # Nil => fighting[x] # Nil
      BY <1>3
<1>5. \A u \in Threads : u # t => op'[u] = op[u]
      BY <1>1, OthersStay
<1> HIDE DEF H, S
<1>6. IF b \in S THEN Settled(b) ELSE Same(b)
      BY <1>2, <1>4, SettleStory DEF Story
<1>7. CASE b = d
      BY <1>1, <1>4, <1>6, <1>7, StorySettled
<1>8. CASE b # d
      BY <1>1, <1>5, <1>6, <1>8, StoriesKept
<1> QED BY <1>7, <1>8

-----------------------------------------------------------------------------
(* Skills, flight and the extraction pass *)

\* A skill changes only bodies it has touched.
LEMMA SkillStory ==
    ASSUME CombatInv, OutRetired, SwingStages, NEW t \in Threads,
           EnterDamageFighting(t) \/ SkillDamage(t) \/ EnrollAfterDamage(t),
           NEW b \in Bodies \ touched', b \notin touched, Story(b)
    PROVE Story(b)'
<1> DEFINE a == op[t].att d == op[t].def
<1>1. /\ op[t].at \in {"skill", "skilldamage", "after"} /\ a \in Bodies /\ d \in Bodies
      /\ StageOK(t)
      BY SwingFacts DEF EnterDamageFighting, SkillDamage, EnrollAfterDamage, SwingStages,
                        CombatInv, CombatShapes
<1>2. UNCHANGED <<gone, leaving>>
      BY DEF EnterDamageFighting, SkillDamage, EnrollAfterDamage
<1>3. \A u \in Threads : u # t => op'[u] = op[u]
  <2>1. End(t) \/ \E s \in {"after", "skilldamage", "dying"} : Goto(t, s)
        BY DEF EnterDamageFighting, SkillDamage, EnrollAfterDamage
  <2> QED BY <1>1, <2>1, OthersStay DEF Steps
<1>4. Same(b)
  <2>1. CASE EnterDamageFighting(t)
    <3> DEFINE f == IF health[a] = "up" /\ fighting[a] = Nil
                    THEN [fighting EXCEPT ![a] = d] ELSE fighting
    <3>1. /\ UNCHANGED <<list, pair>>
          /\ \/ UNCHANGED fighting
             \/ /\ b # a /\ b # d
                /\ fighting' = IF health[d] = "up" /\ f[d] = Nil THEN [f EXCEPT ![d] = a] ELSE f
          BY <2>1 DEF EnterDamageFighting
    <3>2. f \in FightType /\ (b # a => f[b] = fighting[b])
          BY <1>1 DEF CombatInv, CombatShapes, FightType
    <3> HIDE DEF f, a, d
    <3> QED BY <1>1, <3>1, <3>2 DEF Same, FightType
  <2>2. CASE SkillDamage(t)
    <3>1. /\ UNCHANGED <<list, pair>> /\ b # d
          /\ fighting' = fighting \/ fighting' = [fighting EXCEPT ![d] = Nil]
          BY <1>1, <2>2 DEF SkillDamage, StageOK, InTouch
    <3> HIDE DEF d
    <3> QED BY <3>1 DEF Same, CombatInv, CombatShapes, FightType
  <2>3. CASE EnrollAfterDamage(t)
    <3>1. \/ UNCHANGED <<fighting, list, pair>>
          \/ /\ health[d] # "dead"
             /\ \/ \E both \in BOOLEAN : Enlist(a, d, both)
                \/ \E both \in BOOLEAN : Enlist(d, a, both)
          BY <2>3 DEF EnrollAfterDamage
    <3>2. op[t].at = "after"
          BY <2>3 DEF EnrollAfterDamage
    <3>3. health[d] # "dead" => b # a /\ b # d
          BY <1>1, <3>2 DEF StageOK, InTouch
    <3>4. ASSUME NEW x \in Bodies, NEW y \in Bodies, NEW both \in BOOLEAN, Enlist(x, y, both),
                 b # x, b # y
          PROVE Same(b)
      <4>1. /\ pair' = [pair EXCEPT ![x] = y]
            /\ \E v : fighting' = [fighting EXCEPT ![x] = y, ![y] = v]
            /\ b \in list' <=> b \in list
            BY <3>4 DEF Enlist
      <4> QED BY <3>4, <4>1 DEF Same, CombatInv, CombatShapes, FightType
    <3> HIDE DEF a, d
    <3> QED BY <1>1, <3>1, <3>3, <3>4 DEF Same
  <2> QED BY <2>1, <2>2, <2>3
<1> QED BY <1>1, <1>2, <1>3, <1>4, StoriesKept

\* Who flees and who fought it each stop.
LEMMA FleeStory ==
    ASSUME CombatInv, OutRetired, NEW r \in Bodies, Flee(r), NEW b \in Bodies, Story(b)
    PROVE Story(b)'
<1> DEFINE out == {x \in here \ {r} : fighting[x] = r}
<1>1. UNCHANGED <<gone, op, leaving>>
      BY DEF Flee
<1>2. PICK heirs \in [out \cup {r} -> Bodies \cup {Nil}] :
          /\ \A x \in out : heirs[x] \in Heirs(x)
          /\ heirs[r] \in HeirsAmong(r, list \ out)
          /\ Settle(heirs)
      BY DEF Flee
<1>3. list \subseteq Bodies /\ list \ out \subseteq Bodies
      BY DEF CombatInv, CombatShapes
<1>4. \A x \in DOMAIN heirs : /\ heirs[x] \in (Bodies \ retired) \cup {Nil}
                              /\ heirs[x] # Nil => fighting[x] # Nil
      BY <1>2, <1>3, HeirStands DEF Heirs
<1> HIDE DEF out
<1>5. IF b \in DOMAIN heirs THEN Settled(b) ELSE Same(b)
      BY <1>2, <1>4, SettleStory DEF Story
<1>6. Pending(b) => Pending(b)'
      BY <1>1 DEF Pending
<1> QED BY <1>1, <1>5, <1>6, StoryKept, StorySettled

\* Whoever fights the body that is retired stops, and nobody takes it as an heir.
LEMMA RetireCombatantStory ==
    ASSUME CombatInv, OutRetired, RetireCombatant, NEW x \in Bodies, Story(x)
    PROVE Story(x)'
<1> DEFINE b == leaving.body
           out == {b} \cup {y \in list : fighting[y] = b}
<1>1. /\ leaving.at = "found" /\ leaving' = [leaving EXCEPT !.at = "retired"]
      /\ UNCHANGED <<health, gone, op>>
      BY DEF RetireCombatant
<1>2. PICK heirs \in [out -> Bodies \cup {Nil}] :
          /\ heirs[b] = Nil /\ \A y \in out \ {b} : heirs[y] \in Heirs(y)
          /\ fighting' = [y \in Bodies |-> IF y \in out THEN heirs[y] ELSE fighting[y]]
          /\ list' = list \ {y \in out : heirs[y] = Nil}
          /\ pair' = [y \in Bodies |-> IF y \in out /\ pair[y] # Nil THEN heirs[y]
                                       ELSE IF pair[y] = b THEN Nil ELSE pair[y]]
      BY DEF RetireCombatant, Parting
<1>3. b \in Bodies /\ b # Nil /\ Dead(b) /\ Nil \notin gone
      BY <1>1, CombatAssumption DEF CombatInv, CombatShapes, DeathsAreReal
<1>4. leaving'.at = "retired" /\ leaving'.body = b
      BY <1>1 DEF CombatInv, CombatShapes
<1>5. Pending(x) => Pending(x)'
      BY <1>1 DEF Pending
<1>6. CASE x = b
  <2>1. fighting'[x] = Nil /\ x \notin list' /\ pair'[x] = Nil
        BY <1>2, <1>3, <1>6
  <2> HIDE DEF b, out
  <2> QED BY <1>1, <1>3, <1>4, <2>1 DEF Story, Agrees
<1>7. CASE x \in out /\ x # b
  <2>1. heirs[x] \in Heirs(x) /\ x \in list /\ fighting[x] = b
        BY <1>2, <1>7
  <2>2. /\ heirs[x] \in (Bodies \ retired) \cup {Nil}
        /\ heirs[x] # Nil => ~Dead(heirs[x])
        BY <2>1, HeirStands DEF Heirs, CombatInv, CombatShapes
  <2>3. /\ fighting'[x] = heirs[x] /\ (x \in list' <=> heirs[x] # Nil)
        /\ pair'[x] \in {Nil, heirs[x]}
        BY <1>2, <1>7, <2>1
  <2> HIDE DEF b, out
  <2> QED BY <1>1, <1>3, <1>4, <2>2, <2>3 DEF Story, Agrees, OutRetired
<1>8. CASE x \notin out
  <2>1. fighting[x] # b
        BY <1>3, <1>8 DEF Story
  <2>2. /\ fighting'[x] = fighting[x] /\ (x \in list' <=> x \in list)
        /\ pair'[x] \in {Nil, pair[x]}
        BY <1>2, <1>8
  <2> HIDE DEF b, out
  <2> QED BY <1>1, <1>4, <1>5, <2>1, <2>2 DEF Story, Agrees
<1> QED BY <1>6, <1>7, <1>8

\* When the pass is done with it, nobody fights it.
LEMMA EndExtractStory ==
    ASSUME CombatInv, OutRetired, EndExtract, NEW x \in Bodies, Story(x)
    PROVE Story(x)'
<1> DEFINE b == leaving.body
           out == {y \in leaving.others : fighting[y] = b}
<1>1. /\ leaving.at = "retired" /\ leaving' = Nobody /\ gone' = gone \cup {b} /\ UNCHANGED op
      BY DEF EndExtract
<1>2. PICK heirs \in [out -> Bodies \cup {Nil}] :
          (\A y \in out : heirs[y] \in Heirs(y)) /\ Settle(heirs)
      BY DEF EndExtract
<1>3. fighting[x] # b /\ x \notin out
      BY <1>1 DEF Story
<1>4. \A y \in DOMAIN heirs : /\ heirs[y] \in (Bodies \ retired) \cup {Nil}
                              /\ heirs[y] # Nil => fighting[y] # Nil
      BY <1>2, HeirStands DEF Heirs, CombatInv, CombatShapes
<1>5. Same(x)
  <2>1. IF x \in DOMAIN heirs THEN Settled(x) ELSE Same(x)
        BY <1>2, <1>4, SettleStory DEF Story
  <2> QED BY <1>2, <1>3, <2>1
<1>6. Pending(x) => Pending(x)'
      BY <1>1 DEF Pending
<1> HIDE DEF b, out
<1> QED BY <1>1, <1>3, <1>5, <1>6 DEF Story, Same, Agrees, Nobody

\* Every step keeps the story of every body no skill has touched.
LEMMA StoriesNext ==
    ASSUME CombatInv, MeleeInv, [CombatNext]_combatVars, NEW b \in Bodies \ touched'
    PROVE Story(b)'
<1>1. touched \subseteq touched'
  <2>1. ASSUME NEW t \in Threads, Swing(t) PROVE touched \subseteq touched'
        BY <2>1 DEF Swing, EnrolAttacker, EnrolVictim, Damage, Downed, Die, LatchDying,
                   StopRawKillBody, StopKiller, RetireVictim, EnterDamageFighting, SkillDamage,
                   EnrollAfterDamage
  <2>2. ASSUME NEW a \in Bodies, Turn(a) \/ Flee(a) \/ Return(a) \/ Heal(a)
                                 \/ \E d \in Bodies : Hit(a, d) \/ Skill(a, d)
        PROVE touched \subseteq touched'
        BY <2>2 DEF Turn, Flee, Return, Heal, Hit, Skill
  <2>3. CASE Extract
        BY <2>3 DEF Extract, BeginExtract, RetireCombatant, EndExtract
  <2> QED BY <2>1, <2>2, <2>3 DEF CombatNext, combatVars
<1>2. b \in Bodies \ touched /\ Story(b) /\ OutRetired /\ SwingStages
      BY <1>1 DEF MeleeInv
<1>3. ASSUME NEW t \in Threads, Swing(t) PROVE Story(b)'
      BY <1>2, <1>3, EnrolAttackerStory, EnrolVictimStory, BlowStory, RawKillStory,
         StopKillerStory, RetireVictimStory, SkillStory DEF Swing
<1>4. ASSUME UNCHANGED <<fighting, gone, list, pair, op>>,
             UNCHANGED leaving \/ leaving'.at # "retired"
      PROVE Story(b)'
      BY <1>2, <1>4 DEF Story, Agrees, Pending
<1>5. ASSUME NEW a \in Bodies, Return(a) \/ Heal(a) PROVE Story(b)'
      BY <1>4, <1>5 DEF Return, Heal
<1>6. ASSUME NEW a \in Bodies,
             Turn(a) \/ Flee(a) \/ \E d \in Bodies : Hit(a, d) \/ Skill(a, d)
      PROVE Story(b)'
      BY <1>2, <1>6, OpeningStory, FleeStory
<1>7. ASSUME NEW r \in Bodies, BeginExtract(r) PROVE Story(b)'
      BY <1>4, <1>7 DEF BeginExtract
<1>8. CASE Extract
      BY <1>2, <1>7, <1>8, RetireCombatantStory, EndExtractStory DEF Extract
<1>9. CASE UNCHANGED combatVars
      BY <1>4, <1>9 DEF combatVars
<1> QED BY <1>3, <1>5, <1>6, <1>8, <1>9 DEF CombatNext

\* At the start there is nothing to tell.
LEMMA MeleeInvInit == CombatInit => MeleeInv
<1> SUFFICES ASSUME CombatInit PROVE MeleeInv
    OBVIOUS
<1>1. SwingStages /\ OutRetired
      BY DEF CombatInit, SwingStages, StageOK, OutRetired, Resting, Nobody
<1>2. \A b \in Bodies : Story(b)
      BY DEF CombatInit, Story, Agrees, Nobody
<1> QED BY <1>1, <1>2 DEF MeleeInv

\* Every step keeps MeleeInv.
LEMMA MeleeInvNext == CombatInv /\ MeleeInv /\ [CombatNext]_combatVars => MeleeInv'
BY StagesNext, OutRetiredNext, StoriesNext DEF MeleeInv

\* The field, the engine's list and its pairs tell one story of every body that no
\* skill or area spell has touched, once no swing at it is in the air, and its
\* opponent is still in the world.
THEOREM MeleeTold == CombatSpec => []MeleeAgrees
<1>1. MeleeInv => MeleeAgrees
  <2> SUFFICES ASSUME MeleeInv, NEW b \in Bodies \ touched, ~InFlight(b)
               PROVE Agrees(b) /\ fighting[b] \notin gone
      BY DEF MeleeAgrees, Agrees
  <2>1. ~Pending(b)
        BY DEF InFlight, Pending
  <2> QED BY <2>1 DEF MeleeInv, Story
<1> QED BY <1>1, CombatInvInit, CombatInvNext, MeleeInvInit, MeleeInvNext, PTL DEF CombatSpec

-----------------------------------------------------------------------------
(* The shape of combat, and how often a body can die *)

Leavings == [at : {"no", "found", "retired"}, body : Bodies \cup {Nil}, others : SUBSET Bodies]
CombatTyped ==
    /\ pair \in FightType /\ health \in [Bodies -> {"up", "down", "dead"}]
    /\ alive \subseteq Bodies /\ flagged \subseteq Bodies /\ retired \subseteq Bodies
    /\ here \subseteq Bodies /\ touched \subseteq Bodies /\ gone \cap here = {}
    /\ leaving \in Leavings

\* Up to these steps a swing can still pay for the death of its victim.
Aiming == {"enrol", "victim", "damage", "dying", "latch", "skill", "skilldamage"}
Aims(t, b) == op[t].def = b /\ op[t].at \in Aiming
Chance(t, b) == IF Aims(t, b) THEN 1 ELSE 0

\* No swing begins at the dead, and each thread is in one: what was paid and what
\* can still be paid is two deaths at most, one of each thread.
Counted ==
    /\ deaths \in [Bodies -> Nat]
    /\ \A b \in Bodies :
          /\ deaths[b] # 0 => Dead(b)
          /\ deaths[b] + Chance("ticker", b) + Chance("command", b) <= 2

\* A stop that gives each body an opponent or none keeps the pairs typed.
LEMMA SettlePairs ==
    ASSUME pair \in FightType, NEW heirs, Settle(heirs),
           \A x \in DOMAIN heirs : heirs[x] \in Bodies \cup {Nil}
    PROVE pair' \in FightType
BY DEF Settle, FightType

\* Heirs are bodies of the list.
LEMMA HeirsTyped ==
    ASSUME list \subseteq Bodies, NEW b
    PROVE Heirs(b) \subseteq Bodies \cup {Nil}
          /\ \A out : HeirsAmong(b, list \ out) \subseteq Bodies \cup {Nil}
BY HeirFacts DEF Heirs

\* So does a single stop.
LEMMA StopPairs ==
    ASSUME pair \in FightType, list \subseteq Bodies, NEW a, StopCombat(a)
    PROVE pair' \in FightType
<1>1. PICK c \in Heirs(a) : Settle([x \in {a} |-> c])
      BY DEF StopCombat
<1> DEFINE h == [x \in {a} |-> c]
<1>2. \A x \in DOMAIN h : h[x] \in Bodies \cup {Nil}
      BY HeirsTyped
<1> HIDE DEF h
<1> QED BY <1>1, <1>2, SettlePairs DEF h

\* Every step of a swing keeps the pairs typed.
LEMMA SwingPairs ==
    ASSUME CombatInv, pair \in FightType, NEW t \in Threads, Swing(t)
    PROVE pair' \in FightType
<1> DEFINE a == op[t].att
           d == op[t].def
<1>1. op \in OpType /\ list \subseteq Bodies
      BY DEF CombatInv, CombatShapes
<1>2. op[t].at # "idle" => a \in Bodies /\ d \in Bodies
      BY <1>1, SwingFacts
<1>3. UNCHANGED pair => pair' \in FightType
      OBVIOUS
<1>4. ASSUME NEW x \in Bodies, NEW y \in Bodies, NEW both, Enlist(x, y, both) PROVE pair' \in FightType
      BY <1>4 DEF Enlist, FightType
<1>5. CASE EnrolAttacker(t)
      BY <1>2, <1>3, <1>4, <1>5 DEF EnrolAttacker
<1>6. CASE EnrollAfterDamage(t)
      BY <1>2, <1>3, <1>4, <1>6 DEF EnrollAfterDamage
<1>7. CASE Downed(t) \/ StopKiller(t) \/ StopRawKillBody(t)
      BY <1>1, <1>3, <1>7, StopPairs DEF Downed, StopKiller, StopRawKillBody
<1>8. CASE RetireVictim(t)
  <2>1. PICK c \in Heirs(a) :
            Settle([x \in {d} \cup {y \in {a} : fighting[y] # Nil} |-> IF x = d THEN Nil ELSE c])
        BY <1>8 DEF RetireVictim
  <2> DEFINE h == [x \in {d} \cup {y \in {a} : fighting[y] # Nil} |-> IF x = d THEN Nil ELSE c]
  <2>2. \A x \in DOMAIN h : h[x] \in Bodies \cup {Nil}
        BY <1>1, HeirsTyped
  <2> HIDE DEF h
  <2> QED BY <2>1, <2>2, SettlePairs DEF h
<1>9. CASE EnrolVictim(t) \/ Damage(t) \/ Die(t) \/ LatchDying(t) \/ EnterDamageFighting(t) \/ SkillDamage(t)
      BY <1>3, <1>9 DEF EnrolVictim, Damage, Die, LatchDying, EnterDamageFighting, SkillDamage
<1> QED BY <1>5, <1>6, <1>7, <1>8, <1>9 DEF Swing

\* And everything else of the shape.
LEMMA SwingTyped ==
    ASSUME CombatInv, CombatTyped, NEW t \in Threads, Swing(t)
    PROVE CombatTyped'
<1>1. pair' \in FightType
      BY SwingPairs DEF CombatTyped
<1>2. op[t].at # "idle" => op[t].att \in Bodies /\ op[t].def \in Bodies
      BY SwingFacts DEF CombatInv, CombatShapes
<1>3. health' \in [Bodies -> {"up", "down", "dead"}]
  <2>1. ASSUME Damage(t) \/ SkillDamage(t) PROVE health' \in [Bodies -> {"up", "down", "dead"}]
    <3>1. PICK h \in Worse(health[op[t].def]) : health' = [health EXCEPT ![op[t].def] = h]
          BY <2>1 DEF Damage, SkillDamage
    <3>2. h \in {"up", "down", "dead"}
          BY <3>1 DEF Worse
    <3> QED BY <3>1, <3>2 DEF CombatTyped
  <2>2. ~(Damage(t) \/ SkillDamage(t)) => UNCHANGED health
        BY DEF Swing, EnrolAttacker, EnrolVictim, Downed, Die, LatchDying, StopRawKillBody,
               StopKiller, RetireVictim, EnterDamageFighting, EnrollAfterDamage
  <2> QED BY <2>1, <2>2 DEF CombatTyped
<1>4. /\ UNCHANGED <<here, gone, leaving>>
      /\ alive' \subseteq alive \cup {op[t].def} /\ flagged' \subseteq flagged \cup {op[t].def}
      /\ retired' \subseteq retired \cup {op[t].def}
      /\ touched' \subseteq touched \cup {op[t].att, op[t].def}
      /\ op[t].at # "idle"
      BY DEF Swing, EnrolAttacker, EnrolVictim, Damage, Downed, Die, LatchDying, StopRawKillBody,
             StopKiller, RetireVictim, EnterDamageFighting, SkillDamage, EnrollAfterDamage
<1> QED BY <1>1, <1>2, <1>3, <1>4 DEF CombatTyped

\* A body that goes out comes back only while it may fight.
LEMMA MovesTyped ==
    ASSUME CombatInv, OutRetired, CombatTyped, NEW a \in Bodies,
           Turn(a) \/ Flee(a) \/ Return(a) \/ Heal(a) \/ \E d \in Bodies : Hit(a, d) \/ Skill(a, d)
    PROVE CombatTyped'
<1>1. pair' \in FightType
  <2>1. list \subseteq Bodies /\ pair \in FightType
        BY DEF CombatInv, CombatShapes, CombatTyped
  <2>2. CASE Turn(a)
        BY <2>1, <2>2, StopPairs DEF Turn
  <2>3. CASE Flee(a)
    <3> DEFINE out == {x \in here \ {a} : fighting[x] = a}
    <3>1. PICK heirs \in [out \cup {a} -> Bodies \cup {Nil}] : Settle(heirs)
          BY <2>3 DEF Flee
    <3> HIDE DEF out
    <3> QED BY <2>1, <3>1, SettlePairs
  <2> QED BY <2>1, <2>2, <2>3 DEF Return, Heal, Hit, Skill
<1>2. health' \in [Bodies -> {"up", "down", "dead"}]
      BY DEF Turn, Flee, Return, Heal, Hit, Skill, CombatTyped
<1>3. /\ UNCHANGED <<alive, flagged, retired, gone, leaving, touched>>
      /\ here' \subseteq here \/ (here' = here \cup {a} /\ a \notin retired)
      BY DEF Turn, Flee, Return, Heal, Hit, Skill
<1> QED BY <1>1, <1>2, <1>3 DEF CombatTyped, OutRetired

\* The extraction pass.
LEMMA ExtractTyped ==
    ASSUME CombatInv, CombatTyped, Extract
    PROVE CombatTyped'
<1>1. leaving.at # "no" => leaving.body \in Bodies
      BY DEF CombatInv, CombatShapes
<1>2. list \subseteq Bodies /\ pair \in FightType
      BY DEF CombatInv, CombatShapes, CombatTyped
<1>3. ASSUME NEW b \in Bodies, BeginExtract(b) PROVE CombatTyped'
      BY <1>3 DEF BeginExtract, CombatTyped, Leavings
<1>4. CASE RetireCombatant
  <2> DEFINE b == leaving.body
             out == {b} \cup {x \in list : fighting[x] = b}
  <2>1. PICK heirs \in [out -> Bodies \cup {Nil}] :
            pair' = [x \in Bodies |-> IF x \in out /\ pair[x] # Nil THEN heirs[x]
                                      ELSE IF pair[x] = b THEN Nil ELSE pair[x]]
        BY <1>4 DEF RetireCombatant
  <2>2. pair' \in FightType
    <3> HIDE DEF out
    <3> QED BY <1>2, <2>1 DEF FightType
  <2>3. /\ UNCHANGED <<health, alive, flagged, here, gone, touched>>
        /\ leaving' = [leaving EXCEPT !.at = "retired"] /\ retired' = retired \cup {b}
        /\ leaving.at = "found"
        BY <1>4 DEF RetireCombatant
  <2> HIDE DEF out
  <2> QED BY <1>1, <2>2, <2>3 DEF CombatTyped, Leavings
<1>5. CASE EndExtract
  <2> DEFINE out == {x \in leaving.others : fighting[x] = leaving.body}
  <2>1. PICK heirs \in [out -> Bodies \cup {Nil}] : Settle(heirs)
        BY <1>5 DEF EndExtract
  <2>2. pair' \in FightType
    <3> HIDE DEF out
    <3> QED BY <1>2, <2>1, SettlePairs
  <2>3. /\ UNCHANGED <<health, alive, flagged, retired, touched>> /\ leaving' = Nobody
        /\ here' = here \ {leaving.body} /\ gone' = gone \cup {leaving.body}
        BY <1>5 DEF EndExtract
  <2> QED BY <2>2, <2>3 DEF CombatTyped, Leavings, Nobody
<1> QED BY <1>3, <1>4, <1>5 DEF Extract

\* A step that pays nothing and takes aim at nobody dead keeps the count.
LEMMA CountKept ==
    ASSUME Counted, UNCHANGED deaths, \A b \in Bodies : Dead(b) => Dead(b)',
           \A t \in Threads, b \in Bodies : Aims(t, b)' => Aims(t, b) \/ ~Dead(b)
    PROVE Counted'
<1> SUFFICES ASSUME NEW b \in Bodies
             PROVE /\ deaths[b] # 0 => Dead(b)'
                   /\ deaths[b] + Chance("ticker", b)' + Chance("command", b)' <= 2
    BY DEF Counted
<1>1. deaths[b] \in Nat
      BY DEF Counted
<1>2. \A t \in Threads : Chance(t, b)' \in {0, 1} /\ Chance(t, b) \in {0, 1}
                         /\ (Dead(b) => Chance(t, b)' <= Chance(t, b))
      BY DEF Chance
<1>3. /\ Chance("ticker", b)' \in {0, 1} /\ Chance("ticker", b) \in {0, 1}
      /\ Chance("command", b)' \in {0, 1} /\ Chance("command", b) \in {0, 1}
      /\ Dead(b) => /\ Chance("ticker", b)' <= Chance("ticker", b)
                    /\ Chance("command", b)' <= Chance("command", b)
      BY <1>2 DEF Threads
<1>4. /\ deaths[b] # 0 => Dead(b)
      /\ deaths[b] + Chance("ticker", b) + Chance("command", b) <= 2
      BY DEF Counted
<1> HIDE DEF Counted
<1> QED BY <1>1, <1>3, <1>4

\* A thread that pays for a death has had its chance.
LEMMA PaidCounts ==
    ASSUME CombatInv, Counted, NEW t \in Threads, op[t].at \in {"dying", "latch"},
           deaths' = [deaths EXCEPT ![op[t].def] = @ + 1], Goto(t, "raw"), UNCHANGED health
    PROVE Counted'
<1> DEFINE d == op[t].def
<1>1. op \in OpType /\ op[t].at # "idle" /\ "raw" \in Steps
      BY DEF CombatInv, CombatShapes, Steps
<1>2. d \in Bodies /\ Dead(d)
      BY <1>1, SwingFacts DEF CombatInv, DeathsAreReal, Fatal
<1>3. op'[t].at = "raw" /\ \A u \in Threads : u # t => op'[u] = op[u]
      BY <1>1, GotoFacts
<1>4. Aims(t, d) /\ \A b : ~Aims(t, b)'
      BY <1>3 DEF Aims, Aiming
<1>5. \A u \in Threads, b \in Bodies : u # t => (Aims(u, b)' <=> Aims(u, b))
      BY <1>3 DEF Aims
<1>6. deaths \in [Bodies -> Nat] /\ \A b \in Bodies : deaths[b] # 0 => Dead(b)
      BY DEF Counted
<1>7. ASSUME NEW b \in Bodies
      PROVE deaths'[b] + Chance("ticker", b)' + Chance("command", b)' <= 2
  <2>1. deaths[b] + Chance("ticker", b) + Chance("command", b) <= 2
        BY DEF Counted
  <2>2. \A u \in Threads : u # t => Chance(u, b)' = Chance(u, b)
        BY <1>5 DEF Chance
  <2>3. Chance(t, b)' = 0 /\ (b = d => Chance(t, b) = 1)
        BY <1>4 DEF Chance
  <2>4. Chance("ticker", b) \in {0, 1} /\ Chance("command", b) \in {0, 1}
        BY DEF Chance
  <2>5. deaths'[b] = IF b = d THEN deaths[b] + 1 ELSE deaths[b]
        BY <1>2, <1>6
  <2>6. deaths[b] \in Nat /\ "ticker" \in Threads /\ "command" \in Threads
        BY <1>6 DEF Threads
  <2> HIDE DEF d
  <2>7. CASE t = "ticker"
        BY <2>1, <2>2, <2>3, <2>4, <2>5, <2>6, <2>7
  <2>8. CASE t = "command"
        BY <2>1, <2>2, <2>3, <2>4, <2>5, <2>6, <2>8
  <2> QED BY <2>7, <2>8 DEF Threads
<1>8. deaths' \in [Bodies -> Nat] /\ \A b \in Bodies : deaths'[b] # 0 => Dead(b)'
      BY <1>2, <1>6 DEF Dead
<1> HIDE DEF d
<1> QED BY <1>7, <1>8 DEF Counted

\* A swing takes no new aim on its way.
LEMMA SwingAims ==
    ASSUME CombatInv, NEW t \in Threads, Swing(t)
    PROVE \A u \in Threads, b \in Bodies : Aims(u, b)' => Aims(u, b)
<1>1. op \in OpType
      BY DEF CombatInv, CombatShapes
<1>2. op[t].at # "idle"
      BY DEF Swing, EnrolAttacker, EnrolVictim, Damage, Downed, Die, LatchDying, StopRawKillBody,
             StopKiller, RetireVictim, EnterDamageFighting, SkillDamage, EnrollAfterDamage
<1>3. End(t) \/ \E s \in Steps : Goto(t, s) /\ (s \in Aiming => op[t].at \in Aiming)
  <2>1. CASE EnrolAttacker(t) \/ EnrolVictim(t) \/ Damage(t) \/ EnterDamageFighting(t) \/ SkillDamage(t)
        BY <2>1 DEF EnrolAttacker, EnrolVictim, Damage, EnterDamageFighting, SkillDamage, Steps, Aiming
  <2>2. CASE Die(t) \/ LatchDying(t) \/ StopRawKillBody(t)
        BY <2>2 DEF Die, LatchDying, StopRawKillBody, Steps, Aiming
  <2>3. CASE Downed(t) \/ StopKiller(t) \/ RetireVictim(t) \/ EnrollAfterDamage(t)
        BY <2>3 DEF Downed, StopKiller, RetireVictim, EnrollAfterDamage, Steps, Aiming
  <2> QED BY <2>1, <2>2, <2>3 DEF Swing
<1>4. CASE End(t)
      BY <1>1, <1>4, EndFacts DEF Aims, Aiming, Resting
<1>5. ASSUME NEW s \in Steps, Goto(t, s), s \in Aiming => op[t].at \in Aiming
      PROVE \A u \in Threads, b \in Bodies : Aims(u, b)' => Aims(u, b)
  <2>1. /\ op'[t].at = s /\ op'[t].def = op[t].def
        /\ \A u \in Threads : u # t => op'[u] = op[u]
        BY <1>1, <1>2, <1>5, GotoFacts
  <2> QED BY <1>5, <2>1 DEF Aims
<1> QED BY <1>3, <1>4, <1>5

\* No swing is opened at the dead.
LEMMA OpeningAims ==
    ASSUME CombatInv, NEW a \in Bodies, Turn(a) \/ \E d \in Bodies : Hit(a, d) \/ Skill(a, d)
    PROVE \A u \in Threads, b \in Bodies : Aims(u, b)' => Aims(u, b) \/ ~Dead(b)
<1> DEFINE Opens(t, o) == op' = [op EXCEPT ![t] = o] /\ ~Dead(o.def)
           New(s, d, m) == [at |-> s, att |-> a, def |-> d, melee |-> m]
<1>1. ASSUME Turn(a) PROVE UNCHANGED op \/ Opens("ticker", New("victim", fighting[a], TRUE))
      BY <1>1 DEF Turn, Dead
<1>2. ASSUME NEW d \in Bodies, Hit(a, d) PROVE Opens("command", New("enrol", d, TRUE))
      BY <1>2 DEF Hit, Dead
<1>3. ASSUME NEW d \in Bodies, Skill(a, d) PROVE Opens("command", New("skill", d, FALSE))
      BY <1>3 DEF Skill, Dead
<1>4. UNCHANGED op \/ \E t \in Threads : \E o : Opens(t, o)
      BY <1>1, <1>2, <1>3 DEF Threads
<1> QED BY <1>4 DEF CombatInv, CombatShapes, OpType, Aims

\* Every step keeps the count.
LEMMA CountedNext == CombatInv /\ Counted /\ [CombatNext]_combatVars => Counted'
<1> SUFFICES ASSUME CombatInv, Counted, [CombatNext]_combatVars PROVE Counted'
    OBVIOUS
<1>1. \A b \in Bodies : Dead(b) => Dead(b)'
      BY DeadStay
<1>2. ASSUME NEW t \in Threads, Swing(t) PROVE Counted'
  <2>1. \/ UNCHANGED deaths
        \/ /\ op[t].at \in {"dying", "latch"} /\ Goto(t, "raw") /\ UNCHANGED health
           /\ deaths' = [deaths EXCEPT ![op[t].def] = @ + 1]
        BY <1>2 DEF Swing, EnrolAttacker, EnrolVictim, Damage, Downed, Die, LatchDying,
                    StopRawKillBody, StopKiller, RetireVictim, EnterDamageFighting, SkillDamage,
                    EnrollAfterDamage
  <2> QED BY <1>1, <1>2, <2>1, PaidCounts, SwingAims, CountKept
<1>3. ASSUME UNCHANGED <<op, deaths>> PROVE Counted'
      BY <1>1, <1>3, CountKept DEF Aims
<1>4. ASSUME NEW a \in Bodies, Turn(a) \/ \E d \in Bodies : Hit(a, d) \/ Skill(a, d) PROVE Counted'
  <2>1. UNCHANGED deaths
        BY <1>4 DEF Turn, Hit, Skill
  <2> QED BY <1>1, <1>4, <2>1, OpeningAims, CountKept
<1>5. ASSUME NEW a \in Bodies, Flee(a) \/ Return(a) \/ Heal(a) PROVE Counted'
      BY <1>3, <1>5 DEF Flee, Return, Heal
<1>6. CASE Extract
      BY <1>3, <1>6 DEF Extract, BeginExtract, RetireCombatant, EndExtract
<1> QED BY <1>2, <1>3, <1>4, <1>5, <1>6 DEF CombatNext, combatVars

CombatAll == CombatInv /\ OutRetired /\ CombatTyped /\ Counted

\* At the start nobody has died, ...
LEMMA CombatAllInit == CombatInit => CombatAll
<1> SUFFICES ASSUME CombatInit PROVE CombatAll
    OBVIOUS
<1>1. CombatInv
      BY CombatInvInit
<1>2. CombatTyped /\ OutRetired
      BY CombatAssumption DEF CombatInit, CombatTyped, OutRetired, FightType, Leavings, Nobody
<1>3. Counted
      BY DEF CombatInit, Counted, Chance, Aims, Aiming, Resting, Threads, Dead
<1> QED BY <1>1, <1>2, <1>3 DEF CombatAll

\* ... and every step keeps all of it.
LEMMA CombatAllNext == CombatAll /\ [CombatNext]_combatVars => CombatAll'
<1> SUFFICES ASSUME CombatAll, [CombatNext]_combatVars PROVE CombatAll'
    OBVIOUS
<1>1. CombatInv' /\ OutRetired' /\ Counted'
      BY CombatInvNext, OutRetiredNext, CountedNext DEF CombatAll
<1>2. UNCHANGED combatVars => CombatTyped'
      BY DEF combatVars, CombatAll, CombatTyped
<1>3. CombatTyped'
      BY <1>2, SwingTyped, MovesTyped, ExtractTyped DEF CombatAll, CombatNext
<1> QED BY <1>1, <1>3 DEF CombatAll

\* What is kept is more than the types.
LEMMA CombatAllTypes == CombatAll => CombatTypeOK
<1> SUFFICES ASSUME CombatAll PROVE CombatTypeOK
    OBVIOUS
<1>1. deaths \in [Bodies -> 0..2]
  <2>1. deaths \in [Bodies -> Nat]
        BY DEF CombatAll, Counted
  <2>2. ASSUME NEW b \in Bodies PROVE deaths[b] \in 0..2
    <3>1. /\ deaths[b] + Chance("ticker", b) + Chance("command", b) <= 2
          /\ Chance("ticker", b) \in {0, 1} /\ Chance("command", b) \in {0, 1}
          BY DEF CombatAll, Counted, Chance
    <3> QED BY <2>1, <3>1
  <2> QED BY <2>1, <2>2
<1>2. gone \subseteq retired \ here
      BY DEF CombatAll, OutRetired, CombatTyped
<1> QED BY <1>1, <1>2 DEF CombatAll, CombatInv, CombatShapes, CombatTyped, CombatTypeOK, OpType,
        Swings, FightType, Leavings

\* The shape of combat for any set of bodies.
THEOREM CombatKeepsShape == CombatSpec => []CombatTypeOK
BY CombatAllInit, CombatAllNext, CombatAllTypes, PTL DEF CombatSpec

\* Two threads that kill a mob pay its death out once, by the claim. Of a player,
\* handlePlayerDeath's look at the extraction mark and its latch are two steps, and a
\* second thread can pass both; that makes two deaths, one of each thread that was in
\* a swing at the player when it died, and no more.
THEOREM DeathsPaidOnce == CombatSpec => []OneDeathEach
<1>1. CombatInit => ClaimOnce
      BY DEF CombatInit, ClaimOnce
<1>2. ClaimOnce /\ CombatTypeOK => OneDeathEach
  <2>1. CombatTypeOK => \A b \in Bodies : deaths[b] <= 2
        BY DEF CombatTypeOK
  <2> QED BY <2>1 DEF ClaimOnce, OneDeathEach
<1> QED BY <1>1, <1>2, ClaimOnceNext, CombatKeepsShape, PTL DEF CombatSpec
=============================================================================
