------------------------------- MODULE CombatList -------------------------------
(***************************************************************************)
(* Who fights whom, kept twice: each body's own fightingBody field, and the *)
(* combat engine's list and pairs (combat/engine.go). The round of the      *)
(* engine's ticker walks the list; a command enters it. Deaths go through   *)
(* game/death.go, and the heartbeat's extraction pass (game/char_mgmt.go,   *)
(* game/combat_cleanup.go) removes the bodies at last.                      *)
(*                                                                         *)
(* Three goroutines: the ticker, a player's reader with its command, and   *)
(* the heartbeat. CombatEngine.mu makes each engine operation one step; a  *)
(* swing takes it several times. Damage, chances and messages are choices. *)
(***************************************************************************)
EXTENDS Naturals, FiniteSets

CONSTANTS
    Bodies,       \* players and mobs of one room
    Mobs,         \* those that are mobs
    Starters,     \* those of them that open fights, by a command or a mob's activity
    Nil           \* no opponent

ASSUME CombatAssumption == Starters \subseteq Bodies /\ Mobs \subseteq Bodies /\ Nil \notin Bodies

VARIABLES
    fighting,     \* fightingBody of each body
    health,       \* "up", "down" (at most POS_STUNNED) or "dead", what GetPositionFromHP says
    alive,        \* mobs whose death is not claimed, players that are not dying
    flagged,      \* marked for extraction
    retired,      \* combatRetired: out of combat for good
    here,         \* bodies in the room; one that fled or was extracted is not
    gone,         \* bodies the extraction pass has taken out of the world
    list,         \* CombatEngine.combatOrder
    pair,         \* CombatEngine.combatPairs: the target of each attacker
    op,           \* the swing or skill each thread is in
    leaving,      \* a body the extraction pass is taking out, and who fought it
    touched,      \* history: bodies whose field a skill has written
    deaths        \* history: deaths paid out for each body

combatVars == <<fighting, health, alive, flagged, retired, here, gone, list, pair, op, leaving, touched, deaths>>

Threads == {"ticker", "command"}
Steps == {"enrol", "victim", "damage", "downed", "dying", "latch", "raw", "killer", "retire",
          "skill", "skilldamage", "after"}
Resting == [at |-> "idle", att |-> Nil, def |-> Nil, melee |-> FALSE]
Nobody == [at |-> "no", body |-> Nil, others |-> {}]

\* Besides the types: no attacker has more than one pair, by the shape of pair,
\* which startCombat's "already fighting" check keeps.
CombatTypeOK ==
    /\ fighting \in [Bodies -> Bodies \cup {Nil}] /\ pair \in [Bodies -> Bodies \cup {Nil}]
    /\ health \in [Bodies -> {"up", "down", "dead"}]
    /\ alive \subseteq Bodies /\ flagged \subseteq Bodies /\ retired \subseteq Bodies /\ list \subseteq Bodies
    /\ here \subseteq Bodies /\ gone \subseteq retired \ here
    /\ op \in [Threads -> [at : Steps, att : Bodies, def : Bodies, melee : BOOLEAN] \cup {Resting}]
    /\ leaving \in [at : {"no", "found", "retired"}, body : Bodies \cup {Nil}, others : SUBSET Bodies]
    /\ touched \subseteq Bodies /\ deaths \in [Bodies -> 0..2]

CombatInit ==
    /\ fighting = [b \in Bodies |-> Nil] /\ pair = fighting
    /\ health = [b \in Bodies |-> "up"]
    /\ alive = Bodies /\ flagged = {} /\ retired = {} /\ here = Bodies /\ gone = {} /\ list = {}
    /\ op = [t \in Threads |-> Resting] /\ leaving = Nobody
    /\ touched = {} /\ deaths = [b \in Bodies |-> 0]

-----------------------------------------------------------------------------
\* stopCombatLocked: b leaves the fight, unless its opponent is dead or elsewhere
\* and somebody in the list fights b: then b turns to that one. heirs gives the
\* new opponents of the bodies that stop.
Apart(b, c) == health[c] = "dead" \/ (b \in here) # (c \in here)
HeirsAmong(b, S) ==
    LET candidates == {c \in S \ {b} : fighting[c] = b /\ health[c] # "dead" /\ c \notin retired}
    IN IF fighting[b] # Nil /\ Apart(b, fighting[b]) /\ candidates # {} THEN candidates ELSE {Nil}
Heirs(b) == HeirsAmong(b, list)

Settle(heirs) ==
    /\ fighting' = [x \in Bodies |-> IF x \in DOMAIN heirs THEN heirs[x] ELSE fighting[x]]
    /\ pair' = [x \in Bodies |-> IF x \in DOMAIN heirs /\ pair[x] # Nil THEN heirs[x] ELSE pair[x]]
    /\ list' = list \ {x \in DOMAIN heirs : heirs[x] = Nil}

StopCombat(b) == \E c \in Heirs(b) : Settle([x \in {b} |-> c])

\* startCombatOpt: refused for a retired body and for an attacker with a pair.
MayStart(a, d) == {a, d} \cap retired = {} /\ pair[a] = Nil
Enlist(a, d, both) ==
    LET dTurns == both /\ fighting[d] = Nil
        f == [fighting EXCEPT ![a] = d, ![d] = IF dTurns THEN a ELSE @]
    IN
    /\ fighting' = f
    /\ list' = list \cup {a} \cup IF both /\ f[d] = a THEN {d} ELSE {}
    /\ pair' = [pair EXCEPT ![a] = d]

Goto(t, s) == op' = [op EXCEPT ![t].at = s]
End(t) == op' = [op EXCEPT ![t] = Resting]

-----------------------------------------------------------------------------
\* PerformRound: the turn of a fighter in the list, at whoever it fights then.
\* Elsewhere, or down, it stops; a retired opponent refuses the swing.
Turn(a) ==
    LET d == fighting[a] IN
    /\ op["ticker"] = Resting
    /\ a \in list \ retired /\ health[a] # "dead" /\ d # Nil
    /\ IF health[a] = "down" \/ (a \in here) # (d \in here)
       THEN StopCombat(a) /\ UNCHANGED op
       ELSE /\ d \notin retired /\ health[d] # "dead"
            /\ op' = [op EXCEPT !["ticker"] = [at |-> "victim", att |-> a, def |-> d, melee |-> TRUE]]
            /\ UNCHANGED <<fighting, list, pair>>
    /\ UNCHANGED <<health, alive, flagged, retired, here, gone, leaving, touched, deaths>>

\* do_hit: PerformDeferredInitialAttack, its protections passed.
Hit(a, d) ==
    /\ op["command"] = Resting /\ a \in Starters
    /\ a # d /\ {a, d} \subseteq here /\ {a, d} \cap retired = {}
    /\ health[a] = "up" /\ health[d] # "dead" /\ fighting[a] = Nil
    /\ op' = [op EXCEPT !["command"] = [at |-> "enrol", att |-> a, def |-> d, melee |-> TRUE]]
    /\ UNCHANGED <<fighting, health, alive, flagged, retired, here, gone, list, pair, leaving, touched, deaths>>

\* The deferred enrolment of the attacker; refused, the swing is over.
EnrolAttacker(t) ==
    LET a == op[t].att d == op[t].def IN
    /\ op[t].at = "enrol"
    /\ IF health[a] # "up" \/ fighting[a] # Nil
       THEN Goto(t, "victim") /\ UNCHANGED <<fighting, list, pair>>
       ELSE IF MayStart(a, d)
       THEN Goto(t, "victim") /\ Enlist(a, d, FALSE)
       ELSE End(t) /\ UNCHANGED <<fighting, list, pair>>
    /\ UNCHANGED <<health, alive, flagged, retired, here, gone, leaving, touched, deaths>>

\* performOneHit under the lock: nobody is enrolled who has retired meanwhile.
MutantStillInCombat(a, d) == TRUE
StillInCombat(a, d) == {a, d} \cap retired = {}

EnrolVictim(t) ==
    LET a == op[t].att d == op[t].def IN
    /\ op[t].at = "victim"
    /\ IF StillInCombat(a, d)
       THEN /\ Goto(t, "damage")
            /\ IF fighting[d] = Nil /\ health[d] = "up"
               THEN fighting' = [fighting EXCEPT ![d] = a] /\ list' = list \cup {d}
               ELSE UNCHANGED <<fighting, list>>
       ELSE End(t) /\ UNCHANGED <<fighting, list>>
    /\ UNCHANGED <<health, alive, flagged, retired, here, gone, pair, leaving, touched, deaths>>

\* TakeDamage: the victim stays up, goes down or dies. Nobody wakes the dead.
Worse(h) == IF h = "up" THEN {"up", "down", "dead"} ELSE IF h = "down" THEN {"down", "dead"} ELSE {"dead"}

Damage(t) ==
    LET d == op[t].def IN
    /\ op[t].at = "damage"
    /\ \E h \in Worse(health[d]) :
          /\ health' = [health EXCEPT ![d] = h]
          /\ IF op[t].att \in retired \/ d \in retired \/ h = "up"
             THEN End(t) ELSE Goto(t, IF h = "down" THEN "downed" ELSE "dying")
    /\ UNCHANGED <<fighting, alive, flagged, retired, here, gone, list, pair, leaving, touched, deaths>>

\* UpdatePositionAfterDamage: a victim no longer awake stops fighting.
Downed(t) ==
    /\ op[t].at = "downed" /\ End(t)
    /\ IF fighting[op[t].def] # Nil THEN StopCombat(op[t].def) ELSE UNCHANGED <<fighting, list, pair>>
    /\ UNCHANGED <<health, alive, flagged, retired, here, gone, leaving, touched, deaths>>

-----------------------------------------------------------------------------
\* HandleDeath: of two threads with a lethal blow at a mob, one pays out and marks
\* the body for extraction. A player that is marked already is left alone.
MutantClaims(d) == TRUE
Claims(d) == d \in alive

Die(t) ==
    LET d == op[t].def IN
    /\ op[t].at = "dying"
    /\ IF d \in Mobs /\ Claims(d)
       THEN /\ alive' = alive \ {d} /\ flagged' = flagged \cup {d}
            /\ deaths' = [deaths EXCEPT ![d] = @ + 1]
            /\ Goto(t, "raw")
       ELSE /\ IF d \in Mobs
               THEN IF op[t].melee THEN Goto(t, "retire") ELSE End(t)
               ELSE Goto(t, IF d \in flagged THEN "killer" ELSE "latch")
            /\ UNCHANGED <<alive, flagged, deaths>>
    /\ UNCHANGED <<fighting, health, retired, here, gone, list, pair, leaving, touched>>

\* handlePlayerDeath: the dying latch, after the look at the mark and set free at
\* the end, so that a second thread can pass both.
LatchDying(t) ==
    LET d == op[t].def IN
    /\ op[t].at = "latch"
    /\ IF Claims(d)
       THEN /\ alive' = alive \ {d} /\ deaths' = [deaths EXCEPT ![d] = @ + 1]
            /\ Goto(t, "raw")
       ELSE Goto(t, "killer") /\ UNCHANGED <<alive, deaths>>
    /\ UNCHANGED <<fighting, health, flagged, retired, here, gone, list, pair, leaving, touched>>

\* raw_kill's own stop. A mob's is the engine's and retires it; a player's is of the
\* field alone, and the body is only marked for extraction.
StopRawKillBody(t) ==
    LET d == op[t].def IN
    /\ op[t].at = "raw" /\ Goto(t, "killer")
    /\ IF d \in Mobs
       THEN StopCombat(d) /\ retired' = retired \cup {d} /\ UNCHANGED <<alive, flagged>>
       ELSE /\ fighting' = [fighting EXCEPT ![d] = Nil]
            /\ flagged' = flagged \cup {d} /\ alive' = alive \cup {d}
            /\ UNCHANGED <<list, pair, retired>>
    /\ UNCHANGED <<health, here, gone, leaving, touched, deaths>>

\* stopKillerAfterDie. A melee swing then goes on in CombatEngine.handleDeath.
StopKiller(t) ==
    /\ op[t].at = "killer"
    /\ StopCombat(op[t].att)
    /\ IF op[t].melee THEN Goto(t, "retire") ELSE End(t)
    /\ UNCHANGED <<health, alive, flagged, retired, here, gone, leaving, touched, deaths>>

\* retireDeathVictim: the victim for good, and the killer once more if it fights.
RetireVictim(t) ==
    LET a == op[t].att d == op[t].def IN
    /\ op[t].at = "retire" /\ End(t)
    /\ retired' = retired \cup {d}
    /\ \E c \in Heirs(a) :
          Settle([x \in {d} \cup {y \in {a} : fighting[y] # Nil} |-> IF x = d THEN Nil ELSE c])
    /\ UNCHANGED <<health, alive, flagged, here, gone, leaving, touched, deaths>>

-----------------------------------------------------------------------------
\* The skill and area-spell path, takeDamageFrom: the fields alone are set, and
\* EnrollAfterDamage brings the pair to the engine afterwards.
Skill(a, d) ==
    /\ op["command"] = Resting /\ a \in Starters
    /\ a # d /\ {a, d} \subseteq here /\ health[a] = "up" /\ health[d] # "dead"
    /\ a \notin retired
    /\ op' = [op EXCEPT !["command"] = [at |-> "skill", att |-> a, def |-> d, melee |-> FALSE]]
    /\ UNCHANGED <<fighting, health, alive, flagged, retired, here, gone, list, pair, leaving, touched, deaths>>

EnterDamageFighting(t) ==
    LET a == op[t].att d == op[t].def
        f == IF health[a] = "up" /\ fighting[a] = Nil THEN [fighting EXCEPT ![a] = d] ELSE fighting
    IN
    /\ op[t].at = "skill"
    /\ IF health[d] = "dead"
       THEN Goto(t, "after") /\ UNCHANGED <<fighting, touched>>
       ELSE /\ Goto(t, "skilldamage")
            /\ touched' = touched \cup {a, d}
            /\ fighting' = IF health[d] = "up" /\ f[d] = Nil THEN [f EXCEPT ![d] = a] ELSE f
    /\ UNCHANGED <<health, alive, flagged, retired, here, gone, list, pair, leaving, deaths>>

\* The victim's own stop is of the field alone.
SkillDamage(t) ==
    LET d == op[t].def IN
    /\ op[t].at = "skilldamage"
    /\ \E h \in Worse(health[d]) :
          /\ health' = [health EXCEPT ![d] = h]
          /\ fighting' = IF h = "up" THEN fighting ELSE [fighting EXCEPT ![d] = Nil]
          /\ Goto(t, IF h = "dead" THEN "dying" ELSE "after")
    /\ UNCHANGED <<alive, flagged, retired, here, gone, list, pair, leaving, touched, deaths>>

\* StartCombatAfterDamage: the attacker is enlisted, or the victim if only that fights.
EnrollAfterDamage(t) ==
    LET a == op[t].att d == op[t].def IN
    /\ op[t].at = "after" /\ End(t)
    /\ IF {a, d} \cap retired # {} \/ health[d] = "dead"
       THEN UNCHANGED <<fighting, list, pair>>
       ELSE IF health[a] = "up" /\ fighting[a] = d
       THEN IF MayStart(a, d) THEN Enlist(a, d, health[d] = "up" /\ fighting[d] = a)
            ELSE UNCHANGED <<fighting, list, pair>>
       ELSE IF fighting[d] = a /\ health[d] = "up" /\ MayStart(d, a)
       THEN Enlist(d, a, health[a] = "up")
       ELSE UNCHANGED <<fighting, list, pair>>
    /\ UNCHANGED <<health, alive, flagged, retired, here, gone, leaving, touched, deaths>>

-----------------------------------------------------------------------------
\* stopRoomFights and the move: those of the room that fight b stop, then b itself.
Flee(b) ==
    LET out == {x \in here \ {b} : fighting[x] = b} IN
    /\ b \in here \ retired /\ health[b] = "up" /\ fighting[b] # Nil
    /\ op["command"] = Resting
    /\ here' = here \ {b}
    /\ \E heirs \in [out \cup {b} -> Bodies \cup {Nil}] :
          /\ \A x \in out : heirs[x] \in Heirs(x)
          /\ heirs[b] \in HeirsAmong(b, list \ out)
          /\ Settle(heirs)
    /\ UNCHANGED <<health, alive, flagged, retired, gone, op, leaving, touched, deaths>>

Return(b) ==
    /\ b \notin here \cup retired /\ op["command"] = Resting
    /\ here' = here \cup {b}
    /\ UNCHANGED <<fighting, health, alive, flagged, retired, gone, list, pair, op, leaving, touched, deaths>>

\* Regeneration.
Heal(b) ==
    /\ health[b] = "down" /\ health' = [health EXCEPT ![b] = "up"]
    /\ UNCHANGED <<fighting, alive, flagged, retired, here, gone, list, pair, op, leaving, touched, deaths>>

\* retireCombatBody, called by the extraction pass: who fights the body is read
\* first, then RetireCombatant under the engine's lock, then those are stopped.
BeginExtract(b) ==
    /\ leaving = Nobody /\ b \in flagged \ gone
    /\ flagged' = flagged \ {b}
    /\ leaving' = [at |-> "found", body |-> b, others |-> {x \in Bodies : fighting[x] = b}]
    /\ UNCHANGED <<fighting, health, alive, retired, here, gone, list, pair, op, touched, deaths>>

\* A retired body is let go whatever its opponent: no heir as in a plain stop.
MutantParting(b) == Heirs(b)
Parting(b) == {Nil}

RetireCombatant ==
    LET b == leaving.body
        out == {b} \cup {x \in list : fighting[x] = b}
    IN
    /\ leaving.at = "found"
    /\ leaving' = [leaving EXCEPT !.at = "retired"] /\ retired' = retired \cup {b}
    /\ \E heirs \in [out -> Bodies \cup {Nil}] :
          /\ heirs[b] \in Parting(b) /\ \A x \in out \ {b} : heirs[x] \in Heirs(x)
          /\ fighting' = [x \in Bodies |-> IF x \in out THEN heirs[x] ELSE fighting[x]]
          /\ list' = list \ {x \in out : heirs[x] = Nil}
          /\ pair' = [x \in Bodies |-> IF x \in out /\ pair[x] # Nil THEN heirs[x]
                                       ELSE IF pair[x] = b THEN Nil ELSE pair[x]]
    /\ UNCHANGED <<health, alive, flagged, here, gone, op, touched, deaths>>

EndExtract ==
    LET b == leaving.body
        out == {x \in leaving.others : fighting[x] = b}
    IN
    /\ leaving.at = "retired" /\ leaving' = Nobody
    /\ here' = here \ {b} /\ gone' = gone \cup {b}
    /\ \E heirs \in [out -> Bodies \cup {Nil}] :
          /\ \A x \in out : heirs[x] \in Heirs(x)
          /\ Settle(heirs)
    /\ UNCHANGED <<health, alive, flagged, retired, op, touched, deaths>>

-----------------------------------------------------------------------------
Swing(t) == EnrolAttacker(t) \/ EnrolVictim(t) \/ Damage(t) \/ Downed(t) \/ Die(t) \/ LatchDying(t)
            \/ StopRawKillBody(t)
            \/ StopKiller(t) \/ RetireVictim(t) \/ EnterDamageFighting(t) \/ SkillDamage(t)
            \/ EnrollAfterDamage(t)
Extract == (\E b \in Bodies : BeginExtract(b)) \/ RetireCombatant \/ EndExtract

CombatNext ==
    \/ \E t \in Threads : Swing(t)
    \/ \E a \in Bodies : Turn(a) \/ Flee(a) \/ Return(a) \/ Heal(a)
                        \/ \E d \in Bodies : Hit(a, d) \/ Skill(a, d)
    \/ Extract

CombatSpec == CombatInit /\ [][CombatNext]_combatVars

-----------------------------------------------------------------------------
InFlight(b) == \E t \in Threads : b \in {op[t].att, op[t].def}

\* The field, the engine's list and its pairs tell one story of every body that no
\* skill or area spell has touched: it is listed if and only if it fights, its pair
\* names the opponent its field names, and that opponent is still in the world.
MeleeAgrees ==
    \A b \in Bodies \ touched : ~InFlight(b) =>
        /\ fighting[b] # Nil <=> b \in list
        /\ pair[b] \in {Nil, fighting[b]}
        /\ fighting[b] \notin gone

\* Whatever swing was in the air when the extraction pass came, a body that was
\* extracted has no turn, no pair and no opponent left.
GoneLeavesCombat ==
    \A b \in gone : fighting[b] = Nil /\ b \notin list /\ pair[b] = Nil

\* Two threads with a lethal blow at one mob: it dies once, with one corpse and one
\* share of experience. A player's two guards leave room for a second death and for
\* no third, though the mark that the second guard looks for is taken off again when
\* the extraction begins: nobody aims at the dead, so each thread has one blow to pay.
OneDeathEach == \A b \in Bodies : deaths[b] <= IF b \in Mobs THEN 1 ELSE 2

\* startCombatOpt: "The defender must be in combatOrder whenever it is fighting
\* this attacker - even when its FIGHTING field was set before StartCombat ran."
\* Out of the list it never gets a turn.
DefenderIsListed ==
    \A a, d \in Bodies :
        pair[a] = d /\ fighting[d] = a /\ ~InFlight(a) /\ ~InFlight(d) => d \in list
=============================================================================
