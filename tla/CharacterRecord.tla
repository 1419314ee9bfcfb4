------------------------------ MODULE CharacterRecord ------------------------------
(***************************************************************************)
(* What the session lifecycle saves and what becomes of the belongings:    *)
(* SessionLifecycle's actions, each with the database writes and object    *)
(* moves the same code makes. A character owns one "kit": carried by its   *)
(* body, lying on the floor or in a corpse, or only listed in the stored   *)
(* record. Each connection is used once here.                              *)
(***************************************************************************)
EXTENDS SessionLifecycle

VARIABLES
    kit,          \* the body carries the kit
    load,         \* Player.LoadRoomVNum of the body
    store,        \* the stored record: does it list the kit, which load room
    floor,        \* kits lying in rooms and corpses
    snap,         \* the record handleLogin read, until the password is checked
    outdated,     \* history: sessions whose copy is older than the record
    lostUpdate    \* history: an old copy was written back or played, or a body
                  \* left the world unsaved

recordVars == <<kit, load, store, floor, snap, outdated, lostUpdate>>
allVars == <<vars, recordVars>>

Rooms == {"nowhere", "quit"}    \* LoadRoomNowhere, or the room of a legal quit
Record == [kit : BOOLEAN, room : Rooms]
NoRecord == [kit |-> FALSE, room |-> "nowhere"]

\* The records, the belongings and the history variables keep their shape.
RecordTypeOK ==
    /\ kit \in [Bodies -> BOOLEAN]
    /\ load \in [Bodies -> Rooms]
    /\ store \in [Names -> Record]
    /\ floor \in [Names -> 0..2]
    /\ snap \in [Sessions -> Record]
    /\ outdated \subseteq Sessions
    /\ lostUpdate \in BOOLEAN

\* Every character starts offline with the kit in its record.
RecordInit ==
    /\ Init
    /\ kit = [b \in Bodies |-> FALSE]
    /\ load = [b \in Bodies |-> "nowhere"]
    /\ store = [n \in Names |-> [kit |-> TRUE, room |-> "nowhere"]]
    /\ floor = [n \in Names |-> 0]
    /\ snap = [s \in Sessions |-> NoRecord]
    /\ outdated = {}
    /\ lostUpdate = FALSE

-----------------------------------------------------------------------------
\* A session that holds a private copy of the record, not the live body.
HoldsCopy(s) ==
    \/ sess[s].pc \in {"verify", "dupe", "entering"}
    \/ sess[s].pc = "loop" /\ sess[s].menu

Behind(s, n) == {t \in Sessions \ {s} : HoldsCopy(t) /\ sess[t].name = n}

\* db.SavePlayer of session s's character: the copies others hold fall behind.
Write(n, s, rec) ==
    /\ store' = [store EXCEPT ![n] = rec]
    /\ lostUpdate' = (lostUpdate \/ s \in outdated)
    /\ outdated' = outdated \cup Behind(s, n)

\* Mutant: the ordinary save keeps the room last loaded.
MutantSaveNowhere(n, s, b) == Write(n, s, [kit |-> kit[b], room |-> load[b]])

\* savePlayer with game.LoadRoomNowhere.
SaveNowhere(n, s, b) == Write(n, s, [kit |-> kit[b], room |-> "nowhere"])

NoWrite == UNCHANGED <<store, outdated, lostUpdate>>

\* Mutant: what is dropped stays carried and is counted twice.
MutantDropped(n, k) == IF k THEN [floor EXCEPT ![n] = @ + 2] ELSE floor

\* Kits on the floor are counted up to two: the second is already a duplicate.
Dropped(n, k) == IF k THEN [floor EXCEPT ![n] = IF @ < 2 THEN @ + 1 ELSE @] ELSE floor

-----------------------------------------------------------------------------
(* Login *)

RReadRecord(s) ==
    /\ ReadRecord(s)
    /\ snap' = [snap EXCEPT ![s] = store[sess[s].name]]
    /\ outdated' = outdated \ {s}
    /\ UNCHANGED <<kit, load, store, floor, lostUpdate>>

RWrongPassword(s) ==
    /\ WrongPassword(s)
    /\ snap' = [snap EXCEPT ![s] = NoRecord]
    /\ outdated' = outdated \ {s}
    /\ UNCHANGED <<kit, load, store, floor, lostUpdate>>

\* RecordToPlayer gives the candidate the belongings and load room as read.
RAuthenticate(s) ==
    /\ Authenticate(s)
    /\ kit' = [kit EXCEPT ![sess'[s].body] = snap[s].kit]
    /\ load' = [load EXCEPT ![sess'[s].body] = snap[s].room]
    /\ snap' = [snap EXCEPT ![s] = NoRecord]
    /\ UNCHANGED <<store, floor, outdated, lostUpdate>>

\* The candidate's objects are freed, the live body is up to date.
RDupeCheckTakeover(s) ==
    /\ DupeCheckTakeover(s)
    /\ kit' = [kit EXCEPT ![sess[s].body] = FALSE]
    /\ outdated' = outdated \ {s}
    /\ UNCHANGED <<load, store, floor, snap, lostUpdate>>

-----------------------------------------------------------------------------
(* Entry and play *)

\* A renter's new body is what the store holds; everybody is saved at entry.
RMenuEnter(s) ==
    LET n == sess[s].name
        b == sess[s].body
    IN /\ MenuEnter(s)
       /\ \/ /\ ~bod[b].rented
             /\ SaveNowhere(n, s, b)
             /\ UNCHANGED <<kit, load>>
          \/ /\ bod[b].rented
             /\ kit' = [kit EXCEPT ![sess'[s].body] = store[n].kit]
             /\ load' = [load EXCEPT ![sess'[s].body] = store[n].room]
             /\ store' = [store EXCEPT ![n].room = "nowhere"]
             /\ outdated' = (outdated \ {s}) \cup Behind(s, n)
             /\ UNCHANGED lostUpdate
       /\ UNCHANGED <<floor, snap>>

\* "quit rent": the record keeps the belongings and the room.
RQuitRent(s) ==
    /\ QuitRent(s)
    /\ load' = [load EXCEPT ![sess[s].body] = "quit"]
    /\ Write(sess[s].name, s, [kit |-> kit[sess[s].body], room |-> "quit"])
    /\ UNCHANGED <<kit, floor, snap>>

\* The belongings of the dead go to the corpse.
RDie(n) ==
    /\ Die(n)
    /\ kit' = [kit EXCEPT ![world[n]] = FALSE]
    /\ floor' = Dropped(n, kit[world[n]])
    /\ UNCHANGED <<load, store, snap, outdated, lostUpdate>>

\* A playing character picks its kit up again.
Get(s) ==
    LET n == sess[s].name
        b == sess[s].body
    IN /\ TakesCommand(s)
       /\ world[n] = b
       /\ floor[n] > 0
       /\ ~kit[b] /\ ~bod[b].pending
       /\ kit' = [kit EXCEPT ![b] = TRUE]
       /\ floor' = [floor EXCEPT ![n] = @ - 1]
       /\ UNCHANGED <<vars, load, store, snap, outdated, lostUpdate>>

-----------------------------------------------------------------------------
(* The game loop *)

\* Mutant: what is dropped is kept as well.
MutantKept(b) == kit[b]

\* ExtractPendingPlayers drops what was not rented.
Kept(b) == kit[b] /\ bod[b].rented

\* The extraction save, then cleanupSession's save unless at the menu; the
\* belongings of an idle renter are freed after it.
RExtractRetire(n) ==
    LET b == world[n]
        s == registry[n]
        rented == bod[b].rented
    IN /\ ExtractRetire(n)
       /\ floor' = Dropped(n, kit[b] /\ ~rented)
       /\ kit' = [kit EXCEPT ![b] = Kept(b) /\ ~bod[b].idle]
       /\ \/ ~sess[s].menu /\ Write(n, s, [kit |-> Kept(b), room |-> "nowhere"])
          \/ sess[s].menu /\ ~rented /\ Write(n, s, [kit |-> Kept(b), room |-> load[b]])
          \/ sess[s].menu /\ rented /\ NoWrite
       /\ UNCHANGED <<load, snap>>

\* The extraction save; a renter was saved when they quit.
RExtractToMenu(n) ==
    LET b == world[n]
        s == registry[n]
    IN /\ ExtractToMenu(n)
       /\ floor' = Dropped(n, kit[b] /\ ~bod[b].rented)
       /\ kit' = [kit EXCEPT ![b] = Kept(b)]
       /\ \/ ~bod[b].rented /\ Write(n, s, [kit |-> Kept(b), room |-> load[b]])
          \/ bod[b].rented /\ NoWrite
       /\ UNCHANGED <<load, snap>>

\* closeIdleDescriptor's "idle close" save.
RIdleClose(n) ==
    /\ IdleClose(n)
    /\ SaveNowhere(n, registry[n], world[n])
    /\ UNCHANGED <<kit, load, floor, snap>>

\* World.ObjectSaver writes the objects alone, whoever owns the name by now.
RIdleRent ==
    LET n == bod[idling].name IN
    /\ IdleRent
    /\ store' = [store EXCEPT ![n].kit = kit[idling]]
    /\ outdated' = outdated \cup Behind(NoSession, n)
    /\ lostUpdate' = (lostUpdate \/ world[n] # idling)
    /\ UNCHANGED <<kit, load, floor, snap>>

\* Crash_save_all for one connected, playing character.
CrashSave(n) ==
    LET s == registry[n] IN
    /\ idling = NoBody
    /\ s # NoSession
    /\ Playing(s)
    /\ ~bod[sess[s].body].linkless
    /\ SaveNowhere(n, s, sess[s].body)
    /\ UNCHANGED <<vars, kit, load, floor, snap>>

-----------------------------------------------------------------------------
(* Transports *)

\* The lost-link save.
RTeardownLinkdead(s) ==
    /\ TeardownLinkdead(s)
    /\ SaveNowhere(sess[s].name, s, sess[s].body)
    /\ UNCHANGED <<kit, load, floor, snap>>

\* cleanupSession saves the character of a session that held its name, unless
\* it is at the menu. A browser's writer may come to it before FinishEntry
\* clears the menu flag, and the body in the world is removed unsaved.
RTeardownUnregister(s) ==
    LET n == sess[s].name IN
    /\ TeardownUnregister(s)
    /\ \/ /\ HoldsName(s) /\ ~sess[s].menu
          /\ SaveNowhere(n, s, sess[s].body)
       \/ /\ HoldsName(s) /\ sess[s].menu
          /\ lostUpdate' = (lostUpdate \/ world[n] = sess[s].body)
          /\ UNCHANGED <<store, outdated>>
       \/ /\ ~HoldsName(s)
          /\ NoWrite
    /\ UNCHANGED <<kit, load, floor, snap>>

\* Steps that touch neither the record nor the belongings.
PlainStep(s) ==
    \/ SnapshotNames(s) \/ ClaimName(s) \/ DenyName(s)
    \/ DupeCheckNone(s) \/ FinishEntry(s)
    \/ MenuExit(s) \/ QuitDrop(s) \/ LeaveReadLoop(s) \/ TeardownIdle(s)

\* performDupeCheck closes a session at the menu without a save. Until
\* FinishEntry clears the menu flag that includes one already in the world.
RDupeCheckMenu(s) ==
    LET old == registry[sess[s].name] IN
    /\ DupeCheckMenu(s)
    /\ lostUpdate' = (lostUpdate \/ sess[old].pc = "entered")
    /\ UNCHANGED <<kit, load, store, floor, snap, outdated>>

\* register closes the name's former session and takes its body out of the
\* world without saving it.
REnterWorld(s) ==
    LET n == sess[s].name IN
    /\ EnterWorld(s)
    /\ lostUpdate' = (lostUpdate \/ s \in outdated \/ world[n] # NoBody)
    /\ UNCHANGED <<kit, load, store, floor, snap, outdated>>

RecordStep(s) ==
    \/ RReadRecord(s) \/ RWrongPassword(s) \/ RAuthenticate(s)
    \/ RDupeCheckMenu(s) \/ RDupeCheckTakeover(s)
    \/ RMenuEnter(s) \/ REnterWorld(s) \/ RQuitRent(s) \/ Get(s)
    \/ RTeardownLinkdead(s) \/ RTeardownUnregister(s)

RecordGameStep(n) ==
    \/ RDie(n) \/ RExtractRetire(n) \/ RExtractToMenu(n) \/ RIdleClose(n) \/ CrashSave(n)

RecordNext ==
    \/ \E s \in Sessions : PlainStep(s) /\ UNCHANGED recordVars
    \/ \E s \in Sessions : RecordStep(s)
    \/ \E n \in Names : (IdleNoDescriptor(n) \/ Kick(n)) /\ UNCHANGED recordVars
    \/ \E n \in Names : RecordGameStep(n)
    \/ RIdleRent

RecordSpec == RecordInit /\ [][RecordNext]_allVars

-----------------------------------------------------------------------------
(* Properties *)

Carried(n) == IF world[n] # NoBody /\ kit[world[n]] THEN 1 ELSE 0

\* Belongings are conserved: never two kits in the world, and when none is
\* there the record lists it. Deaths, drops, rent, idle rent, takeovers,
\* linkdeath and autosaves keep to this; the only ways out are the named ones:
\* an outdated copy saved or played, or a body taken out of the world unsaved.
OneKit ==
    ~lostUpdate => \A n \in Names :
        /\ floor[n] + Carried(n) <= 1
        /\ floor[n] + Carried(n) = 0 => store[n].kit

\* A character in the world that did not quit has load room NOWHERE in its
\* record, so one whose process dies mid-session restarts at a start room
\* (menu.go:437-440): no late extraction or quit save survives into the next
\* session.
MidSessionLoadsNowhere ==
    ~lostUpdate => \A n \in Names :
        world[n] # NoBody /\ ~bod[world[n]].rented => store[n].room = "nowhere"

\* Closing a connection whose character is not in the game writes nothing: "A
\* descriptor at the menu has no character in the game: C's close_socket saves
\* only CON_PLAYING characters, and an extracted one was already saved by
\* extract_char" (manager.go, cleanupSession step 4).
MenuLeavesNoSave ==
    [][\A s \in Sessions :
        LET n == sess[s].name IN
        /\ ~sess[s].torn /\ sess'[s].torn
        /\ n # NoName
        /\ world[n] # sess[s].body
        => store'[n] = store[n]]_allVars
=============================================================================
