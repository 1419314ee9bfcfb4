------------------------------ MODULE SessionLifecycle ------------------------------
(***************************************************************************)
(* The life of a connection, of the character body it plays and of the     *)
(* stored record behind them: pkg/session (manager.go, reconnect.go,       *)
(* menu.go, session_login.go, session_pump.go, entry_name.go,              *)
(* idle_close.go) with the parts of pkg/game they call.                    *)
(*                                                                         *)
(* A session has one reader goroutine, whose program counter is sess.pc.   *)
(* A browser session also has a writer goroutine that may tear the         *)
(* transport down on its own; a telnet session is torn down by its reader. *)
(* The game loop extracts bodies, closes idle ones and autosaves. Every    *)
(* section under Manager.playerLifecycleMu is one action.                  *)
(*                                                                         *)
(* What is saved when, and what becomes of the character's belongings, is  *)
(* added by CharacterRecord on top of these actions.                       *)
(***************************************************************************)
EXTENDS Naturals, FiniteSets

CONSTANTS
    Names,        \* character names
    Mortals,      \* those below LVL_IMMORT, the only ones CheckIdling removes
    Sessions,     \* connections at one time
    Browsers,     \* the sessions whose transport is a WebSocket
    Reused,       \* those whose place a new connection takes when they are over
    Bodies,       \* game.Player objects, a free one is taken at each load
    NoName, NoSession, NoBody

ASSUME SessionAssumption ==
    /\ Mortals \subseteq Names
    /\ Browsers \subseteq Sessions
    /\ Reused \subseteq Sessions
    /\ NoName \notin Names
    /\ NoSession \notin Sessions
    /\ NoBody \notin Bodies

VARIABLES
    registry,     \* Manager.sessions: name -> session
    claims,       \* Manager.entryNames: session -> name it is entering under
    sess,         \* Session, see SessionState
    world,        \* World.players: name -> body
    bod,          \* Player, see BodyState
    idling        \* the body finishIdleDisconnect is working on, or NoBody

vars == <<registry, claims, sess, world, bod, idling>>

-----------------------------------------------------------------------------
(* What handleLogin and the pumps have reached:                            *)
(*   name     at the name prompt         snapshot sessions listed, no lock *)
(*   password name claimed               verify   record read, bcrypt runs *)
(*   dupe     authenticated              loop     reading input            *)
(*   entering saved, not yet in world    entered  in world, still "menu"   *)
(*   closed   the reader has left its loop                                 *)
Pcs == {"name", "snapshot", "password", "verify", "dupe", "loop", "entering", "entered", "closed"}

SessionState ==
    [pc : Pcs, name : Names \cup {NoName}, body : Bodies \cup {NoBody},
     menu : BOOLEAN, sendClosed : BOOLEAN, superseded : BOOLEAN,
     idleClosed : BOOLEAN, detached : BOOLEAN, torn : BOOLEAN,
     seen : Sessions \cup {NoSession}]

BodyState ==
    [name : Names \cup {NoName}, rented : BOOLEAN, pending : BOOLEAN,
     idle : BOOLEAN, linkless : BOOLEAN]

NewSession ==
    [pc |-> "name", name |-> NoName, body |-> NoBody, menu |-> FALSE,
     sendClosed |-> FALSE, superseded |-> FALSE, idleClosed |-> FALSE,
     detached |-> FALSE, torn |-> FALSE,
     seen |-> NoSession]

\* The body RecordToPlayer builds.
LoadedBody(n) ==
    [name |-> n, rented |-> FALSE, pending |-> FALSE, idle |-> FALSE, linkless |-> FALSE]

\* Every table and record of the lifecycle keeps its shape.
TypeOK ==
    /\ registry \in [Names -> Sessions \cup {NoSession}]
    /\ claims \in [Sessions -> Names \cup {NoName}]
    /\ sess \in [Sessions -> SessionState]
    /\ world \in [Names -> Bodies \cup {NoBody}]
    /\ bod \in [Bodies -> BodyState]
    /\ idling \in Bodies \cup {NoBody}

Init ==
    /\ registry = [n \in Names |-> NoSession]
    /\ claims = [s \in Sessions |-> NoName]
    /\ sess = [s \in Sessions |-> NewSession]
    /\ world = [n \in Names |-> NoBody]
    /\ bod = [b \in Bodies |-> LoadedBody(NoName)]
    /\ idling = NoBody

-----------------------------------------------------------------------------
(* Helpers *)

\* A connection that is over: nothing of it is reachable any more.
Gone(s) == sess[s].pc = "closed" /\ sess[s].torn /\ \A n \in Names : registry[n] # s

Referenced ==
    {sess[s].body : s \in {t \in Sessions : ~Gone(t)}} \cup {world[n] : n \in Names} \cup {idling}
FreeBodies == Bodies \ Referenced

HasTransport(s) == ~sess[s].detached

\* Mutants: a teardown goes by the name alone; or passes over menu sessions.
MutantHoldsAnyName(s) == sess[s].name # NoName
MutantHoldsNamePlaying(s) ==
    sess[s].name # NoName /\ registry[sess[s].name] = s /\ ~sess[s].menu

\* The session is the one registered under its name.
HoldsName(s) == sess[s].name # NoName /\ registry[sess[s].name] = s

\* Authenticated and past every prompt: Session.IsPlaying.
Playing(s) == sess[s].body # NoBody /\ ~sess[s].menu

\* attachedBodyLocked: the descriptor of a body, not merely its retained owner.
AttachedTo(s, b) ==
    /\ sess[s].body = b
    /\ HasTransport(s)
    /\ ~sess[s].sendClosed
    /\ ~sess[s].menu

\* A command reaches a session from its reader, or from the input queue the
\* heartbeat drains for every registered session.
TakesCommand(s) ==
    /\ sess[s].pc = "loop"
    /\ Playing(s)
    /\ ~sess[s].sendClosed \/ HoldsName(s)

\* Mutant: the body stays in the world.
MutantWithout(n, b) == world

\* World.RemovePlayerBody: never removes a later body of the same name.
Without(n, b) == IF world[n] = b THEN [world EXCEPT ![n] = NoBody] ELSE world

\* Mutant: the released entry is no longer a claim of any kind.
MutantRelease(s) == [t \in Sessions \ {s} |-> claims[t]]

\* releaseEntryName.
Release(s) == [claims EXCEPT ![s] = NoName]

\* Mutant: the connection a login takes over from may go on.
MutantSupersede(x) == [x EXCEPT !.superseded = TRUE]

\* performDupeCheck to the connection it takes over from.
Supersede(x) == [x EXCEPT !.superseded = TRUE, !.sendClosed = TRUE]

\* Mutant: the linkless flag outlives the reconnect.
MutantReattach(x) == x

\* finishDupeCheck to the body it attaches to.
Reattach(x) == [x EXCEPT !.linkless = FALSE]

-----------------------------------------------------------------------------
(* Login: session_login.go, entry_name.go, reconnect.go *)

\* HandleWebSocket or the telnet listener makes a new session.
Connect(s) ==
    /\ s \in Reused
    /\ Gone(s)
    /\ \A t \in Sessions : sess[t].seen # s
    /\ sess' = [sess EXCEPT ![s] = NewSession]
    /\ UNCHANGED <<registry, claims, world, bod, idling>>

\* claimEntryName lists the registered sessions under m.mu ...
SnapshotNames(s) ==
    /\ sess[s].pc = "name"
    /\ \E n \in Names :
        sess' = [sess EXCEPT ![s].pc = "snapshot", ![s].name = n, ![s].seen = registry[n]]
    /\ UNCHANGED <<registry, claims, world, bod, idling>>

\* ... and decides later under entryNameMu.
NameHeld(s) ==
    LET n == sess[s].name
        t == sess[s].seen
    IN \/ \E u \in Sessions \ {s} : claims[u] = n
       \/ /\ t # NoSession
          /\ sess[t].body # NoBody
          /\ HasTransport(t)
          /\ ~sess[t].sendClosed
          /\ sess[t].menu

ClaimName(s) ==
    /\ sess[s].pc = "snapshot"
    /\ ~NameHeld(s)
    /\ claims' = [claims EXCEPT ![s] = sess[s].name]
    /\ sess' = [sess EXCEPT ![s].pc = "password", ![s].seen = NoSession]
    /\ UNCHANGED <<registry, world, bod, idling>>

DenyName(s) ==
    /\ sess[s].pc = "snapshot"
    /\ NameHeld(s)
    /\ sess' = [sess EXCEPT ![s].pc = "name", ![s].seen = NoSession, ![s].name = NoName]
    /\ UNCHANGED <<registry, claims, world, bod, idling>>

\* handleLogin reads the record before it verifies the password.
ReadRecord(s) ==
    /\ sess[s].pc = "password"
    /\ sess' = [sess EXCEPT ![s].pc = "verify"]
    /\ UNCHANGED <<registry, claims, world, bod, idling>>

\* A wrong password asks again; the third one closes the connection.
WrongPassword(s) ==
    /\ sess[s].pc = "verify"
    /\ \/ /\ sess' = [sess EXCEPT ![s].pc = "password"]
          /\ UNCHANGED claims
       \/ /\ sess' = [sess EXCEPT ![s].pc = "closed", ![s].sendClosed = TRUE]
          /\ claims' = Release(s)
    /\ UNCHANGED <<registry, world, bod, idling>>

\* RecordToPlayer builds the candidate from the record read earlier.
Authenticate(s) ==
    /\ sess[s].pc = "verify"
    /\ \E b \in FreeBodies :
        /\ bod' = [bod EXCEPT ![b] = LoadedBody(sess[s].name)]
        /\ sess' = [sess EXCEPT ![s].pc = "dupe", ![s].body = b]
    /\ UNCHANGED <<registry, claims, world, idling>>

\* performDupeCheck finds no other copy; startReturningMenu follows.
DupeCheckNone(s) ==
    /\ sess[s].pc = "dupe"
    /\ registry[sess[s].name] = NoSession
    /\ sess' = [sess EXCEPT ![s].pc = "loop", ![s].menu = TRUE]
    /\ UNCHANGED <<registry, claims, world, bod, idling>>

\* The other copy is at the menu: it is closed without a save, and the login
\* goes on to its own menu with its own candidate.
DupeCheckMenu(s) ==
    LET n == sess[s].name
        old == registry[n]
    IN /\ sess[s].pc = "dupe"
       /\ old # NoSession
       /\ sess[old].menu
       /\ registry' = [registry EXCEPT ![n] = NoSession]
       /\ world' = Without(n, sess[old].body)
       /\ claims' = Release(old)
       /\ sess' = [sess EXCEPT ![old].sendClosed = TRUE, ![s].pc = "loop", ![s].menu = TRUE]
       /\ UNCHANGED <<bod, idling>>

\* The other copy is playing or linkdead: this session takes its body over
\* (finishDupeCheck) and the candidate's objects are freed.
DupeCheckTakeover(s) ==
    LET n == sess[s].name
        old == registry[n]
        b == sess[old].body
    IN /\ sess[s].pc = "dupe"
       /\ old # NoSession
       /\ ~sess[old].menu
       /\ registry' = [registry EXCEPT ![n] = s]
       /\ claims' = [claims EXCEPT ![old] = NoName, ![s] = NoName]
       /\ sess' = [sess EXCEPT ![old] = Supersede(@), ![s].pc = "loop", ![s].body = b]
       /\ bod' = [bod EXCEPT ![b] = Reattach(@)]
       /\ UNCHANGED <<world, idling>>

-----------------------------------------------------------------------------
(* The menu: menu.go *)

AtMenu(s) == sess[s].pc = "loop" /\ sess[s].menu /\ ~sess[s].sendClosed

\* enterReturningPlayer up to its entry save. A renter is reloaded first.
MenuEnter(s) ==
    LET n == sess[s].name
        b == sess[s].body
    IN /\ AtMenu(s)
       /\ \/ /\ ~bod[b].rented
             /\ sess' = [sess EXCEPT ![s].pc = "entering"]
             /\ UNCHANGED bod
          \/ /\ bod[b].rented
             /\ \E c \in FreeBodies :
                 /\ bod' = [bod EXCEPT ![c] = LoadedBody(n)]
                 /\ sess' = [sess EXCEPT ![s].pc = "entering", ![s].body = c]
       /\ UNCHANGED <<registry, claims, world, idling>>

\* enterWorld: register takes the name over from any other session and
\* removes its body, then AddPlayer admits this one.
EnterWorld(s) ==
    LET n == sess[s].name
        old == registry[n]
        cleared == IF old \in Sessions \ {s} THEN Without(n, sess[old].body) ELSE world
    IN /\ sess[s].pc = "entering"
       /\ cleared[n] = NoBody
       /\ registry' = [registry EXCEPT ![n] = s]
       /\ world' = [cleared EXCEPT ![n] = sess[s].body]
       /\ claims' = [t \in Sessions |-> IF t = old /\ old # s THEN NoName ELSE claims[t]]
       /\ sess' = [t \in Sessions |->
                     IF t = s THEN [sess[t] EXCEPT !.pc = "entered"]
                     ELSE IF t = old THEN [sess[t] EXCEPT !.sendClosed = TRUE]
                     ELSE sess[t]]
       /\ UNCHANGED <<bod, idling>>

\* The rest of enterReturningPlayer, after enterWorld's lock is released.
FinishEntry(s) ==
    /\ sess[s].pc = "entered"
    /\ sess' = [sess EXCEPT ![s].pc = "loop", ![s].menu = FALSE]
    /\ claims' = Release(s)
    /\ UNCHANGED <<registry, world, bod, idling>>

\* Menu choice 0.
MenuExit(s) ==
    /\ AtMenu(s)
    /\ sess' = [sess EXCEPT ![s].pc = "closed", ![s].menu = FALSE, ![s].sendClosed = TRUE]
    /\ claims' = Release(s)
    /\ UNCHANGED <<registry, world, bod, idling>>

-----------------------------------------------------------------------------
(* Playing: cmd_inventory.go, death.go *)

\* quit in a safe room rents the belongings; extraction then leaves them alone.
QuitRent(s) ==
    /\ TakesCommand(s)
    /\ bod' = [bod EXCEPT ![sess[s].body].rented = TRUE, ![sess[s].body].pending = TRUE]
    /\ UNCHANGED <<registry, claims, sess, world, idling>>

\* reallyquit elsewhere: extraction will drop what is carried.
QuitDrop(s) ==
    /\ TakesCommand(s)
    /\ bod' = [bod EXCEPT ![sess[s].body].pending = TRUE]
    /\ UNCHANGED <<registry, claims, sess, world, idling>>

\* A body in the world dies.
Die(n) ==
    /\ world[n] # NoBody
    /\ ~bod[world[n]].pending
    /\ bod' = [bod EXCEPT ![world[n]].pending = TRUE]
    /\ UNCHANGED <<registry, claims, sess, world, idling>>

-----------------------------------------------------------------------------
(* The game loop: ExtractPendingChars, CheckIdling *)

\* Mutants: the owner of a body is looked for among the open connections only;
\* or a body without a descriptor waits for its player.
MutantExtractsOpen(n, s) ==
    /\ world[n] # NoBody
    /\ bod[world[n]].pending
    /\ registry[n] = s
    /\ sess[s].body = world[n]
    /\ ~sess[s].sendClosed
MutantExtracts(n, s) ==
    /\ world[n] # NoBody
    /\ bod[world[n]].pending
    /\ registry[n] = s
    /\ sess[s].body = world[n]
    /\ HasTransport(s)

\* drainPendingExtractionsLocked takes the body under n out of the world and
\* looks for the session that owns it. NoOrphanBody says there is one.
Extracts(n, s) ==
    /\ world[n] # NoBody
    /\ bod[world[n]].pending
    /\ registry[n] = s
    /\ sess[s].body = world[n]

\* The owner of an idle-closed or linkdead body is retired.
ExtractRetire(n) ==
    \E s \in Sessions :
        /\ Extracts(n, s)
        /\ bod[world[n]].idle \/ ~HasTransport(s)
        /\ bod' = [bod EXCEPT ![world[n]].pending = FALSE]
        /\ world' = [world EXCEPT ![n] = NoBody]
        /\ registry' = [registry EXCEPT ![n] = NoSession]
        /\ claims' = Release(s)
        /\ sess' = [sess EXCEPT ![s].sendClosed = TRUE]
        /\ UNCHANGED idling

\* Any other owner goes back to the menu, still registered.
ExtractToMenu(n) ==
    \E s \in Sessions :
        /\ Extracts(n, s)
        /\ ~bod[world[n]].idle
        /\ HasTransport(s)
        /\ bod' = [bod EXCEPT ![world[n]].pending = FALSE]
        /\ world' = [world EXCEPT ![n] = NoBody]
        /\ sess' = [sess EXCEPT ![s].menu = TRUE]
        /\ UNCHANGED <<registry, claims, idling>>

\* finishIdleDisconnect marks the body and calls closeIdleDescriptor, which
\* closes the descriptor attached to it ...
IdleClose(n) ==
    \E s \in Sessions :
        /\ n \in Mortals
        /\ idling = NoBody
        /\ world[n] # NoBody
        /\ registry[n] = s
        /\ AttachedTo(s, world[n])
        /\ idling' = world[n]
        /\ bod' = [bod EXCEPT ![world[n]].idle = TRUE, ![world[n]].linkless = TRUE]
        /\ sess' = [sess EXCEPT ![s].idleClosed = TRUE, ![s].sendClosed = TRUE,
                                ![s].detached = TRUE]
        /\ claims' = Release(s)
        /\ UNCHANGED <<registry, world>>

\* ... if there is one: a linkdead body has none.
IdleNoDescriptor(n) ==
    /\ n \in Mortals
    /\ idling = NoBody
    /\ world[n] # NoBody
    /\ \A s \in Sessions : registry[n] = s => ~AttachedTo(s, world[n])
    /\ idling' = world[n]
    /\ bod' = [bod EXCEPT ![world[n]].idle = TRUE]
    /\ UNCHANGED <<registry, claims, sess, world>>

\* Then, with no lifecycle lock held, it rents the belongings and marks the
\* body for extraction.
IdleRent ==
    /\ idling # NoBody
    /\ bod' = [bod EXCEPT ![idling].rented = TRUE, ![idling].pending = TRUE]
    /\ idling' = NoBody
    /\ UNCHANGED <<registry, claims, sess, world>>

-----------------------------------------------------------------------------
(* Transports: session_pump.go, telnet/listener.go *)

\* Manager.Kick, from the administrator's page or a wizard command.
Kick(n) ==
    LET s == registry[n] IN
    /\ s # NoSession
    /\ ~sess[s].sendClosed
    /\ sess' = [sess EXCEPT ![s].sendClosed = TRUE]
    /\ claims' = Release(s)
    /\ UNCHANGED <<registry, world, bod, idling>>

\* The reader leaves its loop between two lines: the peer is gone, the server
\* closed the connection, or the line ended the session.
LeaveReadLoop(s) ==
    /\ sess[s].pc \in {"name", "password", "loop"}
    /\ sess' = [sess EXCEPT ![s].pc = "closed"]
    /\ UNCHANGED <<registry, claims, world, bod, idling>>

\* Which goroutine may run the once-only transport teardown now: the reader
\* after its loop, or at any time a browser's writer, whose ping may fail and
\* whose channels may be closed.
TearsDown(s) ==
    /\ ~sess[s].torn
    /\ \/ sess[s].pc = "closed"
       \/ s \in Browsers

\* handleTransportDisconnect keeps a playing character linkdead.
Retains(s) ==
    /\ sess[s].body # NoBody
    /\ ~sess[s].sendClosed
    /\ ~sess[s].superseded
    /\ ~sess[s].menu

TeardownIdle(s) ==
    /\ TearsDown(s)
    /\ sess[s].idleClosed
    /\ sess' = [sess EXCEPT ![s].torn = TRUE]
    /\ claims' = Release(s)
    /\ UNCHANGED <<registry, world, bod, idling>>

TeardownLinkdead(s) ==
    LET b == sess[s].body IN
    /\ TearsDown(s)
    /\ ~sess[s].idleClosed
    /\ Retains(s)
    /\ bod' = [bod EXCEPT ![b].linkless = TRUE]
    /\ sess' = [sess EXCEPT ![s].torn = TRUE, ![s].detached = TRUE]
    /\ claims' = Release(s)
    /\ UNCHANGED <<registry, world, idling>>

\* UnregisterSession: only the holder of the name saves and leaves the world.
TeardownUnregister(s) ==
    LET n == sess[s].name
        b == sess[s].body
    IN /\ TearsDown(s)
       /\ ~sess[s].idleClosed
       /\ ~Retains(s)
       /\ claims' = Release(s)
       /\ sess' = [sess EXCEPT ![s].torn = TRUE, ![s].sendClosed = TRUE]
       /\ \/ /\ ~HoldsName(s)
             /\ UNCHANGED <<registry, world>>
          \/ /\ HoldsName(s)
             /\ registry' = [registry EXCEPT ![n] = NoSession]
             /\ world' = Without(n, b)
       /\ UNCHANGED <<bod, idling>>

-----------------------------------------------------------------------------
ReaderStep(s) ==
    \/ Connect(s) \/ SnapshotNames(s) \/ ClaimName(s) \/ DenyName(s) \/ ReadRecord(s)
    \/ WrongPassword(s) \/ Authenticate(s)
    \/ DupeCheckNone(s) \/ DupeCheckMenu(s) \/ DupeCheckTakeover(s)
    \/ MenuEnter(s) \/ EnterWorld(s) \/ FinishEntry(s) \/ MenuExit(s)
    \/ QuitRent(s) \/ QuitDrop(s)
    \/ LeaveReadLoop(s)

Teardown(s) == TeardownIdle(s) \/ TeardownLinkdead(s) \/ TeardownUnregister(s)

GameStep(n) ==
    \/ Die(n) \/ ExtractRetire(n) \/ ExtractToMenu(n)
    \/ IdleClose(n) \/ IdleNoDescriptor(n)

Next ==
    \/ \E s \in Sessions : ReaderStep(s) \/ Teardown(s)
    \/ \E n \in Names : GameStep(n) \/ Kick(n)
    \/ IdleRent

Spec == Init /\ [][Next]_vars

(* Fairness. A reader runs its handler to the end and, once out of its loop, *)
(* the teardown. A read ends by itself only when the socket was closed, as   *)
(* closeIdleDescriptor does: a playing telnet connection's has no deadline.  *)
(* The game loop extracts on every pulse, and its hourly tick ages every     *)
(* mortal's body, so one nobody drives is idled out. Nothing is assumed of   *)
(* the peer.                                                                 *)
HandlerStep(s) ==
    \/ ClaimName(s) \/ DenyName(s) \/ Authenticate(s)
    \/ DupeCheckNone(s) \/ DupeCheckMenu(s) \/ DupeCheckTakeover(s)
    \/ EnterWorld(s) \/ FinishEntry(s)

Fairness ==
    /\ \A s \in Sessions :
        /\ WF_vars(HandlerStep(s))
        /\ WF_vars(sess[s].idleClosed /\ LeaveReadLoop(s))
        /\ WF_vars(sess[s].pc = "closed" /\ Teardown(s))
    /\ \A n \in Names :
        /\ WF_vars(ExtractRetire(n) \/ ExtractToMenu(n))
        /\ WF_vars(IdleNoDescriptor(n))
    /\ WF_vars(IdleRent)

FairSpec == Spec /\ Fairness

-----------------------------------------------------------------------------
(* Properties *)

\* A body in the world always has an owner in the registry that plays it, so
\* extraction, a reconnect and a kick can all reach it; no order of login,
\* takeover, teardown and extraction leaves a body nobody can retire
\* (register, unregisterSession, performDupeCheck, drainPendingExtractions).
NoOrphanBody ==
    \A n \in Names : world[n] # NoBody =>
        registry[n] # NoSession /\ sess[registry[n]].body = world[n]

\* World.AddPlayer's "already online" error cannot happen: whoever reaches
\* enterWorld finds the name free or frees it in register, even when the
\* name's previous body was extracted, retired or taken over meanwhile.
AdmissionNeverRefused ==
    \A s \in Sessions : sess[s].pc = "entering" =>
        LET n == sess[s].name
            old == registry[n]
        IN world[n] # NoBody => old \in Sessions \ {s} /\ sess[old].body = world[n]

\* A connection that is reading commands and may still answer.
Drives(s) == sess[s].pc = "loop" /\ Playing(s) /\ ~sess[s].sendClosed

\* At most one connection drives a character: a takeover, a second menu entry
\* or a late teardown never leaves two (reconnect.go, manager.go register).
OneDriver ==
    \A s, t \in Sessions :
        Drives(s) /\ Drives(t) /\ sess[s].name = sess[t].name => s = t

\* A body flagged linkless has no attached descriptor: whoever reattaches
\* clears the flag (finishDupeCheck), and the flag is what autosave and tell
\* go by.
LinkdeadHasNoDriver ==
    \A n \in Names : world[n] # NoBody /\ bod[world[n]].linkless =>
        ~AttachedTo(registry[n], world[n])

\* What a telnet teardown leaves registered is linkdead: detached, so that
\* extraction retires it instead of sending it to a menu nobody reads.
TelnetLeavesOnlyLinkdead ==
    \A n \in Names : \A s \in Sessions \ Browsers :
        registry[n] = s /\ sess[s].pc = "closed" /\ sess[s].torn => sess[s].detached

\* The teardown of a connection that no longer holds its name touches neither
\* the registry nor the world (UnregisterSession's comment: a superseded
\* session must not clean up the character the new session plays).
StaleTeardownHarmless ==
    [][\A s \in Sessions : \A n \in Names :
        ~sess[s].torn /\ sess'[s].torn /\ registry[n] # s =>
            registry'[n] = registry[n] /\ world'[n] = world[n]]_vars

\* A takeover from a connection that is already being closed finds its body in
\* the world: "The descriptorless interval inside retirement is not a reconnect
\* target" (reconnect.go:36-37).
ReconnectsToLiveBody ==
    [][\A s \in Sessions :
        LET n == sess[s].name IN
        /\ sess[s].pc = "dupe" /\ sess'[s].pc = "loop" /\ ~sess'[s].menu
        /\ sess[registry[n]].sendClosed
        => world[n] = sess'[s].body]_vars

\* A mortal's linkdead body is reattached or, in the end, leaves the world.
LinkdeadEnds ==
    \A n \in Mortals :
        (world[n] # NoBody /\ bod[world[n]].linkless) ~>
            (world[n] = NoBody \/ ~bod[world[n]].linkless)

\* A mortal whose connection the server closed leaves the game in the end, even
\* when the silent peer keeps its reader from running the teardown: the idle
\* clock of the body does it, or a new login takes the body over.
ClosedLeavesGame ==
    \A n \in Mortals : \A s \in Sessions :
        (registry[n] = s /\ sess[s].sendClosed /\ world[n] # NoBody) ~>
            (registry[n] # s \/ world[n] = NoBody)

\* A registered connection that the server closes loses its name in the end:
\* Kick "lets the pumps' deferred cleanup do the rest (linkdead retention for a
\* playing character, otherwise unregistration)" (manager.go:2079-2080).
ClosedLosesName ==
    \A n \in Names : \A s \in Sessions :
        (registry[n] = s /\ sess[s].sendClosed /\ ~sess[s].torn) ~> (registry[n] # s)
-----------------------------------------------------------------------------
(* The inductive invariant that the safety properties follow from *)

\* The registry maps a name to a session that carries that name.
OwnName == \A n \in Names : registry[n] # NoSession => sess[registry[n]].name = n

\* A session is registered by enterWorld or a takeover, not before.
OwnStage ==
    \A n \in Names : registry[n] # NoSession =>
        sess[registry[n]].pc \in {"loop", "entering", "entered", "closed"}

\* From the name prompt on, a session has a name.
Named == \A s \in Sessions : sess[s].pc \notin {"name", "closed"} => sess[s].name \in Names

\* Nobody is at the menu before the duplicate check.
MenuAfterLogin ==
    \A s \in Sessions :
        sess[s].pc \in {"name", "snapshot", "password", "verify", "dupe"} => ~sess[s].menu

\* Where enterReturningPlayer may replace the body.
Swaps(s) == sess[s].pc = "entering" \/ (sess[s].pc = "loop" /\ sess[s].menu)

\* While the holder of a name may replace its body, none of that name is in the world.
SwapsOutside ==
    \A n \in Names : registry[n] # NoSession /\ Swaps(registry[n]) => world[n] = NoBody

\* Past the menu and not closed: a session that may become a driver.
Live(s) ==
    /\ sess[s].pc = "entered" \/ (sess[s].pc = "loop" /\ ~sess[s].menu)
    /\ ~sess[s].sendClosed

\* It holds its name: whoever takes the name away closes the session too.
LiveHoldsName == \A s \in Sessions : Live(s) => registry[sess[s].name] = s

\* Names, stages and bodies of registered sessions fit together at every step of
\* login, takeover, extraction and teardown.
IInv ==
    /\ TypeOK
    /\ OwnName
    /\ OwnStage
    /\ Named
    /\ MenuAfterLogin
    /\ SwapsOutside
    /\ LiveHoldsName
    /\ NoOrphanBody
=============================================================================
