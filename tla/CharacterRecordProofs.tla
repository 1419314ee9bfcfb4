------------------------ MODULE CharacterRecordProofs ------------------------
(***************************************************************************)
(* Theorems about CharacterRecord for every set of names, connections,     *)
(* browsers and bodies: it implements SessionLifecycle, so all that is     *)
(* proved there holds here; its records keep their shape; belongings are   *)
(* conserved, and the record of a character in play loads nowhere.         *)
(*                                                                         *)
(* OneKit and MidSessionLoadsNowhere follow from RecordInv: as long as no  *)
(* update was lost, the belongings of every name are accounted for, in the *)
(* game and out of it, and every copy of a record that is not outdated is  *)
(* what the database has.                                                  *)
(***************************************************************************)
EXTENDS CharacterRecord, SessionLifecycleProofs

-----------------------------------------------------------------------------
(* The session lifecycle underneath *)

\* Every step with its saves is a step of the lifecycle, or leaves it alone.
LEMMA RecordStepIsStep ==
    ASSUME [RecordNext]_allVars
    PROVE [Next]_vars
<1>1. CASE UNCHANGED allVars
  BY <1>1 DEF allVars
<1>2. ASSUME NEW s \in Sessions, PlainStep(s) PROVE Next
  BY <1>2 DEF PlainStep, Next, ReaderStep, Teardown
<1>3. ASSUME NEW s \in Sessions, RecordStep(s) PROVE Next \/ UNCHANGED vars
  BY <1>3 DEF RecordStep, RReadRecord, RWrongPassword, RAuthenticate, RDupeCheckMenu,
       RDupeCheckTakeover, RMenuEnter, REnterWorld, RQuitRent, Get, RTeardownLinkdead,
       RTeardownUnregister, Next, ReaderStep, Teardown
<1>4. ASSUME NEW n \in Names, IdleNoDescriptor(n) \/ Kick(n) PROVE Next
  BY <1>4 DEF Next, GameStep
<1>5. ASSUME NEW n \in Names, RecordGameStep(n) PROVE Next \/ UNCHANGED vars
  BY <1>5 DEF RecordGameStep, RDie, RExtractRetire, RExtractToMenu, RIdleClose, CrashSave,
       Next, GameStep
<1>6. CASE RIdleRent
  BY <1>6 DEF RIdleRent, Next
<1> QED BY <1>1, <1>2, <1>3, <1>4, <1>5, <1>6 DEF RecordNext

\* The saves are added to the lifecycle without changing it.
THEOREM RecordImplementsLifecycle == RecordSpec => Spec
<1>1. RecordInit => Init
  BY DEF RecordInit
<1> QED BY <1>1, RecordStepIsStep, PTL DEF RecordSpec, Spec

\* What is known of names, sessions and bodies in every reachable state.
Structure == IInv /\ ShutInv /\ BodyInv

\* It holds of the lifecycle with its saves.
LEMMA RecordStructure == RecordSpec => []Structure
<1>1. IInv /\ ShutInv /\ BodyInv => Structure
  BY DEF Structure
<1> QED BY <1>1, RecordImplementsLifecycle, Invariance, ShutForGood, BodiesOwned, PTL

-----------------------------------------------------------------------------
(* The inductive invariant *)

\* The belongings of a character. Out of the game they are in its record or lie
\* somewhere, and not both; in the game they are carried or lie somewhere, and
\* not both. A renter's record is up to date and its extraction under way, that
\* of others loads nowhere. Who is registered and out of the game has what the
\* record lists.
Accounted(n) ==
    /\ world[n] = NoBody => floor[n] = IF store[n].kit THEN 0 ELSE 1
    /\ world[n] # NoBody => floor[n] = IF kit[world[n]] THEN 0 ELSE 1
    /\ world[n] # NoBody /\ bod[world[n]].rented =>
          bod[world[n]].pending /\ store[n].kit = kit[world[n]]
    /\ world[n] # NoBody /\ ~bod[world[n]].rented => store[n].room = "nowhere"
    /\ world[n] = NoBody /\ registry[n] # NoSession =>
          kit[sess[registry[n]].body] = store[n].kit

\* A copy that is not outdated is what the record has, and nobody enters the
\* game as a renter.
CopyCurrent(s) ==
    /\ s \notin outdated =>
        /\ sess[s].pc = "verify" => snap[s].kit = store[sess[s].name].kit
        /\ sess[s].pc # "verify" /\ HoldsCopy(s) =>
              kit[sess[s].body] = store[sess[s].name].kit
        /\ sess[s].pc = "entering" => store[sess[s].name].room = "nowhere"
    /\ sess[s].pc = "entering" => ~bod[sess[s].body].rented

Current == (\A n \in Names : Accounted(n)) /\ (\A s \in Sessions : CopyCurrent(s))

RecordInv == ~lostUpdate => Current

-----------------------------------------------------------------------------
(* Whose body is whose *)

\* The holder of a name has a body of that name.
LEMMA HolderBody ==
    ASSUME Structure, NEW n \in Names, registry[n] # NoSession
    PROVE /\ registry[n] \in Sessions
          /\ sess[registry[n]].name = n
          /\ sess[registry[n]].body \in Bodies
          /\ bod[sess[registry[n]].body].name = n
<1>1. /\ registry[n] \in Sessions /\ sess[registry[n]].name = n
      /\ sess[registry[n]] \in SessionState /\ sess[registry[n]].body # NoBody
  BY HolderFacts DEF Structure, BodyInv, Embodied
<1>2. ~Gone(registry[n])
  BY DEF Gone
<1> QED BY <1>1, <1>2 DEF Structure, BodyInv, OwnBody, SessionState

\* A body in the world is under its own name, and its holder has it.
LEMMA InWorld ==
    ASSUME Structure, NEW n \in Names, world[n] # NoBody
    PROVE /\ world[n] \in Bodies
          /\ bod[world[n]].name = n
          /\ registry[n] \in Sessions
          /\ sess[registry[n]].name = n
          /\ sess[registry[n]].body = world[n]
<1>1. registry[n] # NoSession /\ sess[registry[n]].body = world[n]
  BY DEF Structure, IInv, NoOrphanBody
<1> QED BY <1>1, HolderBody

\* A candidate, or the body of a session at the menu, is of its own name and not
\* in the world, and no holder of a name has it too.
LEMMA CopyBody ==
    ASSUME Structure, NEW s \in Sessions, HoldsCopy(s), sess[s].pc # "verify"
    PROVE /\ sess[s].body \in Bodies
          /\ sess[s].name \in Names
          /\ bod[sess[s].body].name = sess[s].name
          /\ \A n \in Names : world[n] # sess[s].body
          /\ \A n \in Names : registry[n] \notin {s, NoSession} =>
                sess[registry[n]].body # sess[s].body
<1>1. sess[s] \in SessionState /\ sess[s].pc \in {"dupe", "entering", "loop"}
  BY DEF Structure, IInv, TypeOK, HoldsCopy
<1>2. sess[s].body \in Bodies /\ sess[s].body # NoBody /\ sess[s].name \in Names
  BY <1>1 DEF Structure, BodyInv, Embodied, SessionState, IInv, Named
<1>3. ~Gone(s) /\ ~sess[s].superseded
  BY <1>1 DEF Gone, Structure, ShutInv, SupersededForGood, HoldsCopy
<1>4. bod[sess[s].body].name = sess[s].name
  BY <1>2, <1>3 DEF Structure, BodyInv, OwnBody
<1>5. ASSUME NEW n \in Names, registry[n] \notin {s, NoSession}
      PROVE sess[registry[n]].body # sess[s].body
  <2>1. registry[n] \in Sessions /\ ~Gone(registry[n]) /\ ~sess[registry[n]].superseded
    BY <1>5, HolderFacts DEF Structure, ShutInv, SupersededForGood, Gone
  <2> QED BY <1>2, <1>3, <1>5, <2>1 DEF Structure, ShutInv, BodiesApart
<1>6. ASSUME NEW n \in Names, world[n] = sess[s].body PROVE FALSE
  <2>1. registry[n] \in Sessions /\ sess[registry[n]].body = world[n]
    BY <1>2, <1>6, InWorld
  <2>2. registry[n] = s
    BY <1>5, <1>6, <2>1, SessionAssumption
  <2>3. sess[s].pc # "dupe"
    BY <2>2, LoginUnregistered DEF Structure
  <2>4. Swaps(s)
    BY <1>1, <2>3 DEF Swaps, HoldsCopy
  <2> QED BY <1>2, <1>6, <2>2, <2>4, SessionAssumption DEF Structure, IInv, SwapsOutside
<1> QED BY <1>2, <1>4, <1>5, <1>6

\* Two copies are in two bodies.
LEMMA CopiesApart ==
    ASSUME Structure, NEW s \in Sessions, NEW t \in Sessions, s # t,
           HoldsCopy(s), sess[s].pc # "verify", HoldsCopy(t), sess[t].pc # "verify"
    PROVE sess[s].body # sess[t].body
<1>1. /\ ~Gone(s) /\ ~sess[s].superseded /\ ~Gone(t) /\ ~sess[t].superseded
  BY DEF Gone, Structure, ShutInv, SupersededForGood, HoldsCopy
<1> QED BY <1>1, CopyBody, SessionAssumption DEF Structure, ShutInv, BodiesApart

\* A free body is nobody's.
LEMMA FreeIsFree ==
    ASSUME Structure, NEW b \in FreeBodies
    PROVE /\ b \in Bodies
          /\ \A n \in Names : world[n] # b
          /\ \A n \in Names : registry[n] # NoSession => sess[registry[n]].body # b
          /\ \A t \in Sessions : HoldsCopy(t) => sess[t].body # b
<1>1. \A t \in Sessions : sess[t].body = b => Gone(t)
  BY DEF FreeBodies, Referenced
<1>2. \A t \in Sessions : Gone(t) => ~HoldsCopy(t) /\ \A n \in Names : registry[n] # t
  BY DEF Gone, HoldsCopy
<1>3. \A n \in Names : registry[n] # NoSession => registry[n] \in Sessions
  BY HolderBody
<1> QED BY <1>1, <1>2, <1>3 DEF FreeBodies, Referenced

-----------------------------------------------------------------------------
(* What a step leaves alone *)

\* The records and belongings of a name.
NameUntouched(m) ==
    /\ store'[m] = store[m] /\ floor'[m] = floor[m] /\ world'[m] = world[m]
    /\ world[m] # NoBody =>
          /\ kit'[world[m]] = kit[world[m]]
          /\ bod'[world[m]].rented = bod[world[m]].rented
          /\ bod[world[m]].pending => bod'[world[m]].pending
    /\ world[m] = NoBody /\ registry'[m] # NoSession =>
          /\ registry[m] # NoSession
          /\ kit'[sess'[registry'[m]].body] = kit[sess[registry[m]].body]

\* They stay accounted for.
LEMMA NameUntouchedKeeps ==
    ASSUME NEW m \in Names, Accounted(m), NameUntouched(m)
    PROVE Accounted(m)'
BY DEF Accounted, NameUntouched

\* A session and its copy of the record, unless that is outdated now.
CopyUntouched(t) ==
    /\ sess'[t].pc = "verify" =>
          sess[t].pc = "verify" /\ sess'[t].name = sess[t].name /\ snap'[t] = snap[t]
    /\ HoldsCopy(t)' /\ sess'[t].pc # "verify" =>
          /\ HoldsCopy(t) /\ sess[t].pc # "verify"
          /\ sess'[t].name = sess[t].name /\ sess'[t].body = sess[t].body
          /\ kit'[sess[t].body] = kit[sess[t].body]
    /\ sess'[t].pc = "entering" =>
          sess[t].pc = "entering" /\ bod'[sess[t].body].rented = bod[sess[t].body].rented
    /\ HoldsCopy(t)' /\ t \notin outdated' =>
          t \notin outdated /\ store'[sess[t].name] = store[sess[t].name]

\* What it has stays what the record has.
LEMMA CopyUntouchedKeeps ==
    ASSUME NEW t \in Sessions, CopyCurrent(t), CopyUntouched(t)
    PROVE CopyCurrent(t)'
<1>1. sess'[t].pc \in {"verify", "entering"} => HoldsCopy(t)'
  BY DEF HoldsCopy
<1> QED BY <1>1 DEF CopyCurrent, CopyUntouched

\* A save: what it writes, whose copies it leaves behind, and that the writer's
\* was not outdated.
LEMMA WriteFacts ==
    ASSUME RecordTypeOK, NEW n \in Names, NEW s, NEW rec, Write(n, s, rec), ~lostUpdate'
    PROVE /\ ~lostUpdate /\ s \notin outdated
          /\ store'[n] = rec
          /\ \A m \in Names \ {n} : store'[m] = store[m]
          /\ \A t \in Sessions : t \notin outdated' => t \notin outdated
          /\ \A t \in Sessions \ {s} :
                HoldsCopy(t) /\ t \notin outdated' => sess[t].name # n
BY DEF RecordTypeOK, Write, Behind

\* A session at a stage of the login has a name.
LEMMA CopyNamed ==
    ASSUME Structure, NEW t \in Sessions, HoldsCopy(t)
    PROVE sess[t].name \in Names
BY DEF Structure, IInv, Named, HoldsCopy


-----------------------------------------------------------------------------
(* Types *)

\* A save of a whole record keeps the tables of the database.
LEMMA WriteTypes ==
    ASSUME RecordTypeOK, NEW n, NEW s, NEW rec \in Record, Write(n, s, rec)
    PROVE /\ store' \in [Names -> Record]
          /\ outdated' \subseteq Sessions
          /\ lostUpdate' \in BOOLEAN
<1>1. store' \in [Names -> Record]
  BY DEF RecordTypeOK, Write
<1>2. outdated' \subseteq Sessions /\ lostUpdate' \in BOOLEAN
  BY DEF RecordTypeOK, Write, Behind
<1> QED BY <1>1, <1>2

\* What is dropped is counted up to two.
LEMMA DroppedType ==
    ASSUME RecordTypeOK, NEW n \in Names, NEW k \in BOOLEAN
    PROVE Dropped(n, k) \in [Names -> 0..2]
BY DEF RecordTypeOK, Dropped

\* What a body carries and a room make a record.
LEMMA RecordOf ==
    ASSUME RecordTypeOK, NEW b \in Bodies
    PROVE /\ kit[b] \in BOOLEAN /\ load[b] \in Rooms
          /\ \A r \in Rooms, k \in BOOLEAN : [kit |-> k, room |-> r] \in Record
          /\ "nowhere" \in Rooms /\ "quit" \in Rooms
BY DEF RecordTypeOK, Rooms, Record

\* What the database has under a name is a record.
LEMMA StoreType ==
    ASSUME RecordTypeOK, NEW n \in Names
    PROVE /\ store[n] \in Record /\ store[n].kit \in BOOLEAN /\ store[n].room \in Rooms
          /\ [store EXCEPT ![n].room = "nowhere"] \in [Names -> Record]
BY DEF RecordTypeOK, Record, Rooms

\* What a body keeps of its belongings is all of them or nothing.
LEMMA KeptType == \A b : Kept(b) \in BOOLEAN
BY DEF Kept

\* A session past its login has a body.
LEMMA LoopBody ==
    ASSUME Structure, NEW s \in Sessions,
           sess[s].pc \in {"dupe", "loop", "entering", "entered"} \/ sess[s].body # NoBody
    PROVE sess[s].body \in Bodies
<1>1. sess[s] \in SessionState
  BY DEF Structure, IInv, TypeOK
<1> QED BY <1>1 DEF SessionState, Structure, BodyInv, Embodied

\* The steps of the login keep the shape of the records.
LEMMA LoginTypes ==
    ASSUME RecordTypeOK, Structure, NEW s \in Sessions,
           RReadRecord(s) \/ RWrongPassword(s) \/ RAuthenticate(s) \/ RDupeCheckMenu(s)
           \/ RDupeCheckTakeover(s)
    PROVE RecordTypeOK'
<1>1. sess[s].pc \notin {"name", "closed"} => sess[s].name \in Names
  BY DEF Structure, IInv, Named
<1>2. CASE RReadRecord(s)
  <2>1. sess[s].name \in Names
    BY <1>1, <1>2 DEF RReadRecord, ReadRecord
  <2>2. store[sess[s].name] \in Record
    BY <2>1, StoreType
  <2> QED BY <1>2, <2>2 DEF RecordTypeOK, RReadRecord
<1>3. CASE RWrongPassword(s)
  <2>1. NoRecord \in Record
    BY DEF NoRecord, Record, Rooms
  <2> QED BY <1>3, <2>1 DEF RecordTypeOK, RWrongPassword
<1>4. CASE RAuthenticate(s)
  <2>1. NoRecord \in Record /\ snap[s].kit \in BOOLEAN /\ snap[s].room \in Rooms
    BY DEF RecordTypeOK, NoRecord, Record, Rooms
  <2> QED BY <1>4, <2>1 DEF RecordTypeOK, RAuthenticate
<1>5. CASE RDupeCheckMenu(s)
  BY <1>5 DEF RecordTypeOK, RDupeCheckMenu
<1>6. CASE RDupeCheckTakeover(s)
  BY <1>6 DEF RecordTypeOK, RDupeCheckTakeover
<1> QED BY <1>2, <1>3, <1>4, <1>5, <1>6

\* So do the steps of the menu and of playing.
LEMMA PlayTypes ==
    ASSUME RecordTypeOK, Structure, NEW s \in Sessions,
           RMenuEnter(s) \/ REnterWorld(s) \/ RQuitRent(s) \/ Get(s)
    PROVE RecordTypeOK'
<1>1. CASE RMenuEnter(s)
  <2>1. sess[s].pc = "loop"
    BY <1>1 DEF RMenuEnter, MenuEnter, AtMenu
  <2>2. sess[s].name \in Names /\ sess[s].body \in Bodies
    BY <2>1, LoopBody DEF Structure, IInv, Named
  <2>3. UNCHANGED <<floor, snap>>
    BY <1>1 DEF RMenuEnter
  <2>4. CASE ~bod[sess[s].body].rented
    <3>1. SaveNowhere(sess[s].name, s, sess[s].body) /\ UNCHANGED <<kit, load>>
      BY <1>1, <2>4 DEF RMenuEnter
    <3> QED BY <2>2, <2>3, <3>1, WriteTypes, RecordOf DEF RecordTypeOK, SaveNowhere
  <2>5. CASE bod[sess[s].body].rented
    <3>1. /\ kit' = [kit EXCEPT ![sess'[s].body] = store[sess[s].name].kit]
          /\ load' = [load EXCEPT ![sess'[s].body] = store[sess[s].name].room]
          /\ store' = [store EXCEPT ![sess[s].name].room = "nowhere"]
          /\ outdated' = (outdated \ {s}) \cup Behind(s, sess[s].name)
          /\ UNCHANGED lostUpdate
      BY <1>1, <2>5 DEF RMenuEnter
    <3> QED BY <2>2, <2>3, <3>1, StoreType DEF RecordTypeOK, Behind
  <2> QED BY <2>4, <2>5
<1>2. CASE REnterWorld(s)
  BY <1>2 DEF RecordTypeOK, REnterWorld
<1>3. CASE RQuitRent(s)
  <2>1. sess[s].body \in Bodies
    BY <1>3, LoopBody DEF RQuitRent, QuitRent, TakesCommand
  <2> QED BY <1>3, <2>1, WriteTypes, RecordOf DEF RecordTypeOK, RQuitRent
<1>4. CASE Get(s)
  <2>1. sess[s].name \in Names
    BY <1>4 DEF Get, TakesCommand, Structure, IInv, Named
  <2>2. floor[sess[s].name] - 1 \in 0..2
    BY <1>4, <2>1 DEF Get, RecordTypeOK
  <2> QED BY <1>4, <2>2 DEF RecordTypeOK, Get
<1> QED BY <1>1, <1>2, <1>3, <1>4

\* So do the teardowns of a transport.
LEMMA TeardownTypes ==
    ASSUME RecordTypeOK, Structure, NEW s \in Sessions,
           RTeardownLinkdead(s) \/ RTeardownUnregister(s)
    PROVE RecordTypeOK'
<1>1. CASE RTeardownLinkdead(s)
  <2>1. sess[s].body \in Bodies
    BY <1>1, LoopBody DEF RTeardownLinkdead, TeardownLinkdead, Retains
  <2> QED BY <1>1, <2>1, WriteTypes, RecordOf DEF RecordTypeOK, RTeardownLinkdead, SaveNowhere
<1>2. CASE RTeardownUnregister(s)
  <2>1. CASE HoldsName(s) /\ ~sess[s].menu
    <3>1. sess[s].name \in Names /\ sess[s].body \in Bodies
      <4>1. sess[s].name \in Names
        BY <2>1 DEF HoldsName, Structure, IInv, TypeOK, SessionState
      <4> QED BY <2>1, <4>1, HolderBody, SessionAssumption DEF HoldsName
    <3>2. SaveNowhere(sess[s].name, s, sess[s].body)
      BY <1>2, <2>1 DEF RTeardownUnregister
    <3> QED BY <1>2, <3>1, <3>2, WriteTypes, RecordOf
            DEF RecordTypeOK, RTeardownUnregister, SaveNowhere
  <2>2. CASE ~(HoldsName(s) /\ ~sess[s].menu)
    BY <1>2, <2>2 DEF RecordTypeOK, RTeardownUnregister, NoWrite
  <2> QED BY <2>1, <2>2
<1> QED BY <1>1, <1>2

\* So do the steps of the game loop.
LEMMA GameTypes ==
    ASSUME RecordTypeOK, Structure, NEW n \in Names, RecordGameStep(n)
    PROVE RecordTypeOK'
<1>1. CASE RDie(n)
  <2>1. kit[world[n]] \in BOOLEAN
    BY <1>1, InWorld, RecordOf DEF RDie, Die
  <2> QED BY <1>1, <2>1, DroppedType DEF RecordTypeOK, RDie
<1>2. CASE RExtractRetire(n)
  <2>1. world[n] # NoBody
    BY <1>2 DEF RExtractRetire, ExtractRetire, Extracts
  <2>2. world[n] \in Bodies
    BY <2>1, InWorld
  <2>3. kit' \in [Bodies -> BOOLEAN] /\ floor' \in [Names -> 0..2] /\ UNCHANGED <<load, snap>>
    BY <1>2, DroppedType DEF RExtractRetire, RecordTypeOK
  <2>4. \/ \E rec \in Record : Write(n, registry[n], rec)
        \/ NoWrite
    BY <1>2, <2>2, RecordOf, KeptType DEF RExtractRetire
  <2> QED BY <2>3, <2>4, WriteTypes DEF RecordTypeOK, NoWrite
<1>3. CASE RExtractToMenu(n)
  <2>1. world[n] # NoBody
    BY <1>3 DEF RExtractToMenu, ExtractToMenu, Extracts
  <2>2. world[n] \in Bodies
    BY <2>1, InWorld
  <2>3. kit' \in [Bodies -> BOOLEAN] /\ floor' \in [Names -> 0..2] /\ UNCHANGED <<load, snap>>
    BY <1>3, DroppedType, KeptType DEF RExtractToMenu, RecordTypeOK
  <2>4. \/ \E rec \in Record : Write(n, registry[n], rec)
        \/ NoWrite
    BY <1>3, <2>2, RecordOf, KeptType DEF RExtractToMenu
  <2> QED BY <2>3, <2>4, WriteTypes DEF RecordTypeOK, NoWrite
<1>4. CASE RIdleClose(n)
  <2>1. world[n] \in Bodies
    BY <1>4, InWorld DEF RIdleClose, IdleClose
  <2> QED BY <1>4, <2>1, WriteTypes, RecordOf DEF RecordTypeOK, RIdleClose, SaveNowhere
<1>5. CASE CrashSave(n)
  <2>1. sess[registry[n]].body \in Bodies
    BY <1>5, HolderBody DEF CrashSave
  <2> QED BY <1>5, <2>1, WriteTypes, RecordOf DEF RecordTypeOK, CrashSave, SaveNowhere
<1> QED BY <1>1, <1>2, <1>3, <1>4, <1>5 DEF RecordGameStep

\* The idle rent writes one field of one record.
LEMMA IdleRentTypes ==
    ASSUME RecordTypeOK, Structure, RIdleRent
    PROVE RecordTypeOK'
<1>1. idling \in Bodies
  BY DEF RIdleRent, IdleRent, Structure, IInv, TypeOK
<1>2. kit[idling] \in BOOLEAN
  BY <1>1, RecordOf
<1>3. store' \in [Names -> Record]
  BY <1>2 DEF RecordTypeOK, RIdleRent, Record
<1> QED BY <1>3 DEF RecordTypeOK, RIdleRent, Behind

\* The records start with their shape ...
LEMMA InitRecordTypes == RecordInit => RecordTypeOK
<1> SUFFICES ASSUME RecordInit PROVE RecordTypeOK
  OBVIOUS
<1>1. kit \in [Bodies -> BOOLEAN] /\ load \in [Bodies -> Rooms]
  BY DEF RecordInit, Rooms
<1>2. [kit |-> TRUE, room |-> "nowhere"] \in Record /\ NoRecord \in Record
  BY DEF Record, Rooms, NoRecord
<1>3. store \in [Names -> Record] /\ snap \in [Sessions -> Record]
  BY <1>2 DEF RecordInit
<1>4. 0 \in 0..2
  OBVIOUS
<1>5. floor \in [Names -> 0..2]
  BY <1>4 DEF RecordInit
<1>6. outdated \subseteq Sessions /\ lostUpdate \in BOOLEAN
  BY DEF RecordInit
<1> QED BY <1>1, <1>3, <1>5, <1>6 DEF RecordTypeOK

\* ... and every step keeps it.
LEMMA NextRecordTypes == Structure /\ RecordTypeOK /\ [RecordNext]_allVars => RecordTypeOK'
<1> SUFFICES ASSUME Structure, RecordTypeOK, [RecordNext]_allVars PROVE RecordTypeOK'
  OBVIOUS
<1>1. CASE UNCHANGED recordVars
  BY <1>1 DEF RecordTypeOK, recordVars
<1>2. ASSUME NEW s \in Sessions, RecordStep(s) PROVE RecordTypeOK'
  BY <1>2, LoginTypes, PlayTypes, TeardownTypes DEF RecordStep
<1>3. ASSUME NEW n \in Names, RecordGameStep(n) PROVE RecordTypeOK'
  BY <1>3, GameTypes
<1>4. CASE RIdleRent
  BY <1>4, IdleRentTypes
<1> QED BY <1>1, <1>2, <1>3, <1>4 DEF RecordNext, allVars

\* The records, the belongings and the history variables keep their shape
\* through every save, drop and extraction.
THEOREM RecordTypes == RecordSpec => []RecordTypeOK
<1> QED BY InitRecordTypes, NextRecordTypes, RecordStructure, PTL DEF RecordSpec

-----------------------------------------------------------------------------
(* Steps that neither save nor move belongings *)

\* The state after a step is accounted for when that of one name and one session
\* is, and the others were left alone.
LEMMA OneNameOneCopy ==
    ASSUME Structure, Current, NEW n \in Names, NEW s \in Sessions,
           \A m \in Names \ {n} : NameUntouched(m), Accounted(n)',
           \A t \in Sessions \ {s} : CopyUntouched(t), CopyCurrent(s)'
    PROVE Current'
<1>1. ASSUME NEW m \in Names PROVE Accounted(m)'
  BY <1>1, NameUntouchedKeeps DEF Current
<1>2. ASSUME NEW t \in Sessions PROVE CopyCurrent(t)'
  BY <1>2, CopyUntouchedKeeps DEF Current
<1> QED BY <1>1, <1>2 DEF Current

\* What a quiet step does to a session: it gets no copy it had not before.
QuietFor(t) ==
    /\ sess'[t].body = sess[t].body
    /\ sess'[t].pc = "verify" => sess[t].pc = "verify" /\ sess'[t].name = sess[t].name
    /\ HoldsCopy(t)' /\ sess'[t].pc # "verify" =>
          HoldsCopy(t) /\ sess[t].pc # "verify" /\ sess'[t].name = sess[t].name
    /\ sess'[t].pc = "entering" => sess[t].pc = "entering"

\* A step that is quiet for all, of a registry and a world that stay.
LEMMA QuietKeeps ==
    ASSUME Structure, Current, UNCHANGED <<kit, store, floor, snap, outdated, registry, world>>,
           \A b \in Bodies : /\ bod'[b].rented = bod[b].rented
                             /\ bod[b].pending => bod'[b].pending,
           \A t \in Sessions : QuietFor(t)
    PROVE Current'
<1>1. ASSUME NEW m \in Names PROVE NameUntouched(m)
  <2>1. registry[m] # NoSession => sess'[registry[m]].body = sess[registry[m]].body
    BY HolderBody DEF QuietFor
  <2>2. world[m] # NoBody => world[m] \in Bodies
    BY InWorld
  <2> QED BY <2>1, <2>2 DEF NameUntouched
<1>2. ASSUME NEW t \in Sessions PROVE CopyUntouched(t)
  <2>1. HoldsCopy(t) /\ sess[t].pc # "verify" => sess[t].body \in Bodies
    BY CopyBody
  <2>2. sess[t].pc = "entering" => HoldsCopy(t)
    BY DEF HoldsCopy
  <2> QED BY <2>1, <2>2 DEF CopyUntouched, QuietFor
<1> QED BY <1>1, <1>2, NameUntouchedKeeps, CopyUntouchedKeeps DEF Current

\* A session the step does not touch has its peace.
LEMMA SameIsQuiet ==
    ASSUME NEW t \in Sessions, sess'[t] = sess[t]
    PROVE QuietFor(t)
BY DEF QuietFor, HoldsCopy

\* The quiet steps of the login, the menu and the teardown.
LEMMA PlainStepQuiet ==
    ASSUME Structure, NEW s \in Sessions, PlainStep(s)
    PROVE /\ UNCHANGED <<registry, world>>
          /\ \A t \in Sessions : QuietFor(t)
          /\ \A b \in Bodies : /\ bod'[b].rented = bod[b].rented
                               /\ bod[b].pending => bod'[b].pending
<1> USE DEF QuietFor, HoldsCopy
<1>0. sess \in SessType /\ bod \in BodType
  BY DEF Structure, IInv, TypeOK, SessType, BodType
<1>1. CASE SnapshotNames(s)
  <2>1. UNCHANGED <<registry, world, bod>> /\ \A t \in Sessions \ {s} : sess'[t] = sess[t]
    BY <1>0, <1>1 DEF SnapshotNames, SessType
  <2>2. sess'[s].pc = "snapshot" /\ sess'[s].body = sess[s].body
    BY <1>0, <1>1 DEF SnapshotNames, SessType, SessionState
  <2> QED BY <2>1, <2>2
<1>2. CASE ClaimName(s)
  <2>1. UNCHANGED <<registry, world, bod>> /\ \A t \in Sessions \ {s} : sess'[t] = sess[t]
    BY <1>0, <1>2 DEF ClaimName, SessType
  <2>2. sess'[s].pc = "password" /\ sess'[s].body = sess[s].body
    BY <1>0, <1>2 DEF ClaimName, SessType, SessionState
  <2> QED BY <2>1, <2>2
<1>3. CASE DenyName(s)
  <2>1. UNCHANGED <<registry, world, bod>> /\ \A t \in Sessions \ {s} : sess'[t] = sess[t]
    BY <1>0, <1>3 DEF DenyName, SessType
  <2>2. sess'[s].pc = "name" /\ sess'[s].body = sess[s].body
    BY <1>0, <1>3 DEF DenyName, SessType, SessionState
  <2> QED BY <2>1, <2>2
<1>4. CASE DupeCheckNone(s)
  <2>1. UNCHANGED <<registry, world, bod>> /\ \A t \in Sessions \ {s} : sess'[t] = sess[t]
    BY <1>0, <1>4 DEF DupeCheckNone, SessType
  <2>2. /\ sess'[s].pc = "loop" /\ sess[s].pc = "dupe" /\ sess'[s].body = sess[s].body
        /\ sess'[s].name = sess[s].name
    BY <1>0, <1>4 DEF DupeCheckNone, SessType, SessionState
  <2> QED BY <2>1, <2>2
<1>5. CASE FinishEntry(s)
  <2>1. UNCHANGED <<registry, world, bod>> /\ \A t \in Sessions \ {s} : sess'[t] = sess[t]
    BY <1>0, <1>5 DEF FinishEntry, SessType
  <2>2. sess'[s].pc = "loop" /\ ~sess'[s].menu /\ sess'[s].body = sess[s].body
    BY <1>0, <1>5 DEF FinishEntry, SessType, SessionState
  <2> QED BY <2>1, <2>2
<1>6. CASE MenuExit(s)
  <2>1. UNCHANGED <<registry, world, bod>> /\ \A t \in Sessions \ {s} : sess'[t] = sess[t]
    BY <1>0, <1>6 DEF MenuExit, SessType
  <2>2. sess'[s].pc = "closed" /\ sess'[s].body = sess[s].body
    BY <1>0, <1>6 DEF MenuExit, SessType, SessionState
  <2> QED BY <2>1, <2>2
<1>7. CASE QuitDrop(s)
  <2>1. UNCHANGED <<registry, world, sess>>
    BY <1>7 DEF QuitDrop
  <2>2. \A b \in Bodies : /\ bod'[b].rented = bod[b].rented
                          /\ bod[b].pending => bod'[b].pending
    BY <1>0, <1>7 DEF QuitDrop, BodType, BodyState
  <2> QED BY <2>1, <2>2
<1>8. CASE LeaveReadLoop(s)
  <2>1. UNCHANGED <<registry, world, bod>> /\ \A t \in Sessions \ {s} : sess'[t] = sess[t]
    BY <1>0, <1>8 DEF LeaveReadLoop, SessType
  <2>2. sess'[s].pc = "closed" /\ sess'[s].body = sess[s].body
    BY <1>0, <1>8 DEF LeaveReadLoop, SessType, SessionState
  <2> QED BY <2>1, <2>2
<1>9. CASE TeardownIdle(s)
  <2>1. UNCHANGED <<registry, world, bod>> /\ \A t \in Sessions \ {s} : sess'[t] = sess[t]
    BY <1>0, <1>9 DEF TeardownIdle, SessType
  <2>2. /\ sess'[s].pc = sess[s].pc /\ sess'[s].body = sess[s].body
        /\ sess'[s].menu = sess[s].menu /\ sess'[s].name = sess[s].name
    BY <1>0, <1>9 DEF TeardownIdle, SessType, SessionState
  <2> QED BY <2>1, <2>2
<1> QED BY <1>1, <1>2, <1>3, <1>4, <1>5, <1>6, <1>7, <1>8, <1>9 DEF PlainStep

\* A kick, and the idling of a linkdead body, are quiet too.
LEMMA GameStepQuiet ==
    ASSUME Structure, NEW n \in Names, IdleNoDescriptor(n) \/ Kick(n)
    PROVE /\ UNCHANGED <<registry, world>>
          /\ \A t \in Sessions : QuietFor(t)
          /\ \A b \in Bodies : /\ bod'[b].rented = bod[b].rented
                               /\ bod[b].pending => bod'[b].pending
<1>0. sess \in SessType /\ bod \in BodType
  BY DEF Structure, IInv, TypeOK, SessType, BodType
<1>1. CASE IdleNoDescriptor(n)
  <2>1. UNCHANGED <<registry, world, sess>>
    BY <1>1 DEF IdleNoDescriptor
  <2>2. \A b \in Bodies : /\ bod'[b].rented = bod[b].rented
                          /\ bod[b].pending => bod'[b].pending
    BY <1>0, <1>1 DEF IdleNoDescriptor, BodType, BodyState
  <2> QED BY <2>1, <2>2, SameIsQuiet
<1>2. CASE Kick(n)
  <2>1. UNCHANGED <<registry, world, bod>>
    BY <1>2 DEF Kick
  <2>2. ASSUME NEW t \in Sessions
        PROVE /\ sess'[t].pc = sess[t].pc /\ sess'[t].body = sess[t].body
              /\ sess'[t].menu = sess[t].menu /\ sess'[t].name = sess[t].name
    BY <1>0, <1>2 DEF Kick, SessType, SessionState
  <2> QED BY <2>1, <2>2 DEF QuietFor, HoldsCopy
<1> QED BY <1>1, <1>2

\* So none of them disturbs the records.
LEMMA PlainKeeps ==
    ASSUME Structure, Current, UNCHANGED recordVars,
           \/ \E s \in Sessions : PlainStep(s)
           \/ \E n \in Names : IdleNoDescriptor(n) \/ Kick(n)
    PROVE Current'
BY PlainStepQuiet, GameStepQuiet, QuietKeeps DEF recordVars

-----------------------------------------------------------------------------
(* Saves *)

\* Who saves a character: the holder of its name, or a session with a copy.
Saver(s, n) ==
    /\ sess[s].name = n
    /\ sess[s].body \in Bodies
    /\ bod[sess[s].body].name = n
    /\ registry[n] = s \/ (HoldsCopy(s) /\ sess[s].pc # "verify")

\* No other name has the saver's body in the world, no other session a copy in it.
LEMMA SaverApart ==
    ASSUME Structure, NEW n \in Names, NEW s \in Sessions, Saver(s, n)
    PROVE /\ \A m \in Names \ {n} : world[m] # sess[s].body
          /\ \A m \in Names \ {n} : registry[m] # NoSession => sess[registry[m]].body # sess[s].body
          /\ \A t \in Sessions \ {s} :
                HoldsCopy(t) /\ sess[t].pc # "verify" => sess[t].body # sess[s].body
          /\ \A m \in Names \ {n} : registry[m] # s
<1>1. \A m \in Names \ {n} : world[m] # sess[s].body
  BY InWorld, SessionAssumption DEF Saver
<1>2. \A m \in Names \ {n} : registry[m] # NoSession => sess[registry[m]].body # sess[s].body
  BY HolderBody DEF Saver
<1>3. ASSUME NEW t \in Sessions \ {s}, HoldsCopy(t), sess[t].pc # "verify"
      PROVE sess[t].body # sess[s].body
  <2>1. CASE registry[n] = s
    BY <1>3, <2>1, CopyBody, SessionAssumption
  <2>2. CASE registry[n] # s
    BY <1>3, <2>2, CopiesApart DEF Saver
  <2> QED BY <2>1, <2>2
<1>4. \A m \in Names \ {n} : registry[m] # s
  BY HolderBody, SessionAssumption DEF Saver
<1> QED BY <1>1, <1>2, <1>3, <1>4

\* What the saver carries is what the record lists already, unless its body is
\* in the world.
LEMMA SaverCurrent ==
    ASSUME Structure, Current, NEW n \in Names, NEW s \in Sessions, Saver(s, n),
           s \notin outdated
    PROVE kit[sess[s].body] = store[n].kit \/ world[n] = sess[s].body
<1>1. CASE registry[n] = s
  <2>1. world[n] # NoBody => world[n] = sess[s].body
    BY <1>1, InWorld
  <2> QED BY <1>1, <2>1, SessionAssumption DEF Current, Accounted
<1>2. CASE HoldsCopy(s) /\ sess[s].pc # "verify"
  BY <1>2 DEF Current, CopyCurrent, Saver
<1> QED BY <1>1, <1>2 DEF Saver

\* A save of what the character carries, which may rent it, and which may take
\* it out of the game: all stays accounted for.
LEMMA SaveKeeps ==
    ASSUME Structure, RecordTypeOK, Current, ~lostUpdate',
           NEW n \in Names, NEW s \in Sessions, NEW r, Saver(s, n),
           Write(n, s, [kit |-> kit[sess[s].body], room |-> r]),
           UNCHANGED <<kit, floor, snap>>,
           \A m \in Names : registry'[m] = registry[m] \/ registry'[m] = NoSession,
           \A m \in Names : \/ world'[m] = world[m]
                            \/ /\ m = n /\ world[n] = sess[s].body
                               /\ world'[n] = NoBody /\ registry'[n] = NoSession,
           \A t \in Sessions : sess'[t].body = sess[t].body /\ sess'[t].name = sess[t].name,
           \A t \in Sessions \ {s} : sess'[t].pc = sess[t].pc /\ sess'[t].menu = sess[t].menu,
           HoldsCopy(s)' => HoldsCopy(s) /\ sess[s].pc # "verify" /\ sess'[s].pc # "verify",
           sess'[s].pc = "entering" => r = "nowhere" /\ ~bod'[sess[s].body].rented,
           \A b \in Bodies \ {sess[s].body} : /\ bod'[b].rented = bod[b].rented
                                              /\ bod[b].pending => bod'[b].pending,
           world[n] = sess[s].body /\ bod'[sess[s].body].rented => bod'[sess[s].body].pending,
           \/ r = "nowhere"
           \/ world[n] = NoBody
           \/ world[n] = sess[s].body /\ bod'[sess[s].body].rented
    PROVE Current'
<1> DEFINE b == sess[s].body
<1>1. /\ s \notin outdated /\ store'[n] = [kit |-> kit[b], room |-> r]
      /\ \A m \in Names \ {n} : store'[m] = store[m]
      /\ \A t \in Sessions : t \notin outdated' => t \notin outdated
      /\ \A t \in Sessions \ {s} : HoldsCopy(t) /\ t \notin outdated' => sess[t].name # n
  BY WriteFacts
<1>2. store'[n].kit = kit[b] /\ store'[n].room = r
  BY <1>1
<1>3. kit[b] = store[n].kit \/ world[n] = b
  BY <1>1, SaverCurrent
<1>4. b \in Bodies /\ b # NoBody
  BY SessionAssumption DEF Saver
<1> HIDE DEF b
<1>5. ASSUME NEW m \in Names \ {n} PROVE NameUntouched(m)
  <2>1. world[m] # NoBody => world[m] \in Bodies \ {b}
    BY InWorld, SaverApart DEF b
  <2>2. world'[m] = world[m]
    OBVIOUS
  <2>3. registry'[m] # NoSession => registry'[m] = registry[m] /\ registry[m] \in Sessions
    BY HolderBody
  <2> QED BY <1>1, <2>1, <2>2, <2>3 DEF NameUntouched, b
<1>6. Accounted(n)'
  <2>1. Accounted(n)
    BY DEF Current
  <2>2. CASE world[n] = NoBody
    <3>1. world'[n] = NoBody /\ kit[b] = store[n].kit
      BY <1>3, <1>4, <2>2
    <3>2. floor'[n] = IF store'[n].kit THEN 0 ELSE 1
      BY <1>2, <2>1, <2>2, <3>1 DEF Accounted
    <3>3. registry'[n] # NoSession => kit'[sess'[registry'[n]].body] = store'[n].kit
      <4>1. registry'[n] # NoSession =>
              registry'[n] = registry[n] /\ registry[n] \in Sessions
        BY HolderBody
      <4> QED BY <1>2, <2>1, <2>2, <3>1, <4>1 DEF Accounted
    <3> QED BY <3>1, <3>2, <3>3 DEF Accounted
  <2>3. CASE world[n] = b /\ world'[n] = NoBody
    BY <1>2, <1>4, <2>1, <2>3 DEF Accounted, b
  <2>4. CASE world[n] = b /\ world'[n] = b
    BY <1>2, <1>4, <2>1, <2>4 DEF Accounted, b
  <2>5. CASE world[n] # b /\ world[n] # NoBody
    <3>1. world'[n] = world[n] /\ world[n] \in Bodies \ {b}
      BY <2>5, InWorld DEF b
    <3>2. store'[n].kit = store[n].kit /\ store'[n].room = "nowhere"
      BY <1>2, <1>3, <2>5 DEF b
    <3> QED BY <2>1, <2>5, <3>1, <3>2 DEF Accounted, b
  <2> QED BY <2>2, <2>3, <2>4, <2>5 DEF b
<1>7. ASSUME NEW t \in Sessions \ {s} PROVE CopyUntouched(t)
  <2>1. HoldsCopy(t)' => HoldsCopy(t)
    BY DEF HoldsCopy
  <2>2. HoldsCopy(t) => sess[t].name \in Names
    BY CopyNamed
  <2>3. HoldsCopy(t) /\ sess[t].pc # "verify" => sess[t].body \in Bodies \ {b}
    BY SaverApart, CopyBody DEF b
  <2>4. sess[t].pc = "entering" => HoldsCopy(t)
    BY DEF HoldsCopy
  <2>5. HoldsCopy(t)' /\ t \notin outdated' =>
            t \notin outdated /\ store'[sess[t].name] = store[sess[t].name]
    BY <1>1, <2>1, <2>2
  <2>6. sess'[t].pc = "entering" => bod'[sess[t].body].rented = bod[sess[t].body].rented
    BY <2>3, <2>4 DEF b
  <2> QED BY <2>1, <2>5, <2>6 DEF CopyUntouched
<1>8. CopyCurrent(s)'
  <2>1. sess'[s].name = n /\ sess'[s].body = b
    BY DEF Saver, b
  <2>2. sess'[s].pc = "verify" => FALSE
    BY DEF HoldsCopy
  <2> QED BY <1>2, <2>1, <2>2 DEF CopyCurrent, b
<1> QED BY <1>5, <1>6, <1>7, <1>8, OneNameOneCopy

\* "quit rent": the record loads at the rent, the extraction is under way.
LEMMA RQuitRentKeeps ==
    ASSUME Structure, RecordTypeOK, Current, ~lostUpdate', NEW s \in Sessions, RQuitRent(s)
    PROVE Current'
<1> DEFINE n == sess[s].name
           b == sess[s].body
<1>1. /\ sess[s].pc = "loop" /\ b # NoBody /\ ~sess[s].menu
      /\ ~sess[s].sendClosed \/ HoldsName(s)
      /\ bod' = [bod EXCEPT ![b].rented = TRUE, ![b].pending = TRUE]
      /\ UNCHANGED <<registry, sess, world>>
  BY DEF RQuitRent, QuitRent, TakesCommand, Playing
<1>2. /\ Write(n, s, [kit |-> kit[b], room |-> "quit"])
      /\ UNCHANGED <<kit, floor, snap>>
  BY DEF RQuitRent
<1>3. n \in Names /\ b \in Bodies /\ registry[n] = s
  <2>1. n \in Names
    BY <1>1 DEF Structure, IInv, Named
  <2>2. registry[n] = s
    BY <1>1 DEF HoldsName, Structure, IInv, LiveHoldsName, Live
  <2> QED BY <1>1, <2>1, <2>2, LoopBody
<1>4. Saver(s, n)
  BY <1>3, HolderBody, SessionAssumption DEF Saver
<1>5. ~HoldsCopy(s)' /\ sess'[s].pc = "loop"
  BY <1>1 DEF HoldsCopy
<1>6. /\ bod'[b].rented /\ bod'[b].pending
      /\ \A c \in Bodies \ {b} : bod'[c] = bod[c]
  BY <1>1, <1>3 DEF Structure, IInv, TypeOK, BodyState
<1>7. world[n] = NoBody \/ world[n] = b
  BY <1>3, InWorld
<1> HIDE DEF n
<1> QED BY <1>1, <1>2, <1>3, <1>4, <1>5, <1>6, <1>7, SaveKeeps

\* The autosave of a playing character.
LEMMA CrashSaveKeeps ==
    ASSUME Structure, RecordTypeOK, Current, ~lostUpdate', NEW n \in Names, CrashSave(n)
    PROVE Current'
<1>0. PICK s \in Sessions : s = registry[n] /\ s # NoSession
  BY HolderBody DEF CrashSave
<1>1. /\ s # NoSession /\ ~sess[s].menu
      /\ Write(n, s, [kit |-> kit[sess[s].body], room |-> "nowhere"])
      /\ UNCHANGED <<vars, kit, floor, snap>>
  BY <1>0 DEF CrashSave, Playing, SaveNowhere
<1>2. Saver(s, n)
  BY <1>0, HolderBody DEF Saver
<1>3. ~HoldsCopy(s)'
  <2>1. sess[s].pc \in {"loop", "entering", "entered", "closed"}
    BY <1>0, HolderFacts DEF Structure
  <2>2. sess[s].pc # "entering"
    BY <1>1, <2>1 DEF Structure, ShutInv, MenuStages
  <2> QED BY <1>1, <2>1, <2>2 DEF HoldsCopy, vars
<1>4. world[n] = sess[s].body /\ bod[sess[s].body].rented => bod[sess[s].body].pending
  BY <1>2, SessionAssumption DEF Current, Accounted, Saver
<1>5. sess'[s].pc # "entering"
  BY <1>3 DEF HoldsCopy
<1>6. UNCHANGED <<registry, sess, world, bod>>
  BY <1>1 DEF vars
<1> QED BY <1>1, <1>2, <1>3, <1>4, <1>5, <1>6, SaveKeeps

\* The idle close's save: the body is in the world and stays.
LEMMA RIdleCloseKeeps ==
    ASSUME Structure, RecordTypeOK, Current, ~lostUpdate', NEW n \in Names, RIdleClose(n)
    PROVE Current'
<1>0. PICK s \in Sessions :
        /\ registry[n] = s /\ AttachedTo(s, world[n]) /\ world[n] # NoBody
        /\ bod' = [bod EXCEPT ![world[n]].idle = TRUE, ![world[n]].linkless = TRUE]
        /\ sess' = [sess EXCEPT ![s].idleClosed = TRUE, ![s].sendClosed = TRUE,
                                ![s].detached = TRUE]
        /\ UNCHANGED <<registry, world>>
  BY DEF RIdleClose, IdleClose
<1>1. /\ sess[s].body = world[n] /\ ~sess[s].menu
      /\ Write(n, s, [kit |-> kit[sess[s].body], room |-> "nowhere"])
      /\ UNCHANGED <<kit, floor, snap>>
  BY <1>0 DEF RIdleClose, AttachedTo, SaveNowhere
<1>2. Saver(s, n)
  BY <1>0, HolderBody, SessionAssumption DEF Saver
<1>3. \A t \in Sessions : /\ sess'[t].body = sess[t].body /\ sess'[t].name = sess[t].name
                          /\ sess'[t].pc = sess[t].pc /\ sess'[t].menu = sess[t].menu
  BY <1>0 DEF Structure, IInv, TypeOK, SessionState
<1>4. \A b \in Bodies : bod'[b].rented = bod[b].rented /\ bod'[b].pending = bod[b].pending
  BY <1>0 DEF Structure, IInv, TypeOK, BodyState
<1>5. sess[s].pc \in {"loop", "closed", "entered"}
  <2>1. sess[s].pc \in {"loop", "entering", "entered", "closed"}
    BY <1>0, HolderFacts, SessionAssumption DEF Structure
  <2>2. sess[s].pc # "entering"
    BY <1>1, <2>1 DEF Structure, ShutInv, MenuStages
  <2> QED BY <2>1, <2>2
<1>6. ~HoldsCopy(s)' /\ sess'[s].pc # "entering"
  BY <1>1, <1>3, <1>5 DEF HoldsCopy
<1>7. sess[s].body \in Bodies /\ (bod[sess[s].body].rented => bod[sess[s].body].pending)
  BY <1>0, <1>1, <1>2 DEF Current, Accounted, Saver
<1> QED BY <1>0, <1>1, <1>2, <1>3, <1>4, <1>6, <1>7, SaveKeeps

\* Whom a teardown would keep linkdead holds its name, or is a candidate whose
\* transport broke just before the duplicate check.
LEMMA RetainedSaver ==
    ASSUME Structure, NEW s \in Sessions, TearsDown(s), Retains(s)
    PROVE /\ Saver(s, sess[s].name) /\ sess[s].name \in Names
          /\ HoldsCopy(s) => sess[s].pc = "dupe"
<1>1. sess[s] \in SessionState /\ sess[s].pc \in Pcs
  BY DEF Structure, IInv, TypeOK, SessionState
<1>2. sess[s].pc \notin {"entering", "entered", "name", "snapshot", "password", "verify"}
  BY DEF Retains, Structure, ShutInv, MenuStages, BodyInv, Embodied
<1>3. CASE sess[s].pc = "dupe"
  <2>1. HoldsCopy(s)
    BY <1>3 DEF HoldsCopy
  <2> QED BY <1>3, <2>1, CopyBody DEF Saver
<1>4. CASE sess[s].pc \in {"loop", "closed"}
  <2>1. registry[sess[s].name] = s /\ sess[s].name \in Names
    <3>1. CASE sess[s].pc = "loop"
      BY <3>1 DEF Retains, Structure, IInv, LiveHoldsName, Live, Named
    <3>2. CASE sess[s].pc = "closed"
      BY <3>2 DEF Retains, Structure, BodyInv, LingerHoldsName, Lingers
    <3> QED BY <1>4, <3>1, <3>2
  <2> QED BY <1>4, <2>1, HolderBody, SessionAssumption DEF Saver, HoldsCopy, Retains
<1> QED BY <1>1, <1>2, <1>3, <1>4 DEF Pcs

\* The lost-link save.
LEMMA RTeardownLinkdeadKeeps ==
    ASSUME Structure, RecordTypeOK, Current, ~lostUpdate', NEW s \in Sessions,
           RTeardownLinkdead(s)
    PROVE Current'
<1>0. PICK n \in Names : n = sess[s].name /\ Saver(s, n)
  BY RetainedSaver DEF RTeardownLinkdead, TeardownLinkdead
<1>1. /\ HoldsCopy(s) => sess[s].pc = "dupe"
      /\ bod' = [bod EXCEPT ![sess[s].body].linkless = TRUE]
      /\ sess' = [sess EXCEPT ![s].torn = TRUE, ![s].detached = TRUE]
      /\ UNCHANGED <<registry, world>>
  BY RetainedSaver DEF RTeardownLinkdead, TeardownLinkdead
<1>2. /\ Write(n, s, [kit |-> kit[sess[s].body], room |-> "nowhere"])
      /\ UNCHANGED <<kit, floor, snap>>
  BY <1>0 DEF RTeardownLinkdead, SaveNowhere
<1>3. \A t \in Sessions : /\ sess'[t].body = sess[t].body /\ sess'[t].name = sess[t].name
                          /\ sess'[t].pc = sess[t].pc /\ sess'[t].menu = sess[t].menu
  BY <1>1 DEF Structure, IInv, TypeOK, SessionState
<1>4. \A b \in Bodies : bod'[b].rented = bod[b].rented /\ bod'[b].pending = bod[b].pending
  BY <1>1 DEF Structure, IInv, TypeOK, BodyState
<1>5. /\ HoldsCopy(s)' => HoldsCopy(s) /\ sess[s].pc = "dupe" /\ sess'[s].pc = "dupe"
      /\ sess'[s].pc # "entering"
  BY <1>1, <1>3 DEF HoldsCopy
<1>6. /\ sess[s].body \in Bodies
      /\ world[n] = sess[s].body /\ bod[sess[s].body].rented => bod[sess[s].body].pending
  BY <1>0, SessionAssumption DEF Current, Accounted, Saver
<1> QED BY <1>0, <1>1, <1>2, <1>3, <1>4, <1>5, <1>6, SaveKeeps

\* The save when a connection gives up its name, and the teardowns without one:
\* unless an update is lost, the body they leave behind is out of the world.
LEMMA RTeardownUnregisterKeeps ==
    ASSUME Structure, RecordTypeOK, Current, ~lostUpdate', NEW s \in Sessions,
           RTeardownUnregister(s)
    PROVE Current'
<1>1. /\ sess' = [sess EXCEPT ![s].torn = TRUE, ![s].sendClosed = TRUE]
      /\ UNCHANGED <<bod, kit, floor, snap>>
  BY DEF RTeardownUnregister, TeardownUnregister
<1>2. \A t \in Sessions : /\ sess'[t].body = sess[t].body /\ sess'[t].name = sess[t].name
                          /\ sess'[t].pc = sess[t].pc /\ sess'[t].menu = sess[t].menu
  BY <1>1 DEF Structure, IInv, TypeOK, SessionState
<1>3. \A t \in Sessions : QuietFor(t)
  BY <1>2 DEF QuietFor, HoldsCopy
<1>4. CASE ~HoldsName(s)
  <2>1. UNCHANGED <<registry, world, store, outdated>>
    BY <1>4 DEF RTeardownUnregister, TeardownUnregister, NoWrite
  <2> QED BY <1>1, <1>3, <2>1, QuietKeeps
<1>5. CASE HoldsName(s)
  <2>0. PICK n \in Names : n = sess[s].name /\ registry[n] = s /\ s # NoSession
    BY <1>5, SessionAssumption DEF HoldsName, Structure, IInv, TypeOK, SessionState
  <2>1. registry' = [registry EXCEPT ![n] = NoSession] /\ world' = Without(n, sess[s].body)
    BY <1>5, <2>0 DEF RTeardownUnregister, TeardownUnregister
  <2>2. /\ registry'[n] = NoSession
        /\ \A m \in Names \ {n} : registry'[m] = registry[m] /\ world'[m] = world[m]
    BY <2>1, WithoutFacts DEF Structure, IInv, TypeOK
  <2>3. Saver(s, n)
    BY <2>0, HolderBody DEF Saver
  <2>4. world[n] = NoBody \/ world[n] = sess[s].body
    BY <2>0, InWorld
  <2>5. world'[n] = NoBody
    BY <2>1, <2>3, <2>4, SessionAssumption DEF Without, Saver, Structure, IInv, TypeOK
  <2>6. CASE ~sess[s].menu
    <3>1. Write(n, s, [kit |-> kit[sess[s].body], room |-> "nowhere"])
      BY <1>5, <2>0, <2>6 DEF RTeardownUnregister, SaveNowhere
    <3>2. sess[s].pc \in {"loop", "closed", "entered"}
      <4>1. sess[s].pc \in {"loop", "entering", "entered", "closed"}
        BY <2>0, HolderFacts DEF Structure
      <4>2. sess[s].pc # "entering"
        BY <2>6, <4>1 DEF Structure, ShutInv, MenuStages
      <4> QED BY <4>1, <4>2
    <3>3. ~HoldsCopy(s)' /\ sess'[s].pc # "entering"
      BY <1>2, <2>6, <3>2 DEF HoldsCopy
    <3>4. \A m \in Names : registry'[m] = registry[m] \/ registry'[m] = NoSession
      BY <2>2
    <3>5. \A m \in Names : \/ world'[m] = world[m]
                           \/ /\ m = n /\ world[n] = sess[s].body
                              /\ world'[n] = NoBody /\ registry'[n] = NoSession
      BY <2>2, <2>4, <2>5
    <3>6. world[n] = sess[s].body /\ bod[sess[s].body].rented => bod[sess[s].body].pending
      BY <2>3, SessionAssumption DEF Current, Accounted, Saver
    <3> QED BY <1>1, <1>2, <2>3, <3>1, <3>3, <3>4, <3>5, <3>6, SaveKeeps
  <2>7. CASE sess[s].menu
    <3>1. UNCHANGED <<store, outdated>> /\ world[n] # sess[s].body
      BY <1>5, <2>0, <2>7 DEF RTeardownUnregister
    <3>2. world' = world
      BY <2>1, <3>1 DEF Without
    <3>3. ASSUME NEW m \in Names PROVE NameUntouched(m)
      <4>1. registry'[m] # NoSession => registry'[m] = registry[m] /\ registry[m] \in Sessions
        BY <2>2, HolderBody
      <4>2. registry'[m] # NoSession =>
              kit'[sess'[registry'[m]].body] = kit[sess[registry[m]].body]
        BY <1>1, <1>2, <4>1
      <4> QED BY <1>1, <3>1, <3>2, <4>1, <4>2 DEF NameUntouched
    <3>4. ASSUME NEW t \in Sessions PROVE CopyUntouched(t)
      BY <1>1, <1>2, <3>1 DEF CopyUntouched, HoldsCopy
    <3> QED BY <3>3, <3>4, NameUntouchedKeeps, CopyUntouchedKeeps DEF Current
  <2> QED BY <2>6, <2>7
<1> QED BY <1>4, <1>5

\* The entry saves everybody; a renter's new body is what the record has.
LEMMA RMenuEnterKeeps ==
    ASSUME Structure, RecordTypeOK, Current, ~lostUpdate', NEW s \in Sessions, RMenuEnter(s)
    PROVE Current'
<1>1. /\ sess[s].pc = "loop" /\ sess[s].menu /\ HoldsCopy(s) /\ sess[s].pc # "verify"
      /\ UNCHANGED <<registry, world, floor, snap>>
  BY DEF RMenuEnter, MenuEnter, AtMenu, HoldsCopy
<1>2. PICK n \in Names : n = sess[s].name
  BY <1>1, CopyNamed
<1>3. Saver(s, n)
  BY <1>1, <1>2, CopyBody DEF Saver
<1>4. sess \in SessType /\ bod \in BodType
  BY DEF Structure, IInv, TypeOK, SessType, BodType
<1>5. CASE ~bod[sess[s].body].rented
  <2>1. /\ sess' = [sess EXCEPT ![s].pc = "entering"] /\ UNCHANGED <<bod, kit>>
        /\ Write(n, s, [kit |-> kit[sess[s].body], room |-> "nowhere"])
    BY <1>2, <1>5 DEF RMenuEnter, MenuEnter, SaveNowhere
  <2>2. /\ \A t \in Sessions \ {s} : sess'[t] = sess[t]
        /\ sess'[s].pc = "entering" /\ sess'[s].body = sess[s].body
        /\ sess'[s].name = sess[s].name
    BY <1>4, <2>1 DEF SessType, SessionState
  <2>3. world[n] = sess[s].body /\ bod[sess[s].body].rented => bod[sess[s].body].pending
    BY <1>5
  <2> QED BY <1>1, <1>3, <1>5, <2>1, <2>2, <2>3, SaveKeeps
<1>6. CASE bod[sess[s].body].rented
  <2>1. PICK c \in FreeBodies :
          /\ bod' = [bod EXCEPT ![c] = LoadedBody(n)]
          /\ sess' = [sess EXCEPT ![s].pc = "entering", ![s].body = c]
    BY <1>2, <1>6 DEF RMenuEnter, MenuEnter
  <2>2. /\ c \in Bodies
        /\ \A m \in Names : world[m] # c
        /\ \A m \in Names : registry[m] # NoSession => sess[registry[m]].body # c
        /\ \A t \in Sessions : HoldsCopy(t) => sess[t].body # c
    BY FreeIsFree
  <2>3. /\ \A t \in Sessions \ {s} : sess'[t] = sess[t]
        /\ sess'[s].pc = "entering" /\ sess'[s].body = c /\ sess'[s].name = n
    BY <1>2, <1>4, <2>1 DEF SessType, SessionState
  <2>4. ~bod'[c].rented /\ \A b \in Bodies \ {c} : bod'[b] = bod[b]
    BY <1>4, <2>1, <2>2 DEF LoadedBody, BodType
  <2>5. /\ kit' = [kit EXCEPT ![c] = store[n].kit]
        /\ store' = [store EXCEPT ![n].room = "nowhere"]
        /\ outdated' = (outdated \ {s}) \cup Behind(s, n)
    BY <1>2, <1>6, <2>3 DEF RMenuEnter
  <2>6. /\ kit'[c] = store[n].kit /\ \A b \in Bodies \ {c} : kit'[b] = kit[b]
        /\ store'[n].kit = store[n].kit /\ store'[n].room = "nowhere"
        /\ \A m \in Names \ {n} : store'[m] = store[m]
    BY <2>2, <2>5 DEF RecordTypeOK, Record
  <2>7. ASSUME NEW m \in Names \ {n} PROVE NameUntouched(m)
    <3>1. world[m] # NoBody => world[m] \in Bodies \ {c}
      BY <2>2, InWorld
    <3>2. registry[m] # NoSession =>
             /\ registry[m] \in Sessions \ {s}
             /\ sess[registry[m]].body \in Bodies \ {c}
      BY <1>3, <2>2, HolderBody, SaverApart
    <3> QED BY <1>1, <2>3, <2>4, <2>6, <3>1, <3>2 DEF NameUntouched
  <2>8. Accounted(n)'
    <3>1. Accounted(n)
      BY DEF Current
    <3>2. world[n] # NoBody => world[n] \in Bodies \ {c}
      BY <2>2, InWorld
    <3>3. registry[n] # NoSession /\ registry[n] # s =>
             /\ registry[n] \in Sessions \ {s}
             /\ sess[registry[n]].body \in Bodies \ {c}
      BY <2>2, HolderBody
    <3>4. CASE world[n] # NoBody
      BY <1>1, <2>4, <2>6, <3>1, <3>2, <3>4 DEF Accounted
    <3>5. CASE world[n] = NoBody
      BY <1>1, <2>3, <2>6, <3>1, <3>3, <3>5 DEF Accounted
    <3> QED BY <3>4, <3>5
  <2>9. ASSUME NEW t \in Sessions \ {s} PROVE CopyUntouched(t)
    <3>1. HoldsCopy(t)' => HoldsCopy(t)
      BY <2>3 DEF HoldsCopy
    <3>2. HoldsCopy(t) /\ sess[t].pc # "verify" => sess[t].body \in Bodies \ {c}
      BY <2>2, CopyBody
    <3>3. sess[t].pc = "entering" => HoldsCopy(t)
      BY DEF HoldsCopy
    <3>4. HoldsCopy(t)' /\ t \notin outdated' =>
              t \notin outdated /\ store'[sess[t].name] = store[sess[t].name]
      BY <2>5, <2>6, <3>1, CopyNamed DEF Behind
    <3> QED BY <1>1, <2>3, <2>4, <2>6, <3>1, <3>2, <3>3, <3>4 DEF CopyUntouched
  <2>10. CopyCurrent(s)'
    BY <2>3, <2>4, <2>6 DEF CopyCurrent
  <2> QED BY <2>7, <2>8, <2>9, <2>10, OneNameOneCopy
<1> QED BY <1>5, <1>6

-----------------------------------------------------------------------------
(* Steps of the login *)

\* A step that changes no body's place or belongings and one session's copy.
LEMMA OneCopyStep ==
    ASSUME Structure, Current, UNCHANGED <<kit, store, floor, registry, world, bod>>,
           NEW s \in Sessions, \A t \in Sessions \ {s} : sess'[t] = sess[t] /\ snap'[t] = snap[t],
           sess'[s].body = sess[s].body,
           outdated' = outdated \ {s},
           CopyCurrent(s)'
    PROVE Current'
<1>1. ASSUME NEW m \in Names PROVE NameUntouched(m)
  <2>1. registry[m] # NoSession => registry[m] \in Sessions
    BY HolderBody
  <2> QED BY <2>1 DEF NameUntouched
<1>2. ASSUME NEW t \in Sessions \ {s} PROVE CopyUntouched(t)
  BY DEF CopyUntouched, HoldsCopy
<1>3. \A t \in Sessions \ {s} : CopyCurrent(t)'
  BY <1>2, CopyUntouchedKeeps DEF Current
<1>4. \A m \in Names : Accounted(m)'
  BY <1>1, NameUntouchedKeeps DEF Current
<1> QED BY <1>3, <1>4 DEF Current

\* The record as read is the record.
LEMMA RReadRecordKeeps ==
    ASSUME Structure, RecordTypeOK, Current, NEW s \in Sessions, RReadRecord(s)
    PROVE Current'
<1>1. /\ sess' = [sess EXCEPT ![s].pc = "verify"]
      /\ snap' = [snap EXCEPT ![s] = store[sess[s].name]]
      /\ outdated' = outdated \ {s}
      /\ UNCHANGED <<kit, store, floor, registry, world, bod>>
  BY DEF RReadRecord, ReadRecord
<1>2. /\ \A t \in Sessions \ {s} : sess'[t] = sess[t] /\ snap'[t] = snap[t]
      /\ sess'[s].pc = "verify" /\ sess'[s].body = sess[s].body /\ sess'[s].name = sess[s].name
      /\ snap'[s] = store[sess[s].name]
  BY <1>1 DEF Structure, IInv, TypeOK, SessionState, RecordTypeOK
<1>3. CopyCurrent(s)'
  BY <1>1, <1>2 DEF CopyCurrent, HoldsCopy
<1> QED BY <1>1, <1>2, <1>3, OneCopyStep

\* A wrong password forgets it.
LEMMA RWrongPasswordKeeps ==
    ASSUME Structure, RecordTypeOK, Current, NEW s \in Sessions, RWrongPassword(s)
    PROVE Current'
<1>1. /\ snap' = [snap EXCEPT ![s] = NoRecord]
      /\ outdated' = outdated \ {s}
      /\ UNCHANGED <<kit, store, floor, registry, world, bod>>
      /\ \/ sess' = [sess EXCEPT ![s].pc = "password"]
         \/ sess' = [sess EXCEPT ![s].pc = "closed", ![s].sendClosed = TRUE]
  BY DEF RWrongPassword, WrongPassword
<1>2. /\ \A t \in Sessions \ {s} : sess'[t] = sess[t] /\ snap'[t] = snap[t]
      /\ sess'[s].pc \in {"password", "closed"} /\ sess'[s].body = sess[s].body
  BY <1>1 DEF Structure, IInv, TypeOK, SessionState, RecordTypeOK
<1>3. CopyCurrent(s)'
  BY <1>2 DEF CopyCurrent, HoldsCopy
<1> QED BY <1>1, <1>2, <1>3, OneCopyStep

\* The candidate gets what was read into a body nobody has.
LEMMA RAuthenticateKeeps ==
    ASSUME Structure, RecordTypeOK, Current, NEW s \in Sessions, RAuthenticate(s)
    PROVE Current'
<1>1. sess \in SessType /\ bod \in BodType
  BY DEF Structure, IInv, TypeOK, SessType, BodType
<1>2. PICK b \in FreeBodies :
        /\ bod' = [bod EXCEPT ![b] = LoadedBody(sess[s].name)]
        /\ sess' = [sess EXCEPT ![s].pc = "dupe", ![s].body = b]
  BY DEF RAuthenticate, Authenticate
<1>3. /\ b \in Bodies
      /\ \A m \in Names : world[m] # b
      /\ \A m \in Names : registry[m] # NoSession => sess[registry[m]].body # b
      /\ \A t \in Sessions : HoldsCopy(t) => sess[t].body # b
  BY FreeIsFree
<1>4. /\ sess[s].pc = "verify" /\ UNCHANGED <<registry, world, store, floor, outdated>>
      /\ \A t \in Sessions \ {s} : sess'[t] = sess[t]
      /\ sess'[s].pc = "dupe" /\ sess'[s].body = b /\ sess'[s].name = sess[s].name
  BY <1>1, <1>2 DEF RAuthenticate, Authenticate, SessType, SessionState
<1>5. kit' = [kit EXCEPT ![b] = snap[s].kit] /\ snap' = [snap EXCEPT ![s] = NoRecord]
  BY <1>4 DEF RAuthenticate
<1>6. /\ kit'[b] = snap[s].kit /\ \A c \in Bodies \ {b} : kit'[c] = kit[c] /\ bod'[c] = bod[c]
      /\ \A t \in Sessions \ {s} : snap'[t] = snap[t]
  BY <1>1, <1>2, <1>3, <1>5 DEF RecordTypeOK, BodType
<1>7. ASSUME NEW m \in Names PROVE NameUntouched(m)
  <2>1. world[m] # NoBody => world[m] \in Bodies \ {b}
    BY <1>3, InWorld
  <2>2. registry[m] # NoSession =>
          registry[m] \in Sessions \ {s} /\ sess[registry[m]].body \in Bodies \ {b}
    BY <1>3, <1>4, HolderBody, LoginUnregistered DEF Structure
  <2> QED BY <1>4, <1>6, <2>1, <2>2 DEF NameUntouched
<1>8. ASSUME NEW t \in Sessions \ {s} PROVE CopyUntouched(t)
  <2>1. HoldsCopy(t) /\ sess[t].pc # "verify" => sess[t].body \in Bodies \ {b}
    BY <1>3, CopyBody
  <2>2. sess[t].pc = "entering" => HoldsCopy(t)
    BY DEF HoldsCopy
  <2>3. HoldsCopy(t)' => HoldsCopy(t)
    BY <1>4 DEF HoldsCopy
  <2> QED BY <1>4, <1>6, <2>1, <2>2, <2>3 DEF CopyUntouched
<1>9. CopyCurrent(s)'
  <2>1. CopyCurrent(s)
    BY DEF Current
  <2> QED BY <1>4, <1>6, <2>1 DEF CopyCurrent
<1>10. \A m \in Names : Accounted(m)'
  BY <1>7, NameUntouchedKeeps DEF Current
<1>11. \A t \in Sessions : CopyCurrent(t)'
  BY <1>8, <1>9, CopyUntouchedKeeps DEF Current
<1> QED BY <1>10, <1>11 DEF Current

\* A copy at the menu is closed: unless it was just entering, nothing of it was
\* in the game.
LEMMA RDupeCheckMenuKeeps ==
    ASSUME Structure, RecordTypeOK, Current, ~lostUpdate', NEW s \in Sessions, RDupeCheckMenu(s)
    PROVE Current'
<1>1. sess[s].pc = "dupe" /\ sess[s].name \in Names
  BY DEF RDupeCheckMenu, DupeCheckMenu, Structure, IInv, Named
<1>2. PICK n \in Names : n = sess[s].name
  BY <1>1
<1>3. registry[n] # NoSession
  BY <1>2 DEF RDupeCheckMenu, DupeCheckMenu
<1>4. PICK old \in Sessions : old = registry[n]
  BY <1>3, HolderBody
<1>5. /\ sess[old].menu /\ sess[old].pc # "entered"
      /\ registry' = [registry EXCEPT ![n] = NoSession]
      /\ world' = Without(n, sess[old].body)
      /\ sess' = [sess EXCEPT ![old].sendClosed = TRUE, ![s].pc = "loop", ![s].menu = TRUE]
      /\ UNCHANGED <<bod, kit, store, floor, snap, outdated>>
  BY <1>2, <1>4 DEF RDupeCheckMenu, DupeCheckMenu
<1>6. world[n] = NoBody
  BY <1>3, <1>4, <1>5 DEF Structure, BodyInv, MenuOutside
<1>7. /\ registry'[n] = NoSession
      /\ \A m \in Names \ {n} : registry'[m] = registry[m]
      /\ \A m \in Names : world'[m] = world[m]
  BY <1>5, <1>6 DEF Without, Structure, IInv, TypeOK
<1>8. /\ \A t \in Sessions : sess'[t].body = sess[t].body /\ sess'[t].name = sess[t].name
      /\ \A t \in Sessions \ {s} : sess'[t].pc = sess[t].pc /\ sess'[t].menu = sess[t].menu
      /\ sess'[s].pc = "loop"
  BY <1>5 DEF Structure, IInv, TypeOK, SessionState
<1>9. ASSUME NEW m \in Names PROVE NameUntouched(m)
  <2>1. registry'[m] # NoSession => registry'[m] = registry[m] /\ registry[m] \in Sessions
    BY <1>7, HolderBody
  <2> QED BY <1>5, <1>7, <1>8, <2>1 DEF NameUntouched
<1>10. ASSUME NEW t \in Sessions PROVE CopyUntouched(t)
  <2>1. CASE t = s
    BY <1>1, <1>5, <1>8, <2>1 DEF CopyUntouched, HoldsCopy
  <2>2. CASE t # s
    BY <1>5, <1>8, <2>2 DEF CopyUntouched, HoldsCopy
  <2> QED BY <2>1, <2>2
<1> QED BY <1>9, <1>10, NameUntouchedKeeps, CopyUntouchedKeeps DEF Current

\* The candidate's belongings are freed, the body taken over keeps its own.
LEMMA RDupeCheckTakeoverKeeps ==
    ASSUME Structure, RecordTypeOK, Current, NEW s \in Sessions, RDupeCheckTakeover(s)
    PROVE Current'
<1>1. sess[s].pc = "dupe" /\ sess[s].name \in Names /\ ~sess[s].menu
  BY DEF RDupeCheckTakeover, DupeCheckTakeover, Structure, IInv, Named, MenuAfterLogin
<1>2. PICK n \in Names : n = sess[s].name
  BY <1>1
<1>3. registry[n] # NoSession
  BY <1>2 DEF RDupeCheckTakeover, DupeCheckTakeover
<1>4. PICK old \in Sessions \ {s} : old = registry[n]
  BY <1>1, <1>3, HolderBody, LoginUnregistered DEF Structure
<1>5. /\ registry' = [registry EXCEPT ![n] = s]
      /\ sess' = [sess EXCEPT ![old] = Supersede(@), ![s].pc = "loop", ![s].body = sess[old].body]
      /\ bod' = [bod EXCEPT ![sess[old].body] = Reattach(@)]
      /\ kit' = [kit EXCEPT ![sess[s].body] = FALSE]
      /\ outdated' = outdated \ {s}
      /\ UNCHANGED <<world, store, floor, snap>>
  BY <1>2, <1>4 DEF RDupeCheckTakeover, DupeCheckTakeover
<1>6. /\ \A t \in Sessions \ {s} : /\ sess'[t].body = sess[t].body /\ sess'[t].name = sess[t].name
                                   /\ sess'[t].pc = sess[t].pc /\ sess'[t].menu = sess[t].menu
      /\ sess'[s].body = sess[old].body /\ sess'[s].pc = "loop" /\ ~sess'[s].menu
  <2>1. sess \in SessType
    BY DEF Structure, IInv, TypeOK, SessType
  <2>2. /\ sess'[old] = Supersede(sess[old])
        /\ sess'[s] = [sess[s] EXCEPT !.pc = "loop", !.body = sess[old].body]
        /\ \A t \in Sessions \ {s, old} : sess'[t] = sess[t]
    BY <1>5, <2>1 DEF SessType
  <2>3. sess[old] \in SessionState /\ sess[s] \in SessionState
    BY <2>1 DEF SessType
  <2>4. /\ sess'[old].body = sess[old].body /\ sess'[old].name = sess[old].name
        /\ sess'[old].pc = sess[old].pc /\ sess'[old].menu = sess[old].menu
    BY <2>2, <2>3 DEF SessionState, Supersede
  <2>5. sess'[s].body = sess[old].body /\ sess'[s].pc = "loop" /\ ~sess'[s].menu
    BY <1>1, <2>2, <2>3 DEF SessionState
  <2> QED BY <2>2, <2>4, <2>5
<1>7. \A b \in Bodies : bod'[b].rented = bod[b].rented /\ bod'[b].pending = bod[b].pending
  BY <1>5 DEF Structure, IInv, TypeOK, BodyState, Reattach
<1>8. HoldsCopy(s) /\ sess[s].pc # "verify"
  BY <1>1 DEF HoldsCopy
<1>9. /\ sess[s].body \in Bodies
      /\ \A m \in Names : world[m] # sess[s].body
      /\ \A m \in Names : registry[m] \notin {s, NoSession} =>
            sess[registry[m]].body # sess[s].body
  BY <1>8, CopyBody
<1>10. \A c \in Bodies \ {sess[s].body} : kit'[c] = kit[c]
  BY <1>5 DEF RecordTypeOK
<1>11. /\ registry'[n] = s
       /\ \A m \in Names \ {n} : registry'[m] = registry[m]
  BY <1>5 DEF Structure, IInv, TypeOK
<1>12. ASSUME NEW m \in Names PROVE NameUntouched(m)
  <2>1. world[m] # NoBody => world[m] \in Bodies \ {sess[s].body}
    BY <1>9, InWorld
  <2>2. registry[m] # NoSession =>
          /\ registry[m] \in Sessions \ {s}
          /\ sess[registry[m]].body \in Bodies \ {sess[s].body}
    BY <1>1, <1>9, HolderBody, LoginUnregistered DEF Structure
  <2>3. registry'[m] # NoSession =>
          /\ registry[m] # NoSession
          /\ kit'[sess'[registry'[m]].body] = kit[sess[registry[m]].body]
    <3>1. CASE m = n
      BY <1>3, <1>4, <1>6, <1>10, <1>11, <2>2, <3>1
    <3>2. CASE m # n
      BY <1>6, <1>10, <1>11, <2>2, <3>2
    <3> QED BY <3>1, <3>2
  <2> QED BY <1>5, <1>7, <1>10, <2>1, <2>3 DEF NameUntouched
<1>13. ASSUME NEW t \in Sessions \ {s} PROVE CopyUntouched(t)
  <2>1. HoldsCopy(t) /\ sess[t].pc # "verify" => sess[t].body \in Bodies \ {sess[s].body}
    BY <1>8, CopyBody, CopiesApart
  <2>2. sess[t].pc = "entering" => HoldsCopy(t)
    BY DEF HoldsCopy
  <2>3. HoldsCopy(t)' => HoldsCopy(t)
    BY <1>6 DEF HoldsCopy
  <2> QED BY <1>5, <1>6, <1>7, <1>10, <2>1, <2>2, <2>3 DEF CopyUntouched
<1>14. CopyCurrent(s)'
  BY <1>6 DEF CopyCurrent, HoldsCopy
<1>15. \A m \in Names : Accounted(m)'
  BY <1>12, NameUntouchedKeeps DEF Current
<1>16. \A t \in Sessions : CopyCurrent(t)'
  BY <1>13, <1>14, CopyUntouchedKeeps DEF Current
<1> QED BY <1>15, <1>16 DEF Current

-----------------------------------------------------------------------------
(* Entry, play and the game loop *)

\* Unless an update is lost, what enters the world is what the record has.
LEMMA REnterWorldKeeps ==
    ASSUME Structure, RecordTypeOK, Current, ~lostUpdate', NEW s \in Sessions, REnterWorld(s)
    PROVE Current'
<1>1. /\ sess[s].pc = "entering" /\ HoldsCopy(s) /\ sess[s].pc # "verify"
      /\ UNCHANGED <<bod, kit, store, floor, snap, outdated>>
  BY DEF REnterWorld, EnterWorld, HoldsCopy
<1>2. PICK n \in Names : n = sess[s].name
  BY <1>1, CopyNamed
<1>3. s \notin outdated /\ world[n] = NoBody
  BY <1>2 DEF REnterWorld
<1>4. Saver(s, n)
  BY <1>1, <1>2, CopyBody DEF Saver
<1> DEFINE old == registry[n]
<1>5. /\ registry' = [registry EXCEPT ![n] = s]
      /\ sess' = [t \in Sessions |->
                     IF t = s THEN [sess[t] EXCEPT !.pc = "entered"]
                     ELSE IF t = old THEN [sess[t] EXCEPT !.sendClosed = TRUE]
                     ELSE sess[t]]
  BY <1>2 DEF REnterWorld, EnterWorld
<1>6. world'[n] = sess[s].body /\ \A m \in Names \ {n} : world'[m] = world[m]
  <2>1. PICK w \in WorldType : /\ world' = [w EXCEPT ![n] = sess[s].body]
                               /\ \A m \in Names \ {n} : w[m] = world[m]
    <3>1. /\ Without(n, sess[old].body) \in WorldType /\ world \in WorldType
          /\ \A m \in Names \ {n} : Without(n, sess[old].body)[m] = world[m]
      BY WithoutFacts DEF Structure, IInv, TypeOK, WorldType
    <3>2. world' = [(IF old \in Sessions \ {s} THEN Without(n, sess[old].body) ELSE world)
                       EXCEPT ![n] = sess[s].body]
      BY <1>2 DEF REnterWorld, EnterWorld
    <3> HIDE DEF old
    <3> QED BY <3>1, <3>2
  <2> QED BY <2>1 DEF WorldType
<1>7. registry'[n] = s /\ \A m \in Names \ {n} : registry'[m] = registry[m]
  BY <1>5 DEF Structure, IInv, TypeOK
<1>8. /\ \A t \in Sessions : sess'[t].body = sess[t].body /\ sess'[t].name = sess[t].name
      /\ \A t \in Sessions \ {s} : sess'[t].pc = sess[t].pc /\ sess'[t].menu = sess[t].menu
      /\ sess'[s].pc = "entered"
  <2>1. \A t \in Sessions : sess[t] \in SessionState
    BY DEF Structure, IInv, TypeOK
  <2> QED BY <1>5, <2>1 DEF SessionState
<1> HIDE DEF old
<1>9. ASSUME NEW m \in Names \ {n} PROVE NameUntouched(m)
  <2>1. registry[m] # NoSession => registry[m] \in Sessions
    BY HolderBody
  <2> QED BY <1>1, <1>6, <1>7, <1>8, <2>1 DEF NameUntouched
<1>10. Accounted(n)'
  <2>1. Accounted(n)
    BY DEF Current
  <2>2. /\ kit[sess[s].body] = store[n].kit /\ store[n].room = "nowhere"
        /\ ~bod[sess[s].body].rented
    BY <1>1, <1>2, <1>3 DEF Current, CopyCurrent
  <2>3. world'[n] # NoBody
    BY <1>4, <1>6, SessionAssumption DEF Saver
  <2> QED BY <1>1, <1>3, <1>6, <2>1, <2>2, <2>3 DEF Accounted
<1>11. ASSUME NEW t \in Sessions \ {s} PROVE CopyUntouched(t)
  BY <1>1, <1>8 DEF CopyUntouched, HoldsCopy
<1>12. CopyCurrent(s)'
  BY <1>8 DEF CopyCurrent, HoldsCopy
<1> QED BY <1>9, <1>10, <1>11, <1>12, OneNameOneCopy

\* A step of the body that name n has in the world: it is not rented, or already
\* being extracted, and no other name and no copy is in that body.
LEMMA WorldBodyStep ==
    ASSUME Structure, Current, NEW n \in Names, world[n] # NoBody,
           NEW s \in Sessions, s = registry[n],
           UNCHANGED snap,
           \A m \in Names \ {n} : registry'[m] = registry[m],
           \A m \in Names \ {n} : /\ world'[m] = world[m] /\ floor'[m] = floor[m]
                                  /\ store'[m] = store[m],
           \A t \in Sessions : sess'[t].body = sess[t].body /\ sess'[t].name = sess[t].name,
           \A t \in Sessions \ {s} : /\ sess'[t].pc = sess[t].pc
                                               /\ sess'[t].menu = sess[t].menu,
           \A b \in Bodies \ {world[n]} : kit'[b] = kit[b] /\ bod'[b] = bod[b],
           \A t \in Sessions : t \notin outdated' => t \notin outdated,
           store'[n] = store[n]
           \/ \A t \in Sessions \ {s} :
                HoldsCopy(t) /\ t \notin outdated' => sess[t].name # n,
           Accounted(n)',
           CopyCurrent(s)'
    PROVE Current'
<1>1. /\ world[n] \in Bodies /\ registry[n] \in Sessions
      /\ bod[world[n]].name = n /\ sess[registry[n]].body = world[n]
  BY InWorld
<1>2. ASSUME NEW m \in Names \ {n} PROVE NameUntouched(m)
  <2>1. world[m] # NoBody => world[m] \in Bodies \ {world[n]}
    BY <1>1, InWorld
  <2>2. registry[m] # NoSession =>
          registry[m] \in Sessions /\ sess[registry[m]].body \in Bodies \ {world[n]}
    BY <1>1, HolderBody
  <2> QED BY <2>1, <2>2 DEF NameUntouched
<1>3. ASSUME NEW t \in Sessions \ {s} PROVE CopyUntouched(t)
  <2>1. HoldsCopy(t) /\ sess[t].pc # "verify" => sess[t].body \in Bodies \ {world[n]}
    BY CopyBody
  <2>2. sess[t].pc = "entering" => HoldsCopy(t)
    BY DEF HoldsCopy
  <2>3. HoldsCopy(t)' => HoldsCopy(t)
    BY DEF HoldsCopy
  <2>4. HoldsCopy(t) => sess[t].name \in Names
    BY CopyNamed
  <2>5. HoldsCopy(t) /\ t \notin outdated' => store'[sess[t].name] = store[sess[t].name]
    BY <2>4
  <2> QED BY <2>1, <2>2, <2>3, <2>5 DEF CopyUntouched
<1> QED BY <1>2, <1>3, OneNameOneCopy

\* The holder of a body in the world has no copy of the record.
LEMMA HolderNoCopy ==
    ASSUME Structure, NEW n \in Names, world[n] # NoBody
    PROVE /\ ~HoldsCopy(registry[n])
          /\ sess[registry[n]].pc \in {"loop", "entered", "closed"}
<1>1. registry[n] \in Sessions /\ sess[registry[n]].body = world[n]
  BY InWorld
<1>2. sess[registry[n]].pc \in {"loop", "entering", "entered", "closed"}
  BY <1>1, HolderFacts, SessionAssumption DEF Structure
<1>3. ~HoldsCopy(registry[n])
  BY <1>1, <1>2, CopyBody DEF HoldsCopy
<1> QED BY <1>2, <1>3 DEF HoldsCopy

\* What a character picks up again lay on the floor, once.
LEMMA GetKeeps ==
    ASSUME Structure, RecordTypeOK, Current, NEW s \in Sessions, Get(s)
    PROVE Current'
<1>1. /\ sess[s].pc = "loop" /\ sess[s].body # NoBody
      /\ UNCHANGED <<registry, sess, world, bod, store, snap, outdated>>
  BY DEF Get, TakesCommand, Playing, vars
<1>2. PICK n \in Names : n = sess[s].name
  BY <1>1 DEF Structure, IInv, Named
<1>3. /\ world[n] = sess[s].body /\ floor[n] > 0 /\ ~kit[world[n]] /\ ~bod[world[n]].pending
      /\ kit' = [kit EXCEPT ![world[n]] = TRUE]
      /\ floor' = [floor EXCEPT ![n] = @ - 1]
  BY <1>2 DEF Get
<1>4. /\ world[n] \in Bodies /\ registry[n] \in Sessions
  BY <1>1, <1>3, InWorld
<1>5. /\ kit'[world[n]] /\ \A b \in Bodies \ {world[n]} : kit'[b] = kit[b]
      /\ floor'[n] = floor[n] - 1 /\ \A m \in Names \ {n} : floor'[m] = floor[m]
  BY <1>3, <1>4 DEF RecordTypeOK
<1>6. Accounted(n)'
  <2>1. Accounted(n) /\ world[n] # NoBody
    BY <1>1, <1>3 DEF Current
  <2>2. floor[n] = 1 /\ ~bod[world[n]].rented
    BY <1>3, <2>1 DEF Accounted
  <2>3. floor'[n] = 0
    BY <1>5, <2>2
  <2> QED BY <1>1, <1>5, <2>1, <2>2, <2>3 DEF Accounted
<1>7. PICK o \in Sessions : o = registry[n]
  BY <1>4
<1>8. CopyCurrent(o)'
  BY <1>1, <1>3, <1>7, HolderNoCopy DEF CopyCurrent, HoldsCopy
<1> QED BY <1>1, <1>3, <1>5, <1>6, <1>7, <1>8, WorldBodyStep

\* The belongings of the dead lie in the corpse.
LEMMA RDieKeeps ==
    ASSUME Structure, RecordTypeOK, Current, NEW n \in Names, RDie(n)
    PROVE Current'
<1>1. /\ world[n] # NoBody /\ ~bod[world[n]].pending
      /\ bod' = [bod EXCEPT ![world[n]].pending = TRUE]
      /\ kit' = [kit EXCEPT ![world[n]] = FALSE]
      /\ floor' = Dropped(n, kit[world[n]])
      /\ UNCHANGED <<registry, sess, world, store, snap, outdated>>
  BY DEF RDie, Die
<1>2. world[n] \in Bodies
  BY <1>1, InWorld
<1>3. /\ ~kit'[world[n]] /\ \A b \in Bodies \ {world[n]} : kit'[b] = kit[b]
      /\ bod'[world[n]].rented = bod[world[n]].rented
      /\ \A b \in Bodies \ {world[n]} : bod'[b] = bod[b]
  BY <1>1, <1>2 DEF RecordTypeOK, Structure, IInv, TypeOK, BodyState
<1>4. Accounted(n)
  BY DEF Current
<1>5. floor[n] = (IF kit[world[n]] THEN 0 ELSE 1) /\ ~bod[world[n]].rented
  BY <1>1, <1>4 DEF Accounted
<1>6. floor'[n] = 1 /\ \A m \in Names \ {n} : floor'[m] = floor[m]
  BY <1>1, <1>5 DEF RecordTypeOK, Dropped
<1>7. Accounted(n)'
  BY <1>1, <1>3, <1>4, <1>5, <1>6 DEF Accounted
<1>8. PICK o \in Sessions : o = registry[n]
  BY <1>1, InWorld
<1>9. CopyCurrent(o)'
  BY <1>1, <1>8, HolderNoCopy DEF CopyCurrent, HoldsCopy
<1> QED BY <1>1, <1>3, <1>6, <1>7, <1>8, <1>9, WorldBodyStep

\* Extraction frees or drops what is carried, and what it then saves is what is
\* left: nothing of a body that was not rented, everything of a renter.
LEMMA ExtractSaves ==
    ASSUME Structure, RecordTypeOK, Current, ~lostUpdate', NEW n \in Names, world[n] # NoBody,
           floor' = Dropped(n, kit[world[n]] /\ ~bod[world[n]].rented),
           \/ \E r : Write(n, registry[n], [kit |-> Kept(world[n]), room |-> r])
           \/ bod[world[n]].rented /\ NoWrite
    PROVE /\ floor'[n] = IF store'[n].kit THEN 0 ELSE 1
          /\ store'[n].kit = Kept(world[n])
          /\ \A m \in Names \ {n} : floor'[m] = floor[m] /\ store'[m] = store[m]
          /\ \A t \in Sessions : t \notin outdated' => t \notin outdated
          /\ \/ store'[n] = store[n]
             \/ \A t \in Sessions \ {registry[n]} :
                  HoldsCopy(t) /\ t \notin outdated' => sess[t].name # n
<1> DEFINE b == world[n]
<1>1. Accounted(n) /\ b \in Bodies /\ kit[b] \in BOOLEAN
  BY InWorld, RecordOf DEF Current
<1>2. /\ floor[n] = (IF kit[b] THEN 0 ELSE 1)
      /\ bod[b].rented => store[n].kit = kit[b]
  BY <1>1 DEF Accounted
<1>3. floor'[n] = (IF kit[b] /\ bod[b].rented THEN 0 ELSE 1)
  BY <1>2 DEF RecordTypeOK, Dropped
<1>4. \A m \in Names \ {n} : floor'[m] = floor[m]
  BY DEF RecordTypeOK, Dropped
<1> HIDE DEF b
<1>5. CASE bod[b].rented /\ NoWrite
  <2>1. store'[n].kit = (kit[b] /\ bod[b].rented)
    BY <1>1, <1>2, <1>5 DEF NoWrite
  <2> QED BY <1>3, <1>4, <1>5, <2>1 DEF NoWrite, Kept, b
<1>6. ASSUME NEW r, Write(n, registry[n], [kit |-> Kept(b), room |-> r])
      PROVE /\ store'[n].kit = Kept(b)
            /\ \A m \in Names \ {n} : store'[m] = store[m]
            /\ \A t \in Sessions : t \notin outdated' => t \notin outdated
            /\ \A t \in Sessions \ {registry[n]} :
                  HoldsCopy(t) /\ t \notin outdated' => sess[t].name # n
  BY <1>6, WriteFacts
<1>7. CASE \E r : Write(n, registry[n], [kit |-> Kept(b), room |-> r])
  <2>1. /\ store'[n].kit = Kept(b)
        /\ \A m \in Names \ {n} : store'[m] = store[m]
        /\ \A t \in Sessions : t \notin outdated' => t \notin outdated
        /\ \A t \in Sessions \ {registry[n]} :
              HoldsCopy(t) /\ t \notin outdated' => sess[t].name # n
    BY <1>6, <1>7
  <2> QED BY <1>3, <1>4, <2>1 DEF Kept, b
<1> QED BY <1>5, <1>7 DEF b

\* The owner of an idle or linkdead body is retired with it.
LEMMA RExtractRetireKeeps ==
    ASSUME Structure, RecordTypeOK, Current, ~lostUpdate', NEW n \in Names, RExtractRetire(n)
    PROVE Current'
<1>1. PICK s \in Sessions :
        /\ world[n] # NoBody /\ registry[n] = s /\ sess[s].body = world[n]
        /\ bod' = [bod EXCEPT ![world[n]].pending = FALSE]
        /\ world' = [world EXCEPT ![n] = NoBody]
        /\ registry' = [registry EXCEPT ![n] = NoSession]
        /\ sess' = [sess EXCEPT ![s].sendClosed = TRUE]
  BY DEF RExtractRetire, ExtractRetire, Extracts
<1>2. /\ floor' = Dropped(n, kit[world[n]] /\ ~bod[world[n]].rented)
      /\ kit' = [kit EXCEPT ![world[n]] = Kept(world[n]) /\ ~bod[world[n]].idle]
      /\ UNCHANGED snap
      /\ \/ \E r : Write(n, registry[n], [kit |-> Kept(world[n]), room |-> r])
         \/ bod[world[n]].rented /\ NoWrite
  BY DEF RExtractRetire
<1>3. /\ floor'[n] = IF store'[n].kit THEN 0 ELSE 1
      /\ store'[n].kit = Kept(world[n])
      /\ \A m \in Names \ {n} : floor'[m] = floor[m] /\ store'[m] = store[m]
      /\ \A t \in Sessions : t \notin outdated' => t \notin outdated
      /\ \/ store'[n] = store[n]
         \/ \A t \in Sessions \ {registry[n]} :
              HoldsCopy(t) /\ t \notin outdated' => sess[t].name # n
  BY <1>1, <1>2, ExtractSaves
<1>4. /\ world'[n] = NoBody /\ registry'[n] = NoSession
      /\ \A m \in Names \ {n} : world'[m] = world[m] /\ registry'[m] = registry[m]
  BY <1>1 DEF Structure, IInv, TypeOK
<1>5. \A t \in Sessions : /\ sess'[t].body = sess[t].body /\ sess'[t].name = sess[t].name
                          /\ sess'[t].pc = sess[t].pc /\ sess'[t].menu = sess[t].menu
  BY <1>1 DEF Structure, IInv, TypeOK, SessionState
<1>6. \A b \in Bodies \ {world[n]} : kit'[b] = kit[b] /\ bod'[b] = bod[b]
  BY <1>1, <1>2 DEF RecordTypeOK, Structure, IInv, TypeOK
<1>7. Accounted(n)'
  BY <1>3, <1>4 DEF Accounted
<1>8. CopyCurrent(s)'
  BY <1>1, <1>5, HolderNoCopy DEF CopyCurrent, HoldsCopy
<1> QED BY <1>1, <1>2, <1>3, <1>4, <1>5, <1>6, <1>7, <1>8, WorldBodyStep

\* Any other owner is back at the menu, with the belongings its record lists.
LEMMA RExtractToMenuKeeps ==
    ASSUME Structure, RecordTypeOK, Current, ~lostUpdate', NEW n \in Names, RExtractToMenu(n)
    PROVE Current'
<1>1. PICK s \in Sessions :
        /\ world[n] # NoBody /\ registry[n] = s /\ sess[s].body = world[n]
        /\ bod' = [bod EXCEPT ![world[n]].pending = FALSE]
        /\ world' = [world EXCEPT ![n] = NoBody]
        /\ sess' = [sess EXCEPT ![s].menu = TRUE]
        /\ UNCHANGED registry
  BY DEF RExtractToMenu, ExtractToMenu, Extracts
<1>2. /\ floor' = Dropped(n, kit[world[n]] /\ ~bod[world[n]].rented)
      /\ kit' = [kit EXCEPT ![world[n]] = Kept(world[n])]
      /\ UNCHANGED snap
      /\ \/ \E r : Write(n, registry[n], [kit |-> Kept(world[n]), room |-> r])
         \/ bod[world[n]].rented /\ NoWrite
  BY DEF RExtractToMenu
<1>3. /\ floor'[n] = IF store'[n].kit THEN 0 ELSE 1
      /\ store'[n].kit = Kept(world[n])
      /\ \A m \in Names \ {n} : floor'[m] = floor[m] /\ store'[m] = store[m]
      /\ \A t \in Sessions : t \notin outdated' => t \notin outdated
      /\ \/ store'[n] = store[n]
         \/ \A t \in Sessions \ {registry[n]} :
              HoldsCopy(t) /\ t \notin outdated' => sess[t].name # n
  BY <1>1, <1>2, ExtractSaves
<1>4. world'[n] = NoBody /\ \A m \in Names \ {n} : world'[m] = world[m]
  BY <1>1 DEF Structure, IInv, TypeOK
<1>5. /\ \A t \in Sessions : /\ sess'[t].body = sess[t].body /\ sess'[t].name = sess[t].name
                             /\ sess'[t].pc = sess[t].pc
      /\ \A t \in Sessions \ {s} : sess'[t].menu = sess[t].menu
  BY <1>1 DEF Structure, IInv, TypeOK, SessionState
<1>6. world[n] \in Bodies /\ sess[s].name = n
  BY <1>1, InWorld
<1>7. /\ kit'[world[n]] = Kept(world[n])
      /\ \A b \in Bodies \ {world[n]} : kit'[b] = kit[b] /\ bod'[b] = bod[b]
  BY <1>1, <1>2, <1>6 DEF RecordTypeOK, Structure, IInv, TypeOK
<1>8. Accounted(n)'
  BY <1>1, <1>3, <1>4, <1>5, <1>7 DEF Accounted
<1>9. sess[s].pc \in {"loop", "entered", "closed"}
  BY <1>1, HolderNoCopy
<1>10. CopyCurrent(s)'
  BY <1>1, <1>3, <1>5, <1>6, <1>7, <1>9 DEF CopyCurrent
<1> QED BY <1>1, <1>2, <1>3, <1>4, <1>5, <1>7, <1>8, <1>10, WorldBodyStep

\* The idle rent saves what the body it set out with carries: unless an update
\* is lost that one is still in the world.
LEMMA RIdleRentKeeps ==
    ASSUME Structure, RecordTypeOK, Current, ~lostUpdate', RIdleRent
    PROVE Current'
<1>1. /\ idling # NoBody /\ idling \in Bodies
      /\ bod' = [bod EXCEPT ![idling].rented = TRUE, ![idling].pending = TRUE]
      /\ world[bod[idling].name] = idling
      /\ store' = [store EXCEPT ![bod[idling].name].kit = kit[idling]]
      /\ outdated' = outdated \cup Behind(NoSession, bod[idling].name)
      /\ UNCHANGED <<registry, sess, world, kit, floor, snap>>
  BY DEF RIdleRent, IdleRent, Structure, IInv, TypeOK
<1>2. /\ bod'[idling].rented /\ bod'[idling].pending
      /\ \A b \in Bodies \ {idling} : bod'[b] = bod[b]
  BY <1>1 DEF Structure, IInv, TypeOK, BodyState
<1>3. CASE bod[idling].name \in Names
  <2>1. PICK n \in Names : n = bod[idling].name
    BY <1>3
  <2>2. world[n] = idling /\ world[n] # NoBody
    BY <1>1, <2>1
  <2>3. /\ store'[n].kit = kit[idling]
        /\ \A m \in Names \ {n} : store'[m] = store[m]
    BY <1>1, <2>1 DEF RecordTypeOK, Record
  <2>4. Accounted(n)'
    BY <1>1, <1>2, <2>2, <2>3 DEF Current, Accounted
  <2>5. PICK s \in Sessions : s = registry[n]
    BY <2>2, InWorld
  <2>6. CopyCurrent(s)'
    BY <1>1, <2>2, <2>5, HolderNoCopy DEF CopyCurrent, HoldsCopy
  <2>7. \A t \in Sessions : HoldsCopy(t) /\ t \notin outdated' => sess[t].name # n
    BY <1>1, <2>1, SessionAssumption DEF Behind
  <2>8. \A t \in Sessions : t \notin outdated' => t \notin outdated
    BY <1>1
  <2>9. \A b \in Bodies \ {world[n]} : kit'[b] = kit[b] /\ bod'[b] = bod[b]
    BY <1>1, <1>2, <2>2
  <2> QED BY <1>1, <2>2, <2>3, <2>4, <2>5, <2>6, <2>7, <2>8, <2>9, WorldBodyStep
<1>4. CASE bod[idling].name \notin Names
  <2>1. \A m \in Names : store'[m] = store[m]
    BY <1>1, <1>4 DEF RecordTypeOK
  <2>2. \A m \in Names : world[m] # NoBody => world[m] \in Bodies \ {idling}
    BY <1>4, InWorld
  <2>3. ASSUME NEW m \in Names PROVE NameUntouched(m)
    BY <1>1, <1>2, <2>1, <2>2 DEF NameUntouched
  <2>4. ASSUME NEW t \in Sessions PROVE CopyUntouched(t)
    <3>1. HoldsCopy(t) => sess[t].name \in Names
      BY CopyNamed
    <3>2. HoldsCopy(t) /\ sess[t].pc # "verify" => sess[t].body \in Bodies \ {idling}
      BY <1>4, CopyBody
    <3> QED BY <1>1, <1>2, <2>1, <3>1, <3>2 DEF CopyUntouched, HoldsCopy
  <2> QED BY <2>3, <2>4, NameUntouchedKeeps, CopyUntouchedKeeps DEF Current
<1> QED BY <1>3, <1>4

-----------------------------------------------------------------------------
(* The theorems *)

\* In the beginning everything is in the records, and nobody has a copy.
LEMMA InitRecords == RecordInit => RecordInv
<1> SUFFICES ASSUME RecordInit PROVE Current
  BY DEF RecordInv
<1>1. \A n \in Names : world[n] = NoBody /\ registry[n] = NoSession
  BY DEF RecordInit, Init
<1>2. \A n \in Names : store[n].kit /\ floor[n] = 0
  BY DEF RecordInit
<1>3. \A s \in Sessions : sess[s].pc = "name"
  BY DEF RecordInit, Init, NewSession
<1>4. \A n \in Names : Accounted(n)
  BY <1>1, <1>2 DEF Accounted
<1>5. \A s \in Sessions : CopyCurrent(s)
  BY <1>3 DEF CopyCurrent, HoldsCopy
<1> QED BY <1>4, <1>5 DEF Current

\* A lost update is never forgotten.
LEMMA LostForGood ==
    ASSUME RecordTypeOK, [RecordNext]_allVars
    PROVE lostUpdate => lostUpdate'
<1>1. CASE UNCHANGED lostUpdate
  BY <1>1
<1>2. ASSUME NEW s \in Sessions, RecordStep(s) PROVE lostUpdate => lostUpdate'
  BY <1>2 DEF RecordStep, RReadRecord, RWrongPassword, RAuthenticate, RDupeCheckMenu,
       RDupeCheckTakeover, RMenuEnter, REnterWorld, RQuitRent, Get, RTeardownLinkdead,
       RTeardownUnregister, SaveNowhere, Write, NoWrite
<1>3. ASSUME NEW n \in Names, RecordGameStep(n) PROVE lostUpdate => lostUpdate'
  BY <1>3 DEF RecordGameStep, RDie, RExtractRetire, RExtractToMenu, RIdleClose, CrashSave,
       SaveNowhere, Write, NoWrite
<1>4. CASE RIdleRent
  BY <1>4 DEF RIdleRent
<1> QED BY <1>1, <1>2, <1>3, <1>4 DEF RecordNext, recordVars, allVars

\* Every step keeps the records and the belongings together.
LEMMA NextRecords ==
    Structure /\ RecordTypeOK /\ RecordInv /\ [RecordNext]_allVars => RecordInv'
<1> SUFFICES ASSUME Structure, RecordTypeOK, RecordInv, [RecordNext]_allVars, ~lostUpdate'
             PROVE Current'
  BY DEF RecordInv
<1>1. Current
  BY LostForGood DEF RecordInv
<1>2. CASE UNCHANGED allVars
  BY <1>1, <1>2 DEF allVars, vars, recordVars, Current, Accounted, CopyCurrent, HoldsCopy
<1>3. ASSUME NEW s \in Sessions, PlainStep(s), UNCHANGED recordVars PROVE Current'
  BY <1>1, <1>3, PlainKeeps
<1>4. ASSUME NEW s \in Sessions, RecordStep(s) PROVE Current'
  BY <1>1, <1>4, RReadRecordKeeps, RWrongPasswordKeeps, RAuthenticateKeeps,
     RDupeCheckMenuKeeps, RDupeCheckTakeoverKeeps, RMenuEnterKeeps, REnterWorldKeeps,
     RQuitRentKeeps, GetKeeps, RTeardownLinkdeadKeeps, RTeardownUnregisterKeeps DEF RecordStep
<1>5. ASSUME NEW n \in Names, IdleNoDescriptor(n) \/ Kick(n), UNCHANGED recordVars
      PROVE Current'
  BY <1>1, <1>5, PlainKeeps
<1>6. ASSUME NEW n \in Names, RecordGameStep(n) PROVE Current'
  BY <1>1, <1>6, RDieKeeps, RExtractRetireKeeps, RExtractToMenuKeeps, RIdleCloseKeeps,
     CrashSaveKeeps DEF RecordGameStep
<1>7. CASE RIdleRent
  BY <1>1, <1>7, RIdleRentKeeps
<1> QED BY <1>2, <1>3, <1>4, <1>5, <1>6, <1>7 DEF RecordNext

\* As long as no update was lost, the records, the copies of them and the
\* belongings in the game fit together.
THEOREM RecordsFit == RecordSpec => []RecordInv
<1> QED BY InitRecords, NextRecords, RecordTypes, RecordStructure, PTL DEF RecordSpec

\* Belongings are conserved through deaths, drops, rent, idle rent, takeovers,
\* linkdeath and autosaves, for any number of connections and characters: never
\* two kits of one character, never none in the world and none in the record.
THEOREM Conserved == RecordSpec => []OneKit
<1>1. RecordTypeOK /\ RecordInv => OneKit
  <2> SUFFICES ASSUME RecordTypeOK, Current, NEW n \in Names
               PROVE /\ floor[n] + Carried(n) <= 1
                     /\ floor[n] + Carried(n) = 0 => store[n].kit
    BY DEF OneKit, RecordInv
  <2>1. Accounted(n)
    BY DEF Current
  <2>2. CASE world[n] = NoBody
    <3>1. Carried(n) = 0
      BY <2>2 DEF Carried
    <3>2. floor[n] = IF store[n].kit THEN 0 ELSE 1
      BY <2>1, <2>2 DEF Accounted
    <3> QED BY <3>1, <3>2
  <2>3. CASE world[n] # NoBody
    <3>1. Carried(n) = IF kit[world[n]] THEN 1 ELSE 0
      BY <2>3 DEF Carried
    <3>2. floor[n] = IF kit[world[n]] THEN 0 ELSE 1
      BY <2>1, <2>3 DEF Accounted
    <3> QED BY <3>1, <3>2
  <2> QED BY <2>2, <2>3
<1> QED BY <1>1, RecordTypes, RecordsFit, PTL

\* Whoever is in the world and did not quit would restart at a start room after
\* a crash: its record loads nowhere.
THEOREM MidSessionSafe == RecordSpec => []MidSessionLoadsNowhere
<1>1. RecordInv => MidSessionLoadsNowhere
  BY DEF RecordInv, Current, Accounted, MidSessionLoadsNowhere
<1> QED BY <1>1, RecordsFit, PTL
=============================================================================
