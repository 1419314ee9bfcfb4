--------------------------- MODULE SessionLifecycleProofs ---------------------------
(***************************************************************************)
(* Theorems about SessionLifecycle for every set of names, sessions,       *)
(* browsers and bodies: type correctness, that a body in the world always  *)
(* has an owner, that an admission is never refused, that a character has  *)
(* one driver, and that a stale teardown touches nothing.                  *)
(*                                                                         *)
(* All of these follow from IInv, which is inductive. Most actions leave   *)
(* the registry and the world alone: three lemmas say why such a step      *)
(* keeps IInv when it changes only bodies, only a session that is not      *)
(* registered yet, or only closes sessions. The other actions have a proof *)
(* each, with a step for every conjunct.                                   *)
(*                                                                         *)
(* The second part is about descriptors: ShutInv, inductive relative to    *)
(* IInv, says what a closed, detached, torn or superseded connection can   *)
(* no longer do, and that two connections share a body only after a        *)
(* takeover. From it follow that nobody drives a linkless body and that a  *)
(* telnet teardown leaves only linkdead characters registered.             *)
(*                                                                         *)
(* The third part is about bodies: BodyInv says that a session's body is   *)
(* one of its own name, that a connection which would be kept linkdead     *)
(* holds its name, and that only during an entry is there a body in the    *)
(* world behind the menu flag. The proofs about CharacterRecord need it.   *)
(***************************************************************************)
EXTENDS SessionLifecycle, TLAPS

-----------------------------------------------------------------------------
(* The pieces the actions are built from *)

RegistryType == [Names -> Sessions \cup {NoSession}]
ClaimType == [Sessions -> Names \cup {NoName}]
SessType == [Sessions -> SessionState]
WorldType == [Names -> Bodies \cup {NoBody}]
BodType == [Bodies -> BodyState]

\* Releasing a claim keeps the table of claims a table.
LEMMA ReleaseType ==
    ASSUME TypeOK, NEW s \in Sessions
    PROVE Release(s) \in ClaimType
BY DEF TypeOK, Release, ClaimType

\* Removing a body changes at most the entry it is under.
LEMMA WithoutFacts ==
    ASSUME TypeOK, NEW n, NEW b
    PROVE /\ Without(n, b) \in WorldType
          /\ \A m \in Names : m # n => Without(n, b)[m] = world[m]
          /\ \A m \in Names : Without(n, b)[m] # NoBody =>
                Without(n, b)[m] = world[m] /\ (m = n => world[m] # b)
BY DEF TypeOK, Without, WorldType

\* The body built from a record of a named session.
LEMMA LoadedType ==
    ASSUME TypeOK, NEW s \in Sessions
    PROVE LoadedBody(sess[s].name) \in BodyState
BY DEF TypeOK, LoadedBody, BodyState, SessionState

\* A registered session is a session past its login, with the registered name.
LEMMA HolderFacts ==
    ASSUME IInv, NEW n \in Names, registry[n] # NoSession
    PROVE /\ registry[n] \in Sessions
          /\ sess[registry[n]] \in SessionState
          /\ sess[registry[n]].name = n
          /\ sess[registry[n]].pc \in {"loop", "entering", "entered", "closed"}
BY DEF IInv, TypeOK, OwnName, OwnStage

-----------------------------------------------------------------------------
(* Steps that leave the registry and the world alone *)

\* A step that changes only bodies.
LEMMA BodyStepKeeps ==
    ASSUME IInv, TypeOK', UNCHANGED <<registry, sess, world>>
    PROVE IInv'
BY DEF IInv, OwnName, OwnStage, Named, MenuAfterLogin, SwapsOutside, Swaps,
       LiveHoldsName, Live, NoOrphanBody

\* A step of a session that is registered nowhere: logging in, or made anew.
LEMMA LoginStepKeeps ==
    ASSUME IInv, TypeOK', UNCHANGED <<registry, world>>,
           NEW s \in Sessions,
           \A n \in Names : registry[n] # s,
           \A t \in Sessions \ {s} : sess'[t] = sess[t],
           sess'[s].pc \notin {"name", "closed"} => sess'[s].name \in Names,
           sess'[s].pc \in {"name", "snapshot", "password", "verify", "dupe"} => ~sess'[s].menu,
           ~Live(s)'
    PROVE IInv'
<1>1. OwnName' /\ OwnStage'
  BY DEF IInv, TypeOK, OwnName, OwnStage
<1>2. Named' /\ MenuAfterLogin'
  BY DEF IInv, Named, MenuAfterLogin
<1>3. SwapsOutside' /\ NoOrphanBody'
  BY DEF IInv, TypeOK, SwapsOutside, Swaps, NoOrphanBody
<1>4. LiveHoldsName'
  BY DEF IInv, LiveHoldsName, Live
<1> QED BY <1>1, <1>2, <1>3, <1>4 DEF IInv

\* A step that closes: the program counter of a session stays or becomes
\* "closed", its send channel stays closed, and name and body are kept.
LEMMA ClosingStepKeeps ==
    ASSUME IInv, TypeOK', UNCHANGED <<registry, world>>,
           \A t \in Sessions :
               /\ sess'[t].name = sess[t].name
               /\ sess'[t].body = sess[t].body
               /\ \/ sess'[t].pc = "closed"
                  \/ sess'[t].pc = sess[t].pc /\ sess'[t].menu = sess[t].menu
               /\ sess[t].sendClosed => sess'[t].sendClosed
    PROVE IInv'
<1>1. OwnName' /\ OwnStage'
  BY DEF IInv, TypeOK, OwnName, OwnStage
<1>2. Named' /\ MenuAfterLogin'
  BY DEF IInv, Named, MenuAfterLogin
<1>3. SwapsOutside' /\ NoOrphanBody'
  BY DEF IInv, TypeOK, SwapsOutside, Swaps, NoOrphanBody
<1>4. LiveHoldsName'
  BY DEF IInv, LiveHoldsName, Live
<1> QED BY <1>1, <1>2, <1>3, <1>4 DEF IInv

\* A session whose login is not over is registered nowhere.
LEMMA LoginUnregistered ==
    ASSUME IInv, NEW s \in Sessions,
           sess[s].pc \in {"name", "snapshot", "password", "verify", "dupe"}
    PROVE \A n \in Names : registry[n] # s
BY SessionAssumption, HolderFacts

-----------------------------------------------------------------------------
(* Login *)

\* A new connection takes the place of one that is registered nowhere.
LEMMA ConnectKeeps ==
    ASSUME IInv, NEW s \in Sessions, Connect(s)
    PROVE IInv'
<1>1. sess' = [sess EXCEPT ![s] = NewSession] /\ NewSession \in SessionState
  BY DEF Connect, NewSession, SessionState, Pcs
<1>2. TypeOK'
  BY <1>1 DEF IInv, TypeOK, Connect
<1>3. ~Live(s)' /\ ~sess'[s].menu /\ sess'[s].pc = "name"
  BY <1>1 DEF IInv, TypeOK, Live, NewSession
<1>4. \A t \in Sessions \ {s} : sess'[t] = sess[t]
  BY <1>1 DEF IInv, TypeOK
<1> QED BY <1>2, <1>3, <1>4, LoginStepKeeps DEF Connect, Gone

\* Listing the registered sessions changes only the session that does it.
LEMMA SnapshotNamesKeeps ==
    ASSUME IInv, NEW s \in Sessions, SnapshotNames(s)
    PROVE IInv'
<1>1. PICK n \in Names :
        sess' = [sess EXCEPT ![s].pc = "snapshot", ![s].name = n, ![s].seen = registry[n]]
  BY DEF SnapshotNames
<1> DEFINE r == [sess[s] EXCEPT !.pc = "snapshot", !.name = n, !.seen = registry[n]]
<1>2. sess[s] \in SessionState /\ registry[n] \in Sessions \cup {NoSession} /\ ~sess[s].menu
  BY DEF IInv, TypeOK, MenuAfterLogin, SnapshotNames
<1>3. r \in SessionState /\ r.pc = "snapshot" /\ r.name = n /\ ~r.menu
  BY <1>2 DEF SessionState, Pcs
<1>4. sess' = [sess EXCEPT ![s] = r]
  BY <1>1
<1> HIDE DEF r
<1>5. TypeOK'
  BY <1>3, <1>4 DEF IInv, TypeOK, SnapshotNames
<1>6. sess'[s] = r /\ \A t \in Sessions \ {s} : sess'[t] = sess[t]
  BY <1>4 DEF IInv, TypeOK
<1> QED BY <1>3, <1>5, <1>6, LoginUnregistered, LoginStepKeeps DEF SnapshotNames, Live

\* Claiming a name leaves the registered sessions alone.
LEMMA ClaimNameKeeps ==
    ASSUME IInv, NEW s \in Sessions, ClaimName(s)
    PROVE IInv'
<1>1. sess[s] \in SessionState
  BY DEF IInv, TypeOK
<1>2. TypeOK'
  <2>1. sess' \in SessType
    BY <1>1 DEF IInv, TypeOK, ClaimName, SessionState, Pcs, SessType
  <2>2. claims' \in ClaimType
    BY <1>1, ReleaseType DEF IInv, TypeOK, ClaimName, SessionState, ClaimType
  <2> QED BY <2>1, <2>2 DEF IInv, TypeOK, ClaimName, SessType, ClaimType
<1>3. \A t \in Sessions \ {s} : sess'[t] = sess[t]
  BY DEF IInv, TypeOK, ClaimName
<1>4. /\ sess'[s].pc \notin {"name", "closed"} => sess'[s].name \in Names
      /\ sess'[s].pc \in {"name", "snapshot", "password", "verify", "dupe"} => ~sess'[s].menu
      /\ ~Live(s)'
  BY <1>1 DEF IInv, TypeOK, Named, MenuAfterLogin, ClaimName, SessionState, Live
<1> QED BY <1>2, <1>3, <1>4, LoginUnregistered, LoginStepKeeps DEF ClaimName

\* A denied session is back at the name prompt, unregistered as before.
LEMMA DenyNameKeeps ==
    ASSUME IInv, NEW s \in Sessions, DenyName(s)
    PROVE IInv'
<1>1. sess[s] \in SessionState
  BY DEF IInv, TypeOK
<1>2. TypeOK'
  <2>1. sess' \in SessType
    BY <1>1 DEF IInv, TypeOK, DenyName, SessionState, Pcs, SessType
  <2>2. claims' \in ClaimType
    BY <1>1, ReleaseType DEF IInv, TypeOK, DenyName, SessionState, ClaimType
  <2> QED BY <2>1, <2>2 DEF IInv, TypeOK, DenyName, SessType, ClaimType
<1>3. \A t \in Sessions \ {s} : sess'[t] = sess[t]
  BY DEF IInv, TypeOK, DenyName
<1>4. /\ sess'[s].pc \notin {"name", "closed"} => sess'[s].name \in Names
      /\ sess'[s].pc \in {"name", "snapshot", "password", "verify", "dupe"} => ~sess'[s].menu
      /\ ~Live(s)'
  BY <1>1 DEF IInv, TypeOK, Named, MenuAfterLogin, DenyName, SessionState, Live
<1> QED BY <1>2, <1>3, <1>4, LoginUnregistered, LoginStepKeeps DEF DenyName

\* Reading the record moves a session that is registered nowhere.
LEMMA ReadRecordKeeps ==
    ASSUME IInv, NEW s \in Sessions, ReadRecord(s)
    PROVE IInv'
<1>1. sess[s] \in SessionState
  BY DEF IInv, TypeOK
<1>2. TypeOK'
  <2>1. sess' \in SessType
    BY <1>1 DEF IInv, TypeOK, ReadRecord, SessionState, Pcs, SessType
  <2>2. claims' \in ClaimType
    BY <1>1, ReleaseType DEF IInv, TypeOK, ReadRecord, SessionState, ClaimType
  <2> QED BY <2>1, <2>2 DEF IInv, TypeOK, ReadRecord, SessType, ClaimType
<1>3. \A t \in Sessions \ {s} : sess'[t] = sess[t]
  BY DEF IInv, TypeOK, ReadRecord
<1>4. /\ sess'[s].pc \notin {"name", "closed"} => sess'[s].name \in Names
      /\ sess'[s].pc \in {"name", "snapshot", "password", "verify", "dupe"} => ~sess'[s].menu
      /\ ~Live(s)'
  BY <1>1 DEF IInv, TypeOK, Named, MenuAfterLogin, ReadRecord, SessionState, Live
<1> QED BY <1>2, <1>3, <1>4, LoginUnregistered, LoginStepKeeps DEF ReadRecord

\* A wrong password moves or closes a session that is registered nowhere.
LEMMA WrongPasswordKeeps ==
    ASSUME IInv, NEW s \in Sessions, WrongPassword(s)
    PROVE IInv'
<1>1. sess[s] \in SessionState
  BY DEF IInv, TypeOK
<1>2. TypeOK'
  <2>1. sess' \in SessType
    BY <1>1 DEF IInv, TypeOK, WrongPassword, SessionState, Pcs, SessType
  <2>2. claims' \in ClaimType
    BY <1>1, ReleaseType DEF IInv, TypeOK, WrongPassword, SessionState, ClaimType
  <2> QED BY <2>1, <2>2 DEF IInv, TypeOK, WrongPassword, SessType, ClaimType
<1>3. \A t \in Sessions \ {s} : sess'[t] = sess[t]
  BY DEF IInv, TypeOK, WrongPassword
<1>4. /\ sess'[s].pc \notin {"name", "closed"} => sess'[s].name \in Names
      /\ sess'[s].pc \in {"name", "snapshot", "password", "verify", "dupe"} => ~sess'[s].menu
      /\ ~Live(s)'
  BY <1>1 DEF IInv, TypeOK, Named, MenuAfterLogin, WrongPassword, SessionState, Live
<1> QED BY <1>2, <1>3, <1>4, LoginUnregistered, LoginStepKeeps DEF WrongPassword

\* A login that finds no other copy goes to the menu, still unregistered.
LEMMA DupeCheckNoneKeeps ==
    ASSUME IInv, NEW s \in Sessions, DupeCheckNone(s)
    PROVE IInv'
<1>1. sess[s] \in SessionState
  BY DEF IInv, TypeOK
<1>2. TypeOK'
  <2>1. sess' \in SessType
    BY <1>1 DEF IInv, TypeOK, DupeCheckNone, SessionState, Pcs, SessType
  <2>2. claims' \in ClaimType
    BY <1>1, ReleaseType DEF IInv, TypeOK, DupeCheckNone, SessionState, ClaimType
  <2> QED BY <2>1, <2>2 DEF IInv, TypeOK, DupeCheckNone, SessType, ClaimType
<1>3. \A t \in Sessions \ {s} : sess'[t] = sess[t]
  BY DEF IInv, TypeOK, DupeCheckNone
<1>4. /\ sess'[s].pc \notin {"name", "closed"} => sess'[s].name \in Names
      /\ sess'[s].pc \in {"name", "snapshot", "password", "verify", "dupe"} => ~sess'[s].menu
      /\ ~Live(s)'
  BY <1>1 DEF IInv, TypeOK, Named, MenuAfterLogin, DupeCheckNone, SessionState, Live
<1> QED BY <1>2, <1>3, <1>4, LoginUnregistered, LoginStepKeeps DEF DupeCheckNone

\* An authenticated session gets a free body that is in nobody's world.
LEMMA AuthenticateKeeps ==
    ASSUME IInv, NEW s \in Sessions, Authenticate(s)
    PROVE IInv'
<1>1. PICK b \in Bodies :
        /\ bod' = [bod EXCEPT ![b] = LoadedBody(sess[s].name)]
        /\ sess' = [sess EXCEPT ![s].pc = "dupe", ![s].body = b]
  BY DEF Authenticate, FreeBodies
<1>2. sess[s] \in SessionState
  BY DEF IInv, TypeOK
<1>3. TypeOK'
  <2>1. sess' \in SessType
    BY <1>1, <1>2 DEF IInv, TypeOK, SessionState, Pcs, SessType
  <2>2. bod' \in BodType
    BY <1>1, LoadedType DEF IInv, TypeOK, BodType
  <2> QED BY <2>1, <2>2 DEF IInv, TypeOK, Authenticate, SessType, BodType
<1>4. \A t \in Sessions \ {s} : sess'[t] = sess[t]
  BY <1>1 DEF IInv, TypeOK
<1>5. sess'[s].pc = "dupe" /\ sess'[s].name \in Names /\ ~sess'[s].menu
  BY <1>1, <1>2 DEF IInv, TypeOK, Named, MenuAfterLogin, Authenticate, SessionState
<1> QED BY <1>3, <1>4, <1>5, LoginUnregistered, LoginStepKeeps DEF Authenticate, Live

-----------------------------------------------------------------------------
(* Steps of the registered, one conjunct at a time *)

\* The session at the menu loses the name and is closed.
LEMMA DupeCheckMenuKeeps ==
    ASSUME IInv, NEW s \in Sessions, DupeCheckMenu(s)
    PROVE IInv'
<1> DEFINE n == sess[s].name
           old == registry[n]
<1>1. n \in Names /\ old \in Sessions \ {s} /\ sess[s] \in SessionState /\ sess[old] \in SessionState
  BY HolderFacts DEF IInv, TypeOK, Named, DupeCheckMenu
<1>2. /\ sess'[old] = [sess[old] EXCEPT !.sendClosed = TRUE]
      /\ sess'[s] = [sess[s] EXCEPT !.pc = "loop", !.menu = TRUE]
      /\ \A t \in Sessions \ {s, old} : sess'[t] = sess[t]
  BY <1>1 DEF IInv, TypeOK, DupeCheckMenu
<1>3. registry' = [registry EXCEPT ![n] = NoSession] /\ world' = Without(n, sess[old].body)
  BY DEF DupeCheckMenu
<1>4. \A m \in Names : registry[m] # s
  BY LoginUnregistered DEF DupeCheckMenu
<1>5. TypeOK'
  <2>1. sess' \in SessType
    BY <1>1 DEF IInv, TypeOK, DupeCheckMenu, SessionState, Pcs, SessType
  <2>2. claims' = Release(old)
    BY DEF DupeCheckMenu
  <2>3. claims' \in ClaimType
    BY <1>1, <2>2, ReleaseType DEF IInv
  <2>4. world' \in WorldType
    BY <1>3, WithoutFacts DEF IInv
  <2> QED BY <1>3, <2>1, <2>3, <2>4 DEF IInv, TypeOK, DupeCheckMenu, SessType, ClaimType, WorldType
<1>6. \A m \in Names : registry'[m] # NoSession =>
        m # n /\ registry'[m] = registry[m] /\ registry[m] \notin {s, old}
  BY <1>1, <1>3, <1>4, HolderFacts DEF IInv, TypeOK
<1>7. \A m \in Names : registry'[m] # NoSession => sess'[registry'[m]] = sess[registry[m]]
  BY <1>2, <1>6, HolderFacts
<1>8. OwnName' /\ OwnStage'
  BY <1>6, <1>7 DEF IInv, OwnName, OwnStage
<1>9. Named' /\ MenuAfterLogin'
  <2>1. sess'[s].pc = "loop" /\ sess'[s].name = n
    BY <1>1, <1>2 DEF SessionState
  <2>2. \A t \in Sessions \ {s} :
          sess'[t].pc = sess[t].pc /\ sess'[t].name = sess[t].name /\ sess'[t].menu = sess[t].menu
    BY <1>1, <1>2 DEF SessionState
  <2> QED BY <1>1, <2>1, <2>2 DEF IInv, Named, MenuAfterLogin
<1>10. SwapsOutside'
  BY <1>3, <1>6, <1>7, WithoutFacts DEF IInv, SwapsOutside, Swaps
<1>11. LiveHoldsName'
  <2> SUFFICES ASSUME NEW t \in Sessions, Live(t)' PROVE registry'[sess'[t].name] = t
    BY DEF LiveHoldsName, Live
  <2>1. t \notin {s, old}
    BY <1>1, <1>2 DEF Live, SessionState
  <2>2. sess'[t] = sess[t] /\ Live(t)
    BY <1>2, <2>1 DEF Live
  <2>3. registry[sess[t].name] = t /\ sess[t].name \in Names
    BY <2>2 DEF IInv, LiveHoldsName, Live, Named
  <2> QED BY <1>1, <1>3, <2>1, <2>2, <2>3 DEF IInv, TypeOK
<1>12. NoOrphanBody'
  BY <1>1, <1>3, <1>6, <1>7, WithoutFacts DEF IInv, TypeOK, NoOrphanBody
<1> QED BY <1>5, <1>8, <1>9, <1>10, <1>11, <1>12 DEF IInv

\* The login takes name and body together, and closes the old session.
LEMMA DupeCheckTakeoverKeeps ==
    ASSUME IInv, NEW s \in Sessions, DupeCheckTakeover(s)
    PROVE IInv'
<1> DEFINE n == sess[s].name
           old == registry[n]
           b == sess[old].body
<1>1. n \in Names /\ old \in Sessions \ {s} /\ sess[s] \in SessionState /\ sess[old] \in SessionState
  BY HolderFacts DEF IInv, TypeOK, Named, DupeCheckTakeover
<1>2. /\ sess'[old] = Supersede(sess[old])
      /\ sess'[s] = [sess[s] EXCEPT !.pc = "loop", !.body = b]
      /\ \A t \in Sessions \ {s, old} : sess'[t] = sess[t]
  BY <1>1 DEF IInv, TypeOK, DupeCheckTakeover
<1>3. registry' = [registry EXCEPT ![n] = s] /\ world' = world
  BY DEF DupeCheckTakeover
<1>4. ~sess[s].menu /\ \A m \in Names : registry[m] # s
  BY LoginUnregistered DEF IInv, MenuAfterLogin, DupeCheckTakeover
<1>5. TypeOK'
  <2>1. sess' \in SessType
    BY <1>1 DEF IInv, TypeOK, DupeCheckTakeover, Supersede, SessionState, Pcs, SessType
  <2>2. claims' \in ClaimType
    BY <1>1 DEF IInv, TypeOK, DupeCheckTakeover, ClaimType
  <2>3. bod' \in BodType
    BY <1>1 DEF IInv, TypeOK, DupeCheckTakeover, Reattach, BodyState, BodType
  <2> QED BY <1>1, <1>3, <2>1, <2>2, <2>3
          DEF IInv, TypeOK, DupeCheckTakeover, SessType, ClaimType, BodType
<1>6. \A m \in Names \ {n} : registry'[m] # NoSession =>
        registry'[m] = registry[m] /\ sess'[registry'[m]] = sess[registry[m]]
  BY <1>1, <1>2, <1>3, <1>4, HolderFacts DEF IInv, TypeOK
<1>7. registry'[n] = s /\ sess'[s].name = n /\ sess'[s].pc = "loop" /\ ~sess'[s].menu /\ sess'[s].body = b
  BY <1>1, <1>2, <1>3, <1>4 DEF IInv, TypeOK, SessionState
<1>8. OwnName' /\ OwnStage'
  BY <1>6, <1>7 DEF IInv, OwnName, OwnStage
<1>9. Named' /\ MenuAfterLogin'
  <2>1. sess'[s].pc = "loop" /\ sess'[s].name = n
    BY <1>1, <1>2 DEF SessionState
  <2>2. /\ sess'[old].pc = sess[old].pc /\ sess'[old].name = sess[old].name
        /\ sess'[old].menu = sess[old].menu
    BY <1>1, <1>2 DEF SessionState, Supersede
  <2>3. \A t \in Sessions \ {s} :
          sess'[t].pc = sess[t].pc /\ sess'[t].name = sess[t].name /\ sess'[t].menu = sess[t].menu
    BY <1>2, <2>2
  <2> QED BY <1>1, <2>1, <2>3 DEF IInv, Named, MenuAfterLogin
<1>10. SwapsOutside'
  BY <1>3, <1>6, <1>7 DEF IInv, SwapsOutside, Swaps
<1>11. LiveHoldsName'
  <2> SUFFICES ASSUME NEW t \in Sessions, Live(t)' PROVE registry'[sess'[t].name] = t
    BY DEF LiveHoldsName, Live
  <2>1. CASE t = s
    BY <1>7, <2>1
  <2>2. CASE t # s
    <3>1. t # old
      BY <1>1, <1>2 DEF Live, SessionState, Supersede
    <3>2. sess'[t] = sess[t] /\ Live(t)
      BY <1>2, <2>2, <3>1 DEF Live
    <3>3. registry[sess[t].name] = t /\ sess[t].name \in Names
      BY <3>2 DEF IInv, LiveHoldsName, Live, Named
    <3> QED BY <1>1, <1>3, <3>1, <3>2, <3>3 DEF IInv, TypeOK
  <2> QED BY <2>1, <2>2
<1>12. NoOrphanBody'
  BY <1>1, <1>3, <1>6, <1>7, SessionAssumption DEF IInv, TypeOK, NoOrphanBody
<1> QED BY <1>5, <1>8, <1>9, <1>10, <1>11, <1>12 DEF IInv

\* A session at the menu may change its body: none of its name is in the world.
LEMMA MenuEnterKeeps ==
    ASSUME IInv, NEW s \in Sessions, MenuEnter(s)
    PROVE IInv'
<1>1. PICK b \in Bodies \cup {NoBody} :
        /\ sess' = [sess EXCEPT ![s] = [sess[s] EXCEPT !.pc = "entering", !.body = b]]
        /\ bod' = bod \/ (b \in Bodies /\ bod' = [bod EXCEPT ![b] = LoadedBody(sess[s].name)])
  <2>1. CASE ~bod[sess[s].body].rented
    <3>1. sess' = [sess EXCEPT ![s].pc = "entering"] /\ bod' = bod
      BY <2>1 DEF MenuEnter
    <3>2. sess[s].body \in Bodies \cup {NoBody}
      BY DEF IInv, TypeOK, SessionState
    <3>3. [sess[s] EXCEPT !.pc = "entering"] = [sess[s] EXCEPT !.pc = "entering", !.body = sess[s].body]
      BY DEF IInv, TypeOK, SessionState
    <3> QED BY <3>1, <3>2, <3>3
  <2>2. CASE bod[sess[s].body].rented
    BY <2>2 DEF MenuEnter, FreeBodies
  <2> QED BY <2>1, <2>2
<1>2. sess[s] \in SessionState /\ sess[s].pc = "loop" /\ sess[s].menu
  BY DEF IInv, TypeOK, MenuEnter, AtMenu
<1> DEFINE r == [sess[s] EXCEPT !.pc = "entering", !.body = b]
<1>3. r \in SessionState /\ r.pc = "entering" /\ r.name = sess[s].name
  BY <1>2 DEF SessionState, Pcs
<1>4. sess'[s] = r /\ \A t \in Sessions \ {s} : sess'[t] = sess[t]
  BY <1>1 DEF IInv, TypeOK
<1>5. UNCHANGED <<registry, claims, world, idling>>
  BY DEF MenuEnter
<1>6. TypeOK'
  <2>1. sess' \in SessType
    BY <1>1, <1>3 DEF IInv, TypeOK, SessType
  <2>2. bod' \in BodType
    BY <1>1, LoadedType DEF IInv, TypeOK, BodType
  <2> QED BY <1>5, <2>1, <2>2 DEF IInv, TypeOK, SessType, BodType
<1> HIDE DEF r
<1>7. OwnName' /\ OwnStage'
  BY <1>3, <1>4, <1>5, HolderFacts DEF OwnName, OwnStage
<1>8. Named' /\ MenuAfterLogin'
  BY <1>2, <1>3, <1>4 DEF IInv, Named, MenuAfterLogin
<1>9. \A n \in Names : registry[n] = s => world[n] = NoBody
  BY <1>2, SessionAssumption DEF IInv, SwapsOutside, Swaps
<1>10. SwapsOutside' /\ NoOrphanBody'
  BY <1>4, <1>5, <1>9, HolderFacts DEF IInv, SwapsOutside, Swaps, NoOrphanBody
<1>11. LiveHoldsName'
  BY <1>3, <1>4, <1>5 DEF IInv, LiveHoldsName, Live
<1> QED BY <1>6, <1>7, <1>8, <1>10, <1>11 DEF IInv

\* register closes whoever holds the name, and its body leaves the world first.
LEMMA EnterWorldKeeps ==
    ASSUME IInv, NEW s \in Sessions, EnterWorld(s)
    PROVE IInv'
<1> DEFINE n == sess[s].name
           old == registry[n]
           cleared == IF old \in Sessions \ {s} THEN Without(n, sess[old].body) ELSE world
<1>1. n \in Names /\ sess[s] \in SessionState /\ sess[s].pc = "entering"
  BY DEF IInv, TypeOK, Named, EnterWorld
<1>2. /\ sess' \in [Sessions -> [pc : Pcs, name : Names \cup {NoName}, body : Bodies \cup {NoBody},
              menu : BOOLEAN, sendClosed : BOOLEAN, superseded : BOOLEAN,
              idleClosed : BOOLEAN, detached : BOOLEAN, torn : BOOLEAN,
              seen : Sessions \cup {NoSession}]]
      /\ sess'[s] = [sess[s] EXCEPT !.pc = "entered"]
      /\ old \in Sessions \ {s} => sess'[old] = [sess[old] EXCEPT !.sendClosed = TRUE]
      /\ \A t \in Sessions \ {s, old} : sess'[t] = sess[t]
  <2>1. \A t \in Sessions : sess[t] \in SessionState
    BY DEF IInv, TypeOK
  <2>2. \A t \in Sessions : /\ [sess[t] EXCEPT !.pc = "entered"] \in SessionState
                            /\ [sess[t] EXCEPT !.sendClosed = TRUE] \in SessionState
    BY <2>1 DEF SessionState, Pcs
  <2> QED BY <2>1, <2>2 DEF EnterWorld, SessionState
<1>3. cleared \in WorldType /\ \A m \in Names \ {n} : cleared[m] = world[m]
  BY WithoutFacts DEF IInv, TypeOK, WorldType
<1>4. registry' = [registry EXCEPT ![n] = s] /\ world' = [cleared EXCEPT ![n] = sess[s].body]
  BY DEF EnterWorld
<1>5. TypeOK'
  <2>1. claims' \in ClaimType
    BY DEF IInv, TypeOK, EnterWorld, ClaimType
  <2>2. world' \in WorldType
    BY <1>1, <1>3, <1>4 DEF WorldType, SessionState
  <2>3. registry' \in RegistryType
    BY <1>4 DEF IInv, TypeOK, RegistryType
  <2> QED BY <1>2, <2>1, <2>2, <2>3
          DEF IInv, TypeOK, EnterWorld, ClaimType, WorldType, RegistryType, SessionState
<1>6. /\ registry'[n] = s /\ world'[n] = sess[s].body
      /\ sess'[s].name = n /\ sess'[s].pc = "entered" /\ sess'[s].body = sess[s].body
  BY <1>1, <1>2, <1>3, <1>4 DEF IInv, TypeOK, SessionState, WorldType
<1>7. \A m \in Names \ {n} :
        /\ registry'[m] = registry[m] /\ world'[m] = world[m]
        /\ registry[m] # NoSession => sess'[registry[m]] = sess[registry[m]]
  <2>1. \A m \in Names \ {n} : registry[m] # NoSession => registry[m] \in Sessions \ {s, old}
    BY <1>1, HolderFacts
  <2> QED BY <1>2, <1>3, <1>4, <2>1 DEF IInv, TypeOK, WorldType
<1>8. OwnName' /\ OwnStage'
  BY <1>6, <1>7 DEF IInv, OwnName, OwnStage
<1>9. Named' /\ MenuAfterLogin'
  <2>1. \A t \in Sessions \ {s} :
          sess'[t].pc = sess[t].pc /\ sess'[t].name = sess[t].name /\ sess'[t].menu = sess[t].menu
    BY <1>2 DEF IInv, TypeOK, SessionState
  <2> QED BY <1>1, <1>6, <2>1 DEF IInv, Named, MenuAfterLogin
<1>10. SwapsOutside'
  BY <1>6, <1>7 DEF IInv, SwapsOutside, Swaps
<1>11. LiveHoldsName'
  <2> SUFFICES ASSUME NEW t \in Sessions, Live(t)', t # s PROVE registry'[sess'[t].name] = t
    BY <1>6 DEF LiveHoldsName, Live
  <2>1. t # old
    BY <1>2 DEF Live, IInv, TypeOK, SessionState
  <2>2. sess'[t] = sess[t] /\ Live(t)
    BY <1>2, <2>1 DEF Live
  <2>3. registry[sess[t].name] = t /\ sess[t].name \in Names
    BY <2>2 DEF IInv, LiveHoldsName, Live, Named
  <2> QED BY <1>4, <2>1, <2>2, <2>3 DEF IInv, TypeOK
<1>12. NoOrphanBody'
  BY <1>6, <1>7, SessionAssumption DEF IInv, NoOrphanBody
<1> QED BY <1>5, <1>8, <1>9, <1>10, <1>11, <1>12 DEF IInv

\* The session is past the menu and, unless it was closed meanwhile, holds its name.
LEMMA FinishEntryKeeps ==
    ASSUME IInv, NEW s \in Sessions, FinishEntry(s)
    PROVE IInv'
<1>1. /\ sess[s] \in SessionState /\ sess[s].pc = "entered"
      /\ sess'[s] = [sess[s] EXCEPT !.pc = "loop", !.menu = FALSE]
      /\ \A t \in Sessions \ {s} : sess'[t] = sess[t]
      /\ UNCHANGED <<registry, world>>
  BY DEF IInv, TypeOK, FinishEntry
<1>2. TypeOK'
  <2>1. sess' \in SessType
    BY <1>1 DEF IInv, TypeOK, FinishEntry, SessionState, Pcs, SessType
  <2>2. claims' \in ClaimType
    BY ReleaseType DEF IInv, FinishEntry
  <2> QED BY <2>1, <2>2 DEF IInv, TypeOK, FinishEntry, SessType, ClaimType
<1>3. /\ sess'[s].pc = "loop" /\ ~sess'[s].menu
      /\ sess'[s].name = sess[s].name /\ sess'[s].body = sess[s].body
      /\ sess'[s].sendClosed = sess[s].sendClosed
  BY <1>1 DEF SessionState
<1>4. OwnName' /\ OwnStage'
  BY <1>1, <1>3, HolderFacts DEF OwnName, OwnStage
<1>5. Named' /\ MenuAfterLogin'
  BY <1>1, <1>3 DEF IInv, Named, MenuAfterLogin
<1>6. \A t \in Sessions : Swaps(t)' => Swaps(t)
  BY <1>1, <1>3 DEF Swaps
<1>7. SwapsOutside'
  BY <1>1, <1>6, HolderFacts DEF IInv, SwapsOutside, Swaps
<1>8. \A t \in Sessions : Live(t)' => Live(t) /\ sess'[t].name = sess[t].name
  BY <1>1, <1>3 DEF Live
<1>9. LiveHoldsName'
  BY <1>1, <1>8 DEF IInv, LiveHoldsName, Live
<1>10. NoOrphanBody'
  <2>1. \A t \in Sessions : sess'[t].body = sess[t].body
    BY <1>1, <1>3
  <2> QED BY <1>1, <2>1, HolderFacts DEF IInv, NoOrphanBody
<1> QED BY <1>2, <1>4, <1>5, <1>7, <1>9, <1>10 DEF IInv

\* Name and body go together, and the session is closed.
LEMMA ExtractRetireKeeps ==
    ASSUME IInv, NEW n \in Names, ExtractRetire(n)
    PROVE IInv'
<1>1. PICK s \in Sessions :
        /\ world[n] \in Bodies /\ registry[n] = s
        /\ bod' = [bod EXCEPT ![world[n]].pending = FALSE]
        /\ world' = [world EXCEPT ![n] = NoBody]
        /\ registry' = [registry EXCEPT ![n] = NoSession]
        /\ claims' = Release(s)
        /\ sess' = [sess EXCEPT ![s].sendClosed = TRUE]
        /\ UNCHANGED idling
  BY DEF IInv, TypeOK, ExtractRetire, Extracts
<1>2. sess[s] \in SessionState /\ sess[s].name = n
  BY <1>1, HolderFacts, SessionAssumption
<1>3. TypeOK'
  <2>1. sess' \in SessType
    BY <1>1, <1>2 DEF IInv, TypeOK, SessionState, SessType
  <2>2. bod' \in BodType
    BY <1>1 DEF IInv, TypeOK, BodyState, BodType
  <2>3. claims' \in ClaimType
    BY <1>1, ReleaseType DEF IInv
  <2> QED BY <1>1, <2>1, <2>2, <2>3 DEF IInv, TypeOK, SessType, BodType, ClaimType
<1>4. /\ sess'[s].sendClosed /\ \A t \in Sessions \ {s} : sess'[t] = sess[t]
      /\ \A t \in Sessions : /\ sess'[t].pc = sess[t].pc /\ sess'[t].name = sess[t].name
                             /\ sess'[t].menu = sess[t].menu /\ sess'[t].body = sess[t].body
  BY <1>1, <1>2 DEF IInv, TypeOK, SessionState
<1>5. \A m \in Names : registry'[m] # NoSession => m # n /\ registry'[m] = registry[m]
  BY <1>1 DEF IInv, TypeOK
<1>6. OwnName' /\ OwnStage'
  BY <1>4, <1>5, HolderFacts DEF OwnName, OwnStage
<1>7. Named' /\ MenuAfterLogin'
  BY <1>4 DEF IInv, Named, MenuAfterLogin
<1>8. SwapsOutside'
  BY <1>1, <1>4, <1>5, HolderFacts DEF IInv, TypeOK, SwapsOutside, Swaps
<1>9. LiveHoldsName'
  <2> SUFFICES ASSUME NEW t \in Sessions, Live(t)' PROVE registry'[sess'[t].name] = t
    BY DEF LiveHoldsName, Live
  <2>1. t # s /\ sess'[t] = sess[t] /\ Live(t)
    BY <1>4 DEF Live
  <2>2. registry[sess[t].name] = t /\ sess[t].name \in Names
    BY <2>1 DEF IInv, LiveHoldsName, Live, Named
  <2> QED BY <1>1, <2>1, <2>2 DEF IInv, TypeOK
<1>10. NoOrphanBody'
  BY <1>1, <1>4, HolderFacts DEF IInv, TypeOK, NoOrphanBody
<1> QED BY <1>3, <1>6, <1>7, <1>8, <1>9, <1>10 DEF IInv

\* The body leaves the world as the session returns to the menu.
LEMMA ExtractToMenuKeeps ==
    ASSUME IInv, NEW n \in Names, ExtractToMenu(n)
    PROVE IInv'
<1>1. PICK s \in Sessions :
        /\ world[n] \in Bodies /\ registry[n] = s
        /\ bod' = [bod EXCEPT ![world[n]].pending = FALSE]
        /\ world' = [world EXCEPT ![n] = NoBody]
        /\ sess' = [sess EXCEPT ![s].menu = TRUE]
        /\ UNCHANGED <<registry, claims, idling>>
  BY DEF IInv, TypeOK, ExtractToMenu, Extracts
<1>2. /\ sess[s] \in SessionState /\ sess[s].name = n
      /\ sess[s].pc \in {"loop", "entering", "entered", "closed"}
  BY <1>1, HolderFacts, SessionAssumption
<1>3. TypeOK'
  <2>1. sess' \in SessType
    BY <1>1, <1>2 DEF IInv, TypeOK, SessionState, SessType
  <2>2. bod' \in BodType
    BY <1>1 DEF IInv, TypeOK, BodyState, BodType
  <2> QED BY <1>1, <2>1, <2>2 DEF IInv, TypeOK, SessType, BodType
<1>4. /\ sess'[s].menu /\ \A t \in Sessions \ {s} : sess'[t] = sess[t]
      /\ \A t \in Sessions : /\ sess'[t].pc = sess[t].pc /\ sess'[t].name = sess[t].name
                             /\ sess'[t].body = sess[t].body
                             /\ sess'[t].sendClosed = sess[t].sendClosed
  BY <1>1, <1>2 DEF IInv, TypeOK, SessionState
<1>5. OwnName' /\ OwnStage'
  BY <1>1, <1>4, HolderFacts DEF OwnName, OwnStage
<1>6. Named' /\ MenuAfterLogin'
  BY <1>2, <1>4 DEF IInv, Named, MenuAfterLogin
<1>7. SwapsOutside'
  <2> SUFFICES ASSUME NEW m \in Names, m # n, registry[m] # NoSession, Swaps(registry[m])'
               PROVE world[m] = NoBody
    BY <1>1 DEF IInv, TypeOK, SwapsOutside, Swaps
  <2>1. registry[m] \in Sessions \ {s}
    BY <1>2, HolderFacts
  <2> QED BY <1>1, <1>4, <2>1 DEF IInv, SwapsOutside, Swaps
<1>8. LiveHoldsName'
  BY <1>1, <1>4 DEF IInv, LiveHoldsName, Live
<1>9. NoOrphanBody'
  BY <1>1, <1>4, HolderFacts DEF IInv, TypeOK, NoOrphanBody
<1> QED BY <1>3, <1>5, <1>6, <1>7, <1>8, <1>9 DEF IInv

\* Only the holder of a name takes it and its body away.
LEMMA TeardownUnregisterKeeps ==
    ASSUME IInv, NEW s \in Sessions, TeardownUnregister(s)
    PROVE IInv'
<1> DEFINE n == sess[s].name
<1>1. /\ sess[s] \in SessionState
      /\ sess'[s] = [sess[s] EXCEPT !.torn = TRUE, !.sendClosed = TRUE]
      /\ \A t \in Sessions \ {s} : sess'[t] = sess[t]
  BY DEF IInv, TypeOK, TeardownUnregister
<1>2. \A t \in Sessions : /\ sess'[t].pc = sess[t].pc /\ sess'[t].name = sess[t].name
                          /\ sess'[t].menu = sess[t].menu /\ sess'[t].body = sess[t].body
  <2>1. ASSUME NEW t \in Sessions, t = s
        PROVE /\ sess'[t].pc = sess[t].pc /\ sess'[t].name = sess[t].name
              /\ sess'[t].menu = sess[t].menu /\ sess'[t].body = sess[t].body
    BY <1>1, <2>1 DEF SessionState
  <2>2. ASSUME NEW t \in Sessions, t # s
        PROVE sess'[t] = sess[t]
    BY <1>1, <2>2
  <2> QED BY <2>1, <2>2
<1>3. \/ UNCHANGED <<registry, world>>
      \/ /\ registry[n] = s /\ registry' = [registry EXCEPT ![n] = NoSession]
         /\ world' = Without(n, sess[s].body)
  BY DEF TeardownUnregister, HoldsName
<1>4. TypeOK'
  <2>1. sess' \in SessType
    BY <1>1 DEF IInv, TypeOK, TeardownUnregister, SessionState, SessType
  <2>2. claims' \in ClaimType
    BY ReleaseType DEF IInv, TeardownUnregister
  <2>3. registry' \in RegistryType /\ world' \in WorldType
    BY <1>3, WithoutFacts DEF IInv, TypeOK, RegistryType, WorldType
  <2> QED BY <2>1, <2>2, <2>3
          DEF IInv, TypeOK, TeardownUnregister, SessType, ClaimType, RegistryType, WorldType
<1>5. \A m \in Names : registry'[m] # NoSession => registry'[m] = registry[m]
  BY <1>3 DEF IInv, TypeOK
<1>6. \A m \in Names : world'[m] # NoBody => world'[m] = world[m]
  BY <1>3, WithoutFacts DEF IInv
<1>7. OwnName' /\ OwnStage'
  BY <1>2, <1>5, HolderFacts DEF OwnName, OwnStage
<1>8. Named' /\ MenuAfterLogin'
  BY <1>2 DEF IInv, Named, MenuAfterLogin
<1>9. SwapsOutside'
  BY <1>2, <1>5, <1>6, HolderFacts DEF IInv, SwapsOutside, Swaps
<1>10. LiveHoldsName'
  <2> SUFFICES ASSUME NEW t \in Sessions, Live(t)' PROVE registry'[sess'[t].name] = t
    BY DEF LiveHoldsName, Live
  <2>1. t # s
    BY <1>1 DEF Live, SessionState
  <2>2. sess'[t] = sess[t] /\ Live(t)
    BY <1>1, <2>1 DEF Live
  <2>3. registry[sess[t].name] = t /\ sess[t].name \in Names
    BY <2>2 DEF IInv, LiveHoldsName, Live, Named
  <2> QED BY <1>3, <2>1, <2>2, <2>3 DEF IInv, TypeOK
<1>11. NoOrphanBody'
  <2> SUFFICES ASSUME NEW m \in Names, world'[m] # NoBody
               PROVE registry'[m] # NoSession /\ sess'[registry'[m]].body = world'[m]
    BY DEF NoOrphanBody
  <2>1. world'[m] = world[m] /\ registry[m] # NoSession /\ sess[registry[m]].body = world[m]
    BY <1>6 DEF IInv, NoOrphanBody
  <2>2. registry'[m] = registry[m]
    BY <1>3, <2>1, WithoutFacts DEF IInv, TypeOK
  <2> QED BY <1>2, <2>1, <2>2, HolderFacts
<1> QED BY <1>4, <1>7, <1>8, <1>9, <1>10, <1>11 DEF IInv

-----------------------------------------------------------------------------
(* Steps that only mark a body, or only close a session *)

\* quit marks a body and changes no session.
LEMMA QuitRentKeeps ==
    ASSUME IInv, NEW s \in Sessions, QuitRent(s)
    PROVE IInv'
<1>1. bod' \in BodType
  BY DEF IInv, TypeOK, QuitRent, BodyState, BodType
<1>2. TypeOK'
  BY <1>1 DEF IInv, TypeOK, QuitRent, BodType
<1> QED BY <1>2, BodyStepKeeps DEF QuitRent

\* reallyquit marks a body and changes no session.
LEMMA QuitDropKeeps ==
    ASSUME IInv, NEW s \in Sessions, QuitDrop(s)
    PROVE IInv'
<1>1. bod' \in BodType
  BY DEF IInv, TypeOK, QuitDrop, BodyState, BodType
<1>2. TypeOK'
  BY <1>1 DEF IInv, TypeOK, QuitDrop, BodType
<1> QED BY <1>2, BodyStepKeeps DEF QuitDrop

\* A death marks a body and changes no session.
LEMMA DieKeeps ==
    ASSUME IInv, NEW n \in Names, Die(n)
    PROVE IInv'
<1>1. bod' \in BodType
  BY DEF IInv, TypeOK, Die, BodyState, BodType
<1>2. TypeOK'
  BY <1>1 DEF IInv, TypeOK, Die, BodType
<1> QED BY <1>2, BodyStepKeeps DEF Die

\* Idling out a body without a descriptor changes no session.
LEMMA IdleNoDescriptorKeeps ==
    ASSUME IInv, NEW n \in Names, IdleNoDescriptor(n)
    PROVE IInv'
<1>1. bod' \in BodType
  BY DEF IInv, TypeOK, IdleNoDescriptor, BodyState, BodType
<1>2. TypeOK'
  BY <1>1 DEF IInv, TypeOK, IdleNoDescriptor, BodType
<1> QED BY <1>2, BodyStepKeeps DEF IdleNoDescriptor

\* The rent of an idle body changes no session.
LEMMA IdleRentKeeps ==
    ASSUME IInv, IdleRent
    PROVE IInv'
<1>1. bod' \in BodType
  BY DEF IInv, TypeOK, IdleRent, BodyState, BodType
<1>2. TypeOK'
  BY <1>1 DEF IInv, TypeOK, IdleRent, BodType
<1> QED BY <1>2, BodyStepKeeps DEF IdleRent

\* Leaving from the menu closes a session whose body is not in the world.
LEMMA MenuExitKeeps ==
    ASSUME IInv, NEW s \in Sessions, MenuExit(s)
    PROVE IInv'
<1>1. sess[s] \in SessionState
  BY DEF IInv, TypeOK, MenuExit
<1>2. TypeOK'
  <2>1. sess' \in SessType
    BY <1>1 DEF IInv, TypeOK, MenuExit, SessionState, Pcs, SessType
  <2>2. claims' \in ClaimType
    BY <1>1, ReleaseType DEF IInv, TypeOK, MenuExit, ClaimType
  <2>3. bod' \in BodType
    BY <1>1 DEF IInv, TypeOK, MenuExit, BodyState, BodType
  <2> QED BY <2>1, <2>2, <2>3 DEF IInv, TypeOK, MenuExit, SessType, ClaimType, BodType
<1>3. \A t \in Sessions :
        /\ sess'[t].name = sess[t].name
        /\ sess'[t].body = sess[t].body
        /\ \/ sess'[t].pc = "closed"
           \/ sess'[t].pc = sess[t].pc /\ sess'[t].menu = sess[t].menu
        /\ sess[t].sendClosed => sess'[t].sendClosed
  BY <1>1 DEF IInv, TypeOK, MenuExit, SessionState
<1> QED BY <1>2, <1>3, ClosingStepKeeps DEF MenuExit

\* A reader that leaves its loop no longer drives anything.
LEMMA LeaveReadLoopKeeps ==
    ASSUME IInv, NEW s \in Sessions, LeaveReadLoop(s)
    PROVE IInv'
<1>1. sess[s] \in SessionState
  BY DEF IInv, TypeOK, LeaveReadLoop
<1>2. TypeOK'
  <2>1. sess' \in SessType
    BY <1>1 DEF IInv, TypeOK, LeaveReadLoop, SessionState, Pcs, SessType
  <2>2. claims' \in ClaimType
    BY <1>1, ReleaseType DEF IInv, TypeOK, LeaveReadLoop, ClaimType
  <2>3. bod' \in BodType
    BY <1>1 DEF IInv, TypeOK, LeaveReadLoop, BodyState, BodType
  <2> QED BY <2>1, <2>2, <2>3 DEF IInv, TypeOK, LeaveReadLoop, SessType, ClaimType, BodType
<1>3. \A t \in Sessions :
        /\ sess'[t].name = sess[t].name
        /\ sess'[t].body = sess[t].body
        /\ \/ sess'[t].pc = "closed"
           \/ sess'[t].pc = sess[t].pc /\ sess'[t].menu = sess[t].menu
        /\ sess[t].sendClosed => sess'[t].sendClosed
  BY <1>1 DEF IInv, TypeOK, LeaveReadLoop, SessionState
<1> QED BY <1>2, <1>3, ClosingStepKeeps DEF LeaveReadLoop

\* The teardown of an idle-closed session only marks it.
LEMMA TeardownIdleKeeps ==
    ASSUME IInv, NEW s \in Sessions, TeardownIdle(s)
    PROVE IInv'
<1>1. sess[s] \in SessionState
  BY DEF IInv, TypeOK, TeardownIdle
<1>2. TypeOK'
  <2>1. sess' \in SessType
    BY <1>1 DEF IInv, TypeOK, TeardownIdle, SessionState, Pcs, SessType
  <2>2. claims' \in ClaimType
    BY <1>1, ReleaseType DEF IInv, TypeOK, TeardownIdle, ClaimType
  <2>3. bod' \in BodType
    BY <1>1 DEF IInv, TypeOK, TeardownIdle, BodyState, BodType
  <2> QED BY <2>1, <2>2, <2>3 DEF IInv, TypeOK, TeardownIdle, SessType, ClaimType, BodType
<1>3. \A t \in Sessions :
        /\ sess'[t].name = sess[t].name
        /\ sess'[t].body = sess[t].body
        /\ \/ sess'[t].pc = "closed"
           \/ sess'[t].pc = sess[t].pc /\ sess'[t].menu = sess[t].menu
        /\ sess[t].sendClosed => sess'[t].sendClosed
  BY <1>1 DEF IInv, TypeOK, TeardownIdle, SessionState
<1> QED BY <1>2, <1>3, ClosingStepKeeps DEF TeardownIdle

\* A teardown that keeps the character linkdead leaves it registered.
LEMMA TeardownLinkdeadKeeps ==
    ASSUME IInv, NEW s \in Sessions, TeardownLinkdead(s)
    PROVE IInv'
<1>1. sess[s] \in SessionState
  BY DEF IInv, TypeOK, TeardownLinkdead
<1>2. TypeOK'
  <2>1. sess' \in SessType
    BY <1>1 DEF IInv, TypeOK, TeardownLinkdead, SessionState, Pcs, SessType
  <2>2. claims' \in ClaimType
    BY <1>1, ReleaseType DEF IInv, TypeOK, TeardownLinkdead, ClaimType
  <2>3. bod' \in BodType
    BY <1>1 DEF IInv, TypeOK, TeardownLinkdead, BodyState, BodType
  <2> QED BY <2>1, <2>2, <2>3 DEF IInv, TypeOK, TeardownLinkdead, SessType, ClaimType, BodType
<1>3. \A t \in Sessions :
        /\ sess'[t].name = sess[t].name
        /\ sess'[t].body = sess[t].body
        /\ \/ sess'[t].pc = "closed"
           \/ sess'[t].pc = sess[t].pc /\ sess'[t].menu = sess[t].menu
        /\ sess[t].sendClosed => sess'[t].sendClosed
  BY <1>1 DEF IInv, TypeOK, TeardownLinkdead, SessionState
<1> QED BY <1>2, <1>3, ClosingStepKeeps DEF TeardownLinkdead

\* An idle close shuts a session that stays the holder of its name.
LEMMA IdleCloseKeeps ==
    ASSUME IInv, NEW n \in Names, IdleClose(n)
    PROVE IInv'
<1>1. PICK s \in Sessions :
        /\ world[n] \in Bodies
        /\ idling' = world[n]
        /\ bod' = [bod EXCEPT ![world[n]].idle = TRUE, ![world[n]].linkless = TRUE]
        /\ sess' = [sess EXCEPT ![s].idleClosed = TRUE, ![s].sendClosed = TRUE,
                                ![s].detached = TRUE]
        /\ claims' = Release(s)
        /\ UNCHANGED <<registry, world>>
  BY DEF IInv, TypeOK, IdleClose
<1>2. sess[s] \in SessionState
  BY DEF IInv, TypeOK
<1>3. TypeOK'
  <2>1. sess' \in SessType
    BY <1>1, <1>2 DEF IInv, TypeOK, SessionState, SessType
  <2>2. claims' \in ClaimType
    BY <1>1, ReleaseType DEF IInv
  <2>3. bod' \in BodType
    BY <1>1 DEF IInv, TypeOK, BodyState, BodType
  <2> QED BY <1>1, <2>1, <2>2, <2>3 DEF IInv, TypeOK, SessType, ClaimType, BodType
<1>4. \A t \in Sessions :
        /\ sess'[t].name = sess[t].name
        /\ sess'[t].body = sess[t].body
        /\ sess'[t].pc = sess[t].pc /\ sess'[t].menu = sess[t].menu
        /\ sess[t].sendClosed => sess'[t].sendClosed
  BY <1>1, <1>2 DEF IInv, TypeOK, SessionState
<1> QED BY <1>1, <1>3, <1>4, ClosingStepKeeps

\* A kick closes a session that stays the holder of its name.
LEMMA KickKeeps ==
    ASSUME IInv, NEW n \in Names, Kick(n)
    PROVE IInv'
<1>1. registry[n] \in Sessions /\ sess[registry[n]] \in SessionState
  BY DEF IInv, TypeOK, Kick
<1>2. TypeOK'
  <2>1. sess' \in SessType
    BY <1>1 DEF IInv, TypeOK, Kick, SessionState, Pcs, SessType
  <2>2. claims' \in ClaimType
    BY <1>1, ReleaseType DEF IInv, TypeOK, Kick, ClaimType
  <2>3. bod' \in BodType
    BY <1>1 DEF IInv, TypeOK, Kick, BodyState, BodType
  <2> QED BY <2>1, <2>2, <2>3 DEF IInv, TypeOK, Kick, SessType, ClaimType, BodType
<1>3. \A t \in Sessions :
        /\ sess'[t].name = sess[t].name
        /\ sess'[t].body = sess[t].body
        /\ \/ sess'[t].pc = "closed"
           \/ sess'[t].pc = sess[t].pc /\ sess'[t].menu = sess[t].menu
        /\ sess[t].sendClosed => sess'[t].sendClosed
  BY <1>1 DEF IInv, TypeOK, Kick, SessionState
<1> QED BY <1>2, <1>3, ClosingStepKeeps DEF Kick

-----------------------------------------------------------------------------
(* The theorems *)

\* The initial states satisfy the inductive invariant.
LEMMA InitIInv == Init => IInv
BY SessionAssumption
   DEF Init, IInv, TypeOK, OwnName, OwnStage, Named, MenuAfterLogin, SwapsOutside, Swaps,
       LiveHoldsName, Live, NoOrphanBody, NewSession, LoadedBody, SessionState, BodyState, Pcs

\* IInv is preserved by every action.
LEMMA NextIInv == IInv /\ [Next]_vars => IInv'
<1> SUFFICES ASSUME IInv, [Next]_vars PROVE IInv'
  OBVIOUS
<1>1. CASE UNCHANGED vars
  BY <1>1 DEF vars, IInv, TypeOK, OwnName, OwnStage, Named, MenuAfterLogin, SwapsOutside,
              Swaps, LiveHoldsName, Live, NoOrphanBody
<1>2. ASSUME NEW s \in Sessions, ReaderStep(s) PROVE IInv'
  BY <1>2, ConnectKeeps, SnapshotNamesKeeps, ClaimNameKeeps, DenyNameKeeps, ReadRecordKeeps,
     WrongPasswordKeeps, AuthenticateKeeps, DupeCheckNoneKeeps, DupeCheckMenuKeeps,
     DupeCheckTakeoverKeeps, MenuEnterKeeps, EnterWorldKeeps, FinishEntryKeeps,
     MenuExitKeeps, QuitRentKeeps, QuitDropKeeps, LeaveReadLoopKeeps DEF ReaderStep
<1>3. ASSUME NEW s \in Sessions, Teardown(s) PROVE IInv'
  BY <1>3, TeardownIdleKeeps, TeardownLinkdeadKeeps, TeardownUnregisterKeeps DEF Teardown
<1>4. ASSUME NEW n \in Names, GameStep(n) PROVE IInv'
  BY <1>4, DieKeeps, ExtractRetireKeeps, ExtractToMenuKeeps, IdleCloseKeeps,
     IdleNoDescriptorKeeps DEF GameStep
<1>5. ASSUME NEW n \in Names, Kick(n) PROVE IInv'
  BY <1>5, KickKeeps
<1>6. CASE IdleRent
  BY <1>6, IdleRentKeeps
<1> QED BY <1>1, <1>2, <1>3, <1>4, <1>5, <1>6 DEF Next

\* IInv holds in every reachable state.
THEOREM Invariance == Spec => []IInv
<1> QED BY InitIInv, NextIInv, PTL DEF Spec

\* Every table and record of the lifecycle keeps its shape.
THEOREM TypeCorrect == Spec => []TypeOK
<1>1. IInv => TypeOK
  BY DEF IInv
<1> QED BY <1>1, Invariance, PTL

\* A body in the world always has a registered owner that plays it, for any
\* number of connections and names (drainPendingExtractionsLocked, Kick and
\* performDupeCheck all find bodies through their owner).
THEOREM NeverOrphaned == Spec => []NoOrphanBody
<1>1. IInv => NoOrphanBody
  BY DEF IInv
<1> QED BY <1>1, Invariance, PTL

\* World.AddPlayer never refuses the session that enterWorld admits.
THEOREM NeverRefused == Spec => []AdmissionNeverRefused
<1>1. IInv => AdmissionNeverRefused
  <2> SUFFICES ASSUME IInv, NEW s \in Sessions, sess[s].pc = "entering",
                      world[sess[s].name] # NoBody
               PROVE /\ registry[sess[s].name] \in Sessions \ {s}
                     /\ sess[registry[sess[s].name]].body = world[sess[s].name]
    BY DEF AdmissionNeverRefused
  <2>1. sess[s].name \in Names
    BY DEF IInv, Named
  <2>2. /\ registry[sess[s].name] # NoSession
        /\ sess[registry[sess[s].name]].body = world[sess[s].name]
    BY <2>1 DEF IInv, NoOrphanBody
  <2>3. registry[sess[s].name] # s
    BY <2>1, <2>2 DEF IInv, SwapsOutside, Swaps
  <2> QED BY <2>1, <2>2, <2>3, HolderFacts
<1> QED BY <1>1, Invariance, PTL

\* At most one connection drives a character.
THEOREM SingleDriver == Spec => []OneDriver
<1>1. IInv => OneDriver
  <2>1. ASSUME IInv, NEW s \in Sessions, Drives(s) PROVE registry[sess[s].name] = s
    BY <2>1 DEF Drives, Playing, IInv, LiveHoldsName, Live
  <2> QED BY <2>1 DEF OneDriver
<1> QED BY <1>1, Invariance, PTL

\* The other copy the duplicate check finds is a session.
LEMMA OldCopy ==
    ASSUME IInv, NEW t \in Sessions, sess[t].pc = "dupe", registry[sess[t].name] # NoSession
    PROVE registry[sess[t].name] \in Sessions
<1>1. sess[t].name \in Names
  BY DEF IInv, Named
<1> QED BY <1>1, HolderFacts

\* No step of a reader tears a transport down.
LEMMA ReaderNeverTears ==
    ASSUME IInv, NEW t \in Sessions, ReaderStep(t), NEW s \in Sessions, sess'[s].torn
    PROVE sess[s].torn
<1>1. CASE Connect(t)
  BY <1>1 DEF IInv, TypeOK, SessionState, Connect, NewSession
<1>2. CASE SnapshotNames(t)
  BY <1>2 DEF IInv, TypeOK, SessionState, SnapshotNames
<1>3. CASE ClaimName(t)
  BY <1>3 DEF IInv, TypeOK, SessionState, ClaimName
<1>4. CASE DenyName(t)
  BY <1>4 DEF IInv, TypeOK, SessionState, DenyName
<1>5. CASE ReadRecord(t)
  BY <1>5 DEF IInv, TypeOK, SessionState, ReadRecord
<1>6. CASE WrongPassword(t)
  BY <1>6 DEF IInv, TypeOK, SessionState, WrongPassword
<1>7. CASE Authenticate(t)
  BY <1>7 DEF IInv, TypeOK, SessionState, Authenticate
<1>8. CASE DupeCheckNone(t)
  BY <1>8 DEF IInv, TypeOK, SessionState, DupeCheckNone
<1>9. CASE DupeCheckMenu(t)
  <2>1. sess[t].pc = "dupe" /\ registry[sess[t].name] # NoSession
    BY <1>9 DEF DupeCheckMenu
  <2>2. registry[sess[t].name] \in Sessions
    BY <2>1, OldCopy
  <2> DEFINE old == registry[sess[t].name]
             closed == [sess EXCEPT ![old].sendClosed = TRUE]
  <2>3. sess' = [closed EXCEPT ![t] = [closed[t] EXCEPT !.pc = "loop", !.menu = TRUE]]
    BY <1>9, <2>2 DEF IInv, TypeOK, SessionState, DupeCheckMenu
  <2>4. closed \in [Sessions -> SessionState] /\ closed[s].torn = sess[s].torn
    <3>1. sess \in [Sessions -> SessionState] /\ sess[old] \in SessionState
      BY <2>2 DEF IInv, TypeOK
    <3>2. /\ [sess[old] EXCEPT !.sendClosed = TRUE] \in SessionState
          /\ [sess[old] EXCEPT !.sendClosed = TRUE].torn = sess[old].torn
      BY <3>1 DEF SessionState
    <3> QED BY <3>1, <3>2, <2>2
  <2> HIDE DEF closed
  <2>5. sess'[s].torn = closed[s].torn
    BY <2>3, <2>4 DEF SessionState
  <2> QED BY <2>4, <2>5
<1>10. CASE DupeCheckTakeover(t)
  <2>1. sess[t].pc = "dupe" /\ registry[sess[t].name] # NoSession
    BY <1>10 DEF DupeCheckTakeover
  <2>2. registry[sess[t].name] \in Sessions
    BY <2>1, OldCopy
  <2> DEFINE old == registry[sess[t].name]
             closed == [sess EXCEPT ![old] = Supersede(sess[old])]
  <2>3. sess' = [closed EXCEPT ![t] = [closed[t] EXCEPT !.pc = "loop",
                                                       !.body = sess[old].body]]
    BY <1>10, <2>2 DEF IInv, TypeOK, SessionState, DupeCheckTakeover
  <2>4. closed \in [Sessions -> SessionState] /\ closed[s].torn = sess[s].torn
    <3>1. sess \in [Sessions -> SessionState] /\ sess[old] \in SessionState
      BY <2>2 DEF IInv, TypeOK
    <3>2. /\ Supersede(sess[old]) \in SessionState
          /\ Supersede(sess[old]).torn = sess[old].torn
      BY <3>1 DEF Supersede, SessionState
    <3> QED BY <3>1, <3>2, <2>2
  <2> HIDE DEF closed
  <2>5. sess'[s].torn = closed[s].torn
    BY <2>3, <2>4 DEF SessionState
  <2> QED BY <2>4, <2>5
<1>11. CASE MenuEnter(t)
  BY <1>11 DEF IInv, TypeOK, SessionState, MenuEnter
<1>12. CASE EnterWorld(t)
  BY <1>12 DEF IInv, TypeOK, SessionState, EnterWorld
<1>13. CASE FinishEntry(t)
  BY <1>13 DEF IInv, TypeOK, SessionState, FinishEntry
<1>14. CASE MenuExit(t)
  BY <1>14 DEF IInv, TypeOK, SessionState, MenuExit
<1>15. CASE QuitRent(t)
  BY <1>15 DEF IInv, TypeOK, SessionState, QuitRent
<1>16. CASE QuitDrop(t)
  BY <1>16 DEF IInv, TypeOK, SessionState, QuitDrop
<1>17. CASE LeaveReadLoop(t)
  BY <1>17 DEF IInv, TypeOK, SessionState, LeaveReadLoop
<1> QED BY <1>1, <1>2, <1>3, <1>4, <1>5, <1>6, <1>7, <1>8, <1>9,
           <1>10, <1>11, <1>12, <1>13, <1>14, <1>15, <1>16, <1>17 DEF ReaderStep

\* Nor does the game loop or a kick.
LEMMA GameNeverTears ==
    ASSUME IInv, NEW n \in Names, GameStep(n) \/ Kick(n), NEW s \in Sessions, sess'[s].torn
    PROVE sess[s].torn
<1>1. CASE Die(n) \/ IdleNoDescriptor(n)
  BY <1>1 DEF Die, IdleNoDescriptor
<1>2. CASE ExtractRetire(n)
  BY <1>2 DEF IInv, TypeOK, SessionState, ExtractRetire
<1>3. CASE ExtractToMenu(n)
  BY <1>3 DEF IInv, TypeOK, SessionState, ExtractToMenu
<1>4. CASE IdleClose(n)
  BY <1>4 DEF IInv, TypeOK, SessionState, IdleClose
<1>5. CASE Kick(n)
  BY <1>5 DEF IInv, TypeOK, SessionState, Kick
<1> QED BY <1>1, <1>2, <1>3, <1>4, <1>5 DEF GameStep

\* The teardown of a connection that no longer holds a name leaves the name's
\* session and body alone.
THEOREM StaleTeardown == Spec => StaleTeardownHarmless
<1> DEFINE Harmless ==
        \A s \in Sessions : \A n \in Names :
            ~sess[s].torn /\ sess'[s].torn /\ registry[n] # s =>
                registry'[n] = registry[n] /\ world'[n] = world[n]
<1>1. IInv /\ [Next]_vars => Harmless
  <2> SUFFICES ASSUME IInv, [Next]_vars,
                      NEW s \in Sessions, NEW n \in Names,
                      ~sess[s].torn, sess'[s].torn, registry[n] # s
               PROVE registry'[n] = registry[n] /\ world'[n] = world[n]
    OBVIOUS
  <2>1. PICK t \in Sessions : Teardown(t)
    BY ReaderNeverTears, GameNeverTears DEF Next, IdleRent, vars
  <2>2. CASE TeardownIdle(t) \/ TeardownLinkdead(t)
    BY <2>2 DEF TeardownIdle, TeardownLinkdead
  <2>3. CASE TeardownUnregister(t)
    <3>1. t = s
      BY <2>3 DEF IInv, TypeOK, TeardownUnregister
    <3>2. CASE ~HoldsName(s)
      BY <2>3, <3>1, <3>2 DEF TeardownUnregister
    <3>3. CASE HoldsName(s)
      <4>1. n # sess[s].name
        BY <3>3 DEF HoldsName
      <4> QED BY <2>3, <3>1, <4>1, WithoutFacts DEF IInv, TypeOK, TeardownUnregister
    <3> QED BY <3>2, <3>3
  <2> QED BY <2>1, <2>2, <2>3 DEF Teardown
<1> QED BY <1>1, Invariance, PTL DEF Spec, StaleTeardownHarmless
-----------------------------------------------------------------------------
(* Descriptors that are closed or detached, and the bodies they hold       *)

\* An idle close detaches the descriptor and closes it.
IdleShut == \A s \in Sessions : sess[s].idleClosed => sess[s].sendClosed /\ sess[s].detached

\* A transport that was torn down is closed or detached.
TornShut == \A s \in Sessions : sess[s].torn => sess[s].sendClosed \/ sess[s].detached

\* During the entry the menu flag is up.
MenuStages == \A s \in Sessions : sess[s].pc \in {"entering", "entered"} => sess[s].menu

\* A connection that was taken over from is closed and never comes back.
SupersededForGood ==
    \A s \in Sessions : sess[s].superseded =>
        /\ ~sess[s].menu
        /\ sess[s].sendClosed
        /\ sess[s].pc \in {"loop", "closed"}
        /\ \A n \in Names : registry[n] # s

\* Two connections hold one body only when one took it over from the other.
BodiesApart ==
    \A s, t \in Sessions :
        sess[s].body = sess[t].body /\ sess[s].body # NoBody =>
            s = t \/ sess[s].superseded \/ sess[t].superseded \/ Gone(s) \/ Gone(t)

\* Whoever holds a linkless body is closed or detached.
LinklessShut ==
    \A s \in Sessions :
        sess[s].body # NoBody /\ bod[sess[s].body].linkless =>
            sess[s].sendClosed \/ sess[s].detached

\* A telnet connection is torn down after its loop, and if that leaves it
\* registered it is detached.
TelnetTorn ==
    \A s \in Sessions \ Browsers : sess[s].torn =>
        /\ sess[s].pc = "closed"
        /\ \A n \in Names : registry[n] = s => sess[s].detached

\* What closed, detached and superseded connections can no longer do.
ShutInv ==
    /\ IdleShut
    /\ TornShut
    /\ MenuStages
    /\ SupersededForGood
    /\ BodiesApart
    /\ LinklessShut
    /\ TelnetTorn

\* What an ordinary step does to a session: nothing that was closed, detached,
\* torn or left comes back, and what is new is as ShutInv wants it.
CalmFor(t) ==
    /\ sess'[t].superseded = sess[t].superseded
    /\ sess[t].sendClosed => sess'[t].sendClosed
    /\ sess[t].detached => sess'[t].detached
    /\ sess[t].torn => sess'[t].torn
    /\ sess[t].pc = "closed" => sess'[t].pc = "closed"
    /\ sess'[t].idleClosed =>
          sess[t].idleClosed \/ (sess'[t].sendClosed /\ sess'[t].detached)
    /\ sess'[t].torn /\ ~sess[t].torn =>
          /\ sess'[t].sendClosed \/ sess'[t].detached
          /\ t \notin Browsers =>
                /\ sess'[t].pc = "closed"
                /\ \A n \in Names : registry'[n] = t => sess'[t].detached
    /\ sess'[t].pc \in {"entering", "entered"} => sess'[t].menu
    /\ sess[t].superseded => sess'[t].pc \in {"loop", "closed"} /\ ~sess'[t].menu

\* A session a step does not touch.
LEMMA UntouchedCalm ==
    ASSUME ShutInv, NEW t \in Sessions, sess'[t] = sess[t]
    PROVE CalmFor(t)
BY DEF ShutInv, MenuStages, SupersededForGood, CalmFor

\* The sessions a step gives a free body.
TakesFree(t) ==
    /\ sess'[t].body \in FreeBodies
    /\ ~bod'[sess'[t].body].linkless
    /\ \A u \in Sessions \ {t} : sess'[u].body = sess[u].body

\* A registration is kept, dropped, or new for an open session.
CalmRegistry ==
    \A n \in Names :
        \/ registry'[n] \in {registry[n], NoSession}
        \/ /\ registry'[n] \in Sessions
           /\ sess[registry'[n]].pc # "closed"
           /\ ~sess[registry'[n]].superseded

\* A body becomes linkless only when all who hold it are closed or detached.
CalmBodies ==
    \A b \in Bodies : bod'[b].linkless =>
        \/ bod[b].linkless
        \/ \A t \in Sessions : sess[t].body = b => sess'[t].sendClosed \/ sess'[t].detached

\* Nothing of a connection that is over comes back in a calm step.
LEMMA CalmGone ==
    ASSUME IInv, NEW t \in Sessions, Gone(t), CalmFor(t), CalmRegistry
    PROVE Gone(t)'
BY SessionAssumption DEF Gone, CalmFor, CalmRegistry

\* Calm steps keep ShutInv.
LEMMA CalmStepKeeps ==
    ASSUME IInv, TypeOK', ShutInv, CalmRegistry, CalmBodies,
           \A t \in Sessions : CalmFor(t),
           \A t \in Sessions : sess'[t].body = sess[t].body \/ TakesFree(t)
    PROVE ShutInv'
<1>1. IdleShut'
  BY DEF CalmFor, ShutInv, IdleShut
<1>2. TornShut'
  BY DEF CalmFor, ShutInv, TornShut
<1>3. MenuStages'
  BY DEF CalmFor, MenuStages
<1>4. SupersededForGood'
  BY SessionAssumption DEF CalmFor, CalmRegistry, ShutInv, SupersededForGood
<1>5. BodiesApart'
  <2> SUFFICES ASSUME NEW s \in Sessions, NEW t \in Sessions, s # t,
                      sess'[s].body = sess'[t].body, sess'[s].body # NoBody
               PROVE \/ sess'[s].superseded \/ sess'[t].superseded
                     \/ Gone(s)' \/ Gone(t)'
    BY DEF BodiesApart
  <2>1. CASE sess'[s].body = sess[s].body /\ sess'[t].body = sess[t].body
    BY <2>1, CalmGone DEF CalmFor, ShutInv, BodiesApart
  <2>2. CASE TakesFree(s)
    <3>1. Gone(t)
      BY <2>2 DEF TakesFree, FreeBodies, Referenced
    <3> QED BY <3>1, CalmGone
  <2>3. CASE TakesFree(t)
    <3>1. Gone(s)
      BY <2>3 DEF TakesFree, FreeBodies, Referenced
    <3> QED BY <3>1, CalmGone
  <2> QED BY <2>1, <2>2, <2>3
<1>6. LinklessShut'
  <2> SUFFICES ASSUME NEW s \in Sessions, sess'[s].body # NoBody,
                      bod'[sess'[s].body].linkless
               PROVE sess'[s].sendClosed \/ sess'[s].detached
    BY DEF LinklessShut
  <2>1. sess'[s].body = sess[s].body
    BY DEF TakesFree
  <2>2. sess[s].body \in Bodies
    BY <2>1 DEF IInv, TypeOK, SessionState
  <2> QED BY <2>1, <2>2 DEF CalmFor, CalmBodies, ShutInv, LinklessShut
<1>7. TelnetTorn'
  <2> SUFFICES ASSUME NEW s \in Sessions \ Browsers, sess'[s].torn
               PROVE /\ sess'[s].pc = "closed"
                     /\ \A n \in Names : registry'[n] = s => sess'[s].detached
    BY DEF TelnetTorn
  <2>1. CASE sess[s].torn
    BY <2>1, SessionAssumption DEF CalmFor, CalmRegistry, ShutInv, TelnetTorn
  <2>2. CASE ~sess[s].torn
    BY <2>2 DEF CalmFor
  <2> QED BY <2>1, <2>2
<1> QED BY <1>1, <1>2, <1>3, <1>4, <1>5, <1>6, <1>7 DEF ShutInv

\* A calm step of one session, which keeps its body.
LEMMA OneCalmStepKeeps ==
    ASSUME IInv, TypeOK', ShutInv, CalmRegistry, CalmBodies,
           NEW s \in Sessions, CalmFor(s), sess'[s].body = sess[s].body,
           \A t \in Sessions \ {s} : sess'[t] = sess[t]
    PROVE ShutInv'
<1>1. \A t \in Sessions : CalmFor(t) /\ sess'[t].body = sess[t].body
  BY UntouchedCalm
<1> QED BY <1>1, CalmStepKeeps

-----------------------------------------------------------------------------
(* ShutInv, action by action *)

\* Login steps touch no flag.
LEMMA SnapshotNamesShuts ==
    ASSUME IInv, ShutInv, NEW s \in Sessions, SnapshotNames(s)
    PROVE ShutInv'
<1>1. sess[s] \in SessionState
  BY DEF IInv, TypeOK
<1>2. TypeOK'
  BY SnapshotNamesKeeps DEF IInv
<1>3. CalmFor(s) /\ sess'[s].body = sess[s].body
  BY <1>1 DEF IInv, TypeOK, SnapshotNames, CalmFor, SessionState,
              ShutInv, MenuStages, SupersededForGood, TornShut
<1>4. \A t \in Sessions \ {s} : sess'[t] = sess[t]
  BY DEF IInv, TypeOK, SnapshotNames
<1>5. CalmRegistry /\ CalmBodies
  BY DEF SnapshotNames, CalmRegistry, CalmBodies
<1> QED BY <1>2, <1>3, <1>4, <1>5, OneCalmStepKeeps

\* Claiming a name touches no flag.
LEMMA ClaimNameShuts ==
    ASSUME IInv, ShutInv, NEW s \in Sessions, ClaimName(s)
    PROVE ShutInv'
<1>1. sess[s] \in SessionState
  BY DEF IInv, TypeOK
<1>2. TypeOK'
  BY ClaimNameKeeps DEF IInv
<1>3. CalmFor(s) /\ sess'[s].body = sess[s].body
  BY <1>1 DEF IInv, TypeOK, ClaimName, CalmFor, SessionState,
              ShutInv, MenuStages, SupersededForGood, TornShut
<1>4. \A t \in Sessions \ {s} : sess'[t] = sess[t]
  BY DEF IInv, TypeOK, ClaimName
<1>5. CalmRegistry /\ CalmBodies
  BY DEF ClaimName, CalmRegistry, CalmBodies
<1> QED BY <1>2, <1>3, <1>4, <1>5, OneCalmStepKeeps

\* Nor does denying it.
LEMMA DenyNameShuts ==
    ASSUME IInv, ShutInv, NEW s \in Sessions, DenyName(s)
    PROVE ShutInv'
<1>1. sess[s] \in SessionState
  BY DEF IInv, TypeOK
<1>2. TypeOK'
  BY DenyNameKeeps DEF IInv
<1>3. CalmFor(s) /\ sess'[s].body = sess[s].body
  BY <1>1 DEF IInv, TypeOK, DenyName, CalmFor, SessionState,
              ShutInv, MenuStages, SupersededForGood, TornShut
<1>4. \A t \in Sessions \ {s} : sess'[t] = sess[t]
  BY DEF IInv, TypeOK, DenyName
<1>5. CalmRegistry /\ CalmBodies
  BY DEF DenyName, CalmRegistry, CalmBodies
<1> QED BY <1>2, <1>3, <1>4, <1>5, OneCalmStepKeeps

\* Nor does reading the record.
LEMMA ReadRecordShuts ==
    ASSUME IInv, ShutInv, NEW s \in Sessions, ReadRecord(s)
    PROVE ShutInv'
<1>1. sess[s] \in SessionState
  BY DEF IInv, TypeOK
<1>2. TypeOK'
  BY ReadRecordKeeps DEF IInv
<1>3. CalmFor(s) /\ sess'[s].body = sess[s].body
  BY <1>1 DEF IInv, TypeOK, ReadRecord, CalmFor, SessionState,
              ShutInv, MenuStages, SupersededForGood, TornShut
<1>4. \A t \in Sessions \ {s} : sess'[t] = sess[t]
  BY DEF IInv, TypeOK, ReadRecord
<1>5. CalmRegistry /\ CalmBodies
  BY DEF ReadRecord, CalmRegistry, CalmBodies
<1> QED BY <1>2, <1>3, <1>4, <1>5, OneCalmStepKeeps

\* The third wrong password closes.
LEMMA WrongPasswordShuts ==
    ASSUME IInv, ShutInv, NEW s \in Sessions, WrongPassword(s)
    PROVE ShutInv'
<1>1. sess[s] \in SessionState
  BY DEF IInv, TypeOK
<1>2. TypeOK'
  BY WrongPasswordKeeps DEF IInv
<1>3. CalmFor(s) /\ sess'[s].body = sess[s].body
  BY <1>1 DEF IInv, TypeOK, WrongPassword, CalmFor, SessionState,
              ShutInv, MenuStages, SupersededForGood, TornShut
<1>4. \A t \in Sessions \ {s} : sess'[t] = sess[t]
  BY DEF IInv, TypeOK, WrongPassword
<1>5. CalmRegistry /\ CalmBodies
  BY DEF WrongPassword, CalmRegistry, CalmBodies
<1> QED BY <1>2, <1>3, <1>4, <1>5, OneCalmStepKeeps

\* The session that goes to the menu was never superseded.
LEMMA DupeCheckNoneShuts ==
    ASSUME IInv, ShutInv, NEW s \in Sessions, DupeCheckNone(s)
    PROVE ShutInv'
<1>1. sess[s] \in SessionState
  BY DEF IInv, TypeOK
<1>2. TypeOK'
  BY DupeCheckNoneKeeps DEF IInv
<1>3. CalmFor(s) /\ sess'[s].body = sess[s].body
  BY <1>1 DEF IInv, TypeOK, DupeCheckNone, CalmFor, SessionState,
              ShutInv, MenuStages, SupersededForGood, TornShut
<1>4. \A t \in Sessions \ {s} : sess'[t] = sess[t]
  BY DEF IInv, TypeOK, DupeCheckNone
<1>5. CalmRegistry /\ CalmBodies
  BY DEF DupeCheckNone, CalmRegistry, CalmBodies
<1> QED BY <1>2, <1>3, <1>4, <1>5, OneCalmStepKeeps

\* After the entry the menu flag comes down.
LEMMA FinishEntryShuts ==
    ASSUME IInv, ShutInv, NEW s \in Sessions, FinishEntry(s)
    PROVE ShutInv'
<1>1. sess[s] \in SessionState
  BY DEF IInv, TypeOK
<1>2. TypeOK'
  BY FinishEntryKeeps DEF IInv
<1>3. CalmFor(s) /\ sess'[s].body = sess[s].body
  BY <1>1 DEF IInv, TypeOK, FinishEntry, CalmFor, SessionState,
              ShutInv, MenuStages, SupersededForGood, TornShut
<1>4. \A t \in Sessions \ {s} : sess'[t] = sess[t]
  BY DEF IInv, TypeOK, FinishEntry
<1>5. CalmRegistry /\ CalmBodies
  BY DEF FinishEntry, CalmRegistry, CalmBodies
<1> QED BY <1>2, <1>3, <1>4, <1>5, OneCalmStepKeeps

\* Leaving from the menu closes.
LEMMA MenuExitShuts ==
    ASSUME IInv, ShutInv, NEW s \in Sessions, MenuExit(s)
    PROVE ShutInv'
<1>1. sess[s] \in SessionState
  BY DEF IInv, TypeOK
<1>2. TypeOK'
  BY MenuExitKeeps DEF IInv
<1>3. CalmFor(s) /\ sess'[s].body = sess[s].body
  BY <1>1 DEF IInv, TypeOK, MenuExit, CalmFor, SessionState,
              ShutInv, MenuStages, SupersededForGood, TornShut
<1>4. \A t \in Sessions \ {s} : sess'[t] = sess[t]
  BY DEF IInv, TypeOK, MenuExit
<1>5. CalmRegistry /\ CalmBodies
  BY DEF MenuExit, CalmRegistry, CalmBodies
<1> QED BY <1>2, <1>3, <1>4, <1>5, OneCalmStepKeeps

\* Leaving the loop changes the stage alone.
LEMMA LeaveReadLoopShuts ==
    ASSUME IInv, ShutInv, NEW s \in Sessions, LeaveReadLoop(s)
    PROVE ShutInv'
<1>1. sess[s] \in SessionState
  BY DEF IInv, TypeOK
<1>2. TypeOK'
  BY LeaveReadLoopKeeps DEF IInv
<1>3. CalmFor(s) /\ sess'[s].body = sess[s].body
  BY <1>1 DEF IInv, TypeOK, LeaveReadLoop, CalmFor, SessionState,
              ShutInv, MenuStages, SupersededForGood, TornShut
<1>4. \A t \in Sessions \ {s} : sess'[t] = sess[t]
  BY DEF IInv, TypeOK, LeaveReadLoop
<1>5. CalmRegistry /\ CalmBodies
  BY DEF LeaveReadLoop, CalmRegistry, CalmBodies
<1> QED BY <1>2, <1>3, <1>4, <1>5, OneCalmStepKeeps

\* An idle-closed session is closed and detached already.
LEMMA TeardownIdleShuts ==
    ASSUME IInv, ShutInv, NEW s \in Sessions, TeardownIdle(s)
    PROVE ShutInv'
<1>1. sess[s] \in SessionState /\ sess[s].sendClosed /\ sess[s].detached
  BY DEF IInv, TypeOK, ShutInv, IdleShut, TeardownIdle
<1>2. TypeOK'
  BY TeardownIdleKeeps DEF IInv
<1>3. CalmFor(s) /\ sess'[s].body = sess[s].body
  BY <1>1 DEF IInv, TypeOK, TeardownIdle, TearsDown, CalmFor, SessionState,
              ShutInv, MenuStages, SupersededForGood
<1>4. \A t \in Sessions \ {s} : sess'[t] = sess[t]
  BY DEF IInv, TypeOK, TeardownIdle
<1>5. CalmRegistry /\ CalmBodies
  BY DEF TeardownIdle, CalmRegistry, CalmBodies
<1> QED BY <1>2, <1>3, <1>4, <1>5, OneCalmStepKeeps

\* A lost link detaches the session. The others that hold its body were
\* superseded, so they are closed.
LEMMA TeardownLinkdeadShuts ==
    ASSUME IInv, ShutInv, NEW s \in Sessions, TeardownLinkdead(s)
    PROVE ShutInv'
<1>1. sess[s] \in SessionState /\ sess[s].body \in Bodies
  BY DEF IInv, TypeOK, SessionState, TeardownLinkdead, Retains
<1>2. TypeOK'
  BY TeardownLinkdeadKeeps DEF IInv
<1>3. CalmFor(s) /\ sess'[s].body = sess[s].body /\ sess'[s].detached
  BY <1>1 DEF IInv, TypeOK, TeardownLinkdead, TearsDown, CalmFor, SessionState,
              ShutInv, MenuStages, SupersededForGood
<1>4. \A t \in Sessions \ {s} : sess'[t] = sess[t]
  BY DEF IInv, TypeOK, TeardownLinkdead
<1>5. CalmRegistry
  BY DEF TeardownLinkdead, CalmRegistry
<1>6. \A t \in Sessions \ {s} : sess[t].body = sess[s].body =>
        sess[t].sendClosed \/ sess[t].detached
  <2>1. ~sess[s].superseded /\ ~Gone(s) /\ sess[s].body # NoBody
    BY DEF TeardownLinkdead, TearsDown, Retains, Gone
  <2> QED BY <2>1 DEF ShutInv, BodiesApart, SupersededForGood, TornShut, Gone
<1>7. CalmBodies
  <2>1. \A b \in Bodies \ {sess[s].body} : bod'[b] = bod[b]
    BY <1>1 DEF IInv, TypeOK, TeardownLinkdead
  <2> QED BY <1>3, <1>4, <1>6, <2>1 DEF CalmBodies
<1> QED BY <1>2, <1>3, <1>4, <1>5, <1>7, OneCalmStepKeeps

\* A teardown that leaves closes, and takes the name along if it held one.
LEMMA TeardownUnregisterShuts ==
    ASSUME IInv, ShutInv, NEW s \in Sessions, TeardownUnregister(s)
    PROVE ShutInv'
<1>1. sess[s] \in SessionState
  BY DEF IInv, TypeOK
<1>2. TypeOK'
  BY TeardownUnregisterKeeps DEF IInv
<1>3. \A n \in Names : registry'[n] \in {registry[n], NoSession} /\ registry'[n] # s
  <2>1. \A n \in Names \ {sess[s].name} : registry[n] # s
    BY SessionAssumption DEF IInv, OwnName
  <2>2. NoSession # s /\ NoName \notin Names
    BY SessionAssumption
  <2>3. CASE ~HoldsName(s)
    BY <2>1, <2>2, <2>3 DEF HoldsName, TeardownUnregister
  <2>4. CASE HoldsName(s)
    BY <2>1, <2>2, <2>4 DEF IInv, TypeOK, HoldsName, TeardownUnregister
  <2> QED BY <2>3, <2>4
<1>4. CalmFor(s) /\ sess'[s].body = sess[s].body
  <2>1. /\ sess'[s] = [sess[s] EXCEPT !.torn = TRUE, !.sendClosed = TRUE]
        /\ sess[s].pc = "closed" \/ s \in Browsers
    BY DEF IInv, TypeOK, TeardownUnregister, TearsDown
  <2> QED BY <1>1, <1>3, <2>1 DEF CalmFor, SessionState, ShutInv, MenuStages, SupersededForGood
<1>5. \A t \in Sessions \ {s} : sess'[t] = sess[t]
  BY DEF IInv, TypeOK, TeardownUnregister
<1>6. CalmRegistry /\ CalmBodies
  BY <1>3 DEF TeardownUnregister, CalmRegistry, CalmBodies
<1> QED BY <1>2, <1>4, <1>5, <1>6, OneCalmStepKeeps

\* A body marked by a command, a death or the idle clock stays as linked as it was.
LEMMA MarkingShuts ==
    ASSUME IInv, ShutInv, TypeOK', UNCHANGED <<registry, sess>>,
           \A b \in Bodies : bod'[b].linkless = bod[b].linkless
    PROVE ShutInv'
<1>1. \A t \in Sessions : CalmFor(t) /\ sess'[t].body = sess[t].body
  BY UntouchedCalm
<1>2. CalmRegistry /\ CalmBodies
  BY DEF CalmRegistry, CalmBodies
<1> QED BY <1>1, <1>2, CalmStepKeeps

\* The steps that mark a body.
LEMMA MarkStepsShut ==
    ASSUME IInv, ShutInv,
           \/ \E s \in Sessions : QuitRent(s) \/ QuitDrop(s)
           \/ \E n \in Names : Die(n) \/ IdleNoDescriptor(n)
           \/ IdleRent
    PROVE ShutInv'
<1>1. TypeOK'
  BY QuitRentKeeps, QuitDropKeeps, DieKeeps, IdleNoDescriptorKeeps, IdleRentKeeps DEF IInv
<1>2. UNCHANGED <<registry, sess>>
  BY DEF QuitRent, QuitDrop, Die, IdleNoDescriptor, IdleRent
<1>3. \A b \in Bodies : bod[b] \in BodyState
  BY DEF IInv, TypeOK
<1>4. \A b \in Bodies : bod'[b].linkless = bod[b].linkless
  <2>1. ASSUME NEW s \in Sessions, QuitRent(s) \/ QuitDrop(s)
        PROVE \A b \in Bodies : bod'[b].linkless = bod[b].linkless
    <3>1. CASE QuitRent(s)
      BY <3>1, <1>3 DEF IInv, TypeOK, BodyState, QuitRent
    <3>2. CASE QuitDrop(s)
      BY <3>2, <1>3 DEF IInv, TypeOK, BodyState, QuitDrop
    <3> QED BY <2>1, <3>1, <3>2
  <2>2. ASSUME NEW n \in Names, Die(n) \/ IdleNoDescriptor(n)
        PROVE \A b \in Bodies : bod'[b].linkless = bod[b].linkless
    <3>1. CASE Die(n)
      BY <3>1, <1>3 DEF IInv, TypeOK, BodyState, Die
    <3>2. CASE IdleNoDescriptor(n)
      BY <3>2, <1>3 DEF IInv, TypeOK, BodyState, IdleNoDescriptor
    <3> QED BY <2>2, <3>1, <3>2
  <2>3. CASE IdleRent
    BY <2>3, <1>3 DEF IInv, TypeOK, BodyState, IdleRent
  <2> QED BY <2>1, <2>2, <2>3
<1> QED BY <1>1, <1>2, <1>4, MarkingShuts

\* A new connection holds nothing and was never closed.
LEMMA ConnectShuts ==
    ASSUME IInv, ShutInv, NEW s \in Sessions, Connect(s)
    PROVE ShutInv'
<1>1. sess'[s] = NewSession /\ \A t \in Sessions \ {s} : sess'[t] = sess[t]
  BY DEF IInv, TypeOK, Connect
<1>2. UNCHANGED <<registry, bod>>
  BY DEF Connect
<1>3. \A t \in Sessions \ {s} : Gone(t) => Gone(t)'
  BY <1>1, <1>2 DEF Gone
<1>4. IdleShut' /\ TornShut' /\ MenuStages'
  BY <1>1 DEF NewSession, ShutInv, IdleShut, TornShut, MenuStages
<1>5. SupersededForGood' /\ TelnetTorn'
  BY <1>1, <1>2 DEF NewSession, ShutInv, SupersededForGood, TelnetTorn
<1>6. LinklessShut'
  BY <1>1, <1>2 DEF NewSession, ShutInv, LinklessShut
<1>7. BodiesApart'
  <2>1. sess'[s].body = NoBody
    BY <1>1 DEF NewSession
  <2> QED BY <1>1, <1>3, <2>1 DEF ShutInv, BodiesApart
<1> QED BY <1>4, <1>5, <1>6, <1>7 DEF ShutInv

\* An authenticated session gets a body nobody holds.
LEMMA AuthenticateShuts ==
    ASSUME IInv, ShutInv, NEW s \in Sessions, Authenticate(s)
    PROVE ShutInv'
<1>1. PICK b \in FreeBodies :
        /\ bod' = [bod EXCEPT ![b] = LoadedBody(sess[s].name)]
        /\ sess' = [sess EXCEPT ![s] = [sess[s] EXCEPT !.pc = "dupe", !.body = b]]
        /\ registry' = registry
        /\ sess[s].pc = "verify"
  BY DEF Authenticate
<1>2. TypeOK' /\ sess[s] \in SessionState /\ b \in Bodies
  BY AuthenticateKeeps DEF IInv, TypeOK, FreeBodies
<1>3. /\ sess'[s] = [sess[s] EXCEPT !.pc = "dupe", !.body = b]
      /\ \A t \in Sessions \ {s} : sess'[t] = sess[t]
  BY <1>1 DEF IInv, TypeOK
<1>4. bod'[b].linkless = FALSE /\ \A c \in Bodies \ {b} : bod'[c] = bod[c]
  BY <1>1, <1>2 DEF IInv, TypeOK, LoadedBody
<1>5. CalmFor(s)
  BY <1>1, <1>2, <1>3 DEF CalmFor, SessionState, ShutInv, SupersededForGood
<1>6. CalmRegistry /\ CalmBodies
  BY <1>1, <1>4 DEF CalmRegistry, CalmBodies
<1>7. TakesFree(s)
  <2>1. sess'[s].body = b
    BY <1>2, <1>3 DEF SessionState
  <2> QED BY <1>3, <1>4, <2>1 DEF TakesFree
<1> QED BY <1>2, <1>3, <1>5, <1>6, <1>7, UntouchedCalm, CalmStepKeeps

\* A renter who enters the game gets a body nobody holds.
LEMMA MenuEnterShuts ==
    ASSUME IInv, ShutInv, NEW s \in Sessions, MenuEnter(s)
    PROVE ShutInv'
<1>1. /\ TypeOK' /\ sess[s] \in SessionState
      /\ sess[s].pc = "loop" /\ sess[s].menu /\ ~sess[s].superseded /\ registry' = registry
  BY MenuEnterKeeps DEF IInv, TypeOK, MenuEnter, AtMenu, ShutInv, SupersededForGood
<1>2. CalmRegistry
  BY <1>1 DEF CalmRegistry
<1>3. CASE ~bod[sess[s].body].rented
  <2>1. sess' = [sess EXCEPT ![s].pc = "entering"] /\ bod' = bod
    BY <1>3 DEF MenuEnter
  <2>2. /\ CalmFor(s) /\ sess'[s].body = sess[s].body
        /\ \A t \in Sessions \ {s} : sess'[t] = sess[t]
    BY <1>1, <2>1 DEF IInv, TypeOK, CalmFor, SessionState
  <2>3. CalmBodies
    BY <2>1 DEF CalmBodies
  <2> QED BY <1>1, <1>2, <2>2, <2>3, OneCalmStepKeeps
<1>4. CASE bod[sess[s].body].rented
  <2>1. PICK b \in FreeBodies :
          /\ bod' = [bod EXCEPT ![b] = LoadedBody(sess[s].name)]
          /\ sess' = [sess EXCEPT ![s] = [sess[s] EXCEPT !.pc = "entering", !.body = b]]
    BY <1>4 DEF MenuEnter
  <2>2. /\ sess'[s] = [sess[s] EXCEPT !.pc = "entering", !.body = b]
        /\ \A t \in Sessions \ {s} : sess'[t] = sess[t]
    BY <2>1 DEF IInv, TypeOK
  <2>3. b \in Bodies /\ bod'[b].linkless = FALSE /\ \A c \in Bodies \ {b} : bod'[c] = bod[c]
    BY <2>1 DEF IInv, TypeOK, LoadedBody, FreeBodies
  <2>4. CalmFor(s)
    BY <1>1, <2>2 DEF CalmFor, SessionState
  <2>5. CalmBodies
    BY <2>3 DEF CalmBodies
  <2>6. TakesFree(s)
    BY <1>1, <2>2, <2>3 DEF TakesFree, SessionState
  <2> QED BY <1>1, <1>2, <2>2, <2>4, <2>5, <2>6, UntouchedCalm, CalmStepKeeps
<1> QED BY <1>3, <1>4

\* The session at the menu is closed, the login goes to the menu.
LEMMA DupeCheckMenuShuts ==
    ASSUME IInv, ShutInv, NEW s \in Sessions, DupeCheckMenu(s)
    PROVE ShutInv'
<1> DEFINE n == sess[s].name
           old == registry[n]
<1>1. /\ old \in Sessions \ {s} /\ sess[s] \in SessionState /\ sess[old] \in SessionState
      /\ sess[s].pc = "dupe" /\ n \in Names /\ sess[old].pc # "dupe"
  BY HolderFacts DEF IInv, TypeOK, Named, DupeCheckMenu
<1>2. /\ sess'[old] = [sess[old] EXCEPT !.sendClosed = TRUE]
      /\ sess'[s] = [sess[s] EXCEPT !.pc = "loop", !.menu = TRUE]
      /\ \A t \in Sessions \ {s, old} : sess'[t] = sess[t]
  BY <1>1 DEF IInv, TypeOK, DupeCheckMenu
<1>3. TypeOK'
  BY DupeCheckMenuKeeps DEF IInv
<1>4. CalmFor(s) /\ sess'[s].body = sess[s].body
  BY <1>1, <1>2 DEF CalmFor, SessionState, ShutInv, SupersededForGood
<1>5. CalmFor(old) /\ sess'[old].body = sess[old].body
  BY <1>1, <1>2 DEF CalmFor, SessionState, ShutInv, SupersededForGood, MenuStages
<1>6. CalmRegistry /\ CalmBodies
  BY <1>1 DEF IInv, TypeOK, DupeCheckMenu, CalmRegistry, CalmBodies
<1> QED BY <1>2, <1>3, <1>4, <1>5, <1>6, UntouchedCalm, CalmStepKeeps

\* register closes the former holder of the name.
LEMMA EnterWorldShuts ==
    ASSUME IInv, ShutInv, NEW s \in Sessions, EnterWorld(s)
    PROVE ShutInv'
<1>1. /\ sess[s] \in SessionState /\ sess[s].pc = "entering" /\ sess[s].menu
      /\ ~sess[s].superseded /\ TypeOK'
  BY EnterWorldKeeps DEF IInv, TypeOK, EnterWorld, ShutInv, MenuStages, SupersededForGood
<1>2. sess'[s] = [sess[s] EXCEPT !.pc = "entered"]
  BY DEF EnterWorld
<1>3. \A t \in Sessions \ {s} :
        sess'[t] = sess[t] \/ sess'[t] = [sess[t] EXCEPT !.sendClosed = TRUE]
  BY DEF EnterWorld
<1>4. CalmFor(s) /\ sess'[s].body = sess[s].body
  BY <1>1, <1>2 DEF CalmFor, SessionState
<1>5. \A t \in Sessions \ {s} : CalmFor(t) /\ sess'[t].body = sess[t].body
  <2> SUFFICES ASSUME NEW t \in Sessions \ {s}
               PROVE CalmFor(t) /\ sess'[t].body = sess[t].body
    OBVIOUS
  <2>1. sess[t] \in SessionState
    BY DEF IInv, TypeOK
  <2>2. CASE sess'[t] = sess[t]
    BY <2>2, UntouchedCalm
  <2>3. CASE sess'[t] = [sess[t] EXCEPT !.sendClosed = TRUE]
    BY <2>1, <2>3 DEF CalmFor, SessionState, ShutInv, SupersededForGood, MenuStages
  <2> QED BY <1>3, <2>2, <2>3
<1>6. CalmRegistry /\ CalmBodies
  BY <1>1 DEF IInv, TypeOK, EnterWorld, CalmRegistry, CalmBodies
<1> QED BY <1>1, <1>4, <1>5, <1>6, CalmStepKeeps

\* What an extraction, a kick and an idle close do to the session they close.
LEMMA ClosingCalm ==
    ASSUME IInv, ShutInv, NEW s \in Sessions,
           \/ sess' = [sess EXCEPT ![s].sendClosed = TRUE]
           \/ sess' = [sess EXCEPT ![s].idleClosed = TRUE, ![s].sendClosed = TRUE,
                                   ![s].detached = TRUE]
    PROVE /\ CalmFor(s) /\ sess'[s].body = sess[s].body /\ sess'[s].sendClosed
          /\ \A t \in Sessions \ {s} : sess'[t] = sess[t]
<1>1. sess[s] \in SessionState
  BY DEF IInv, TypeOK
<1> QED BY <1>1 DEF IInv, TypeOK, CalmFor, SessionState, ShutInv, SupersededForGood, MenuStages

\* The retired session is closed and loses its name.
LEMMA ExtractRetireShuts ==
    ASSUME IInv, ShutInv, NEW n \in Names, ExtractRetire(n)
    PROVE ShutInv'
<1>1. PICK s \in Sessions :
        /\ world[n] \in Bodies
        /\ bod' = [bod EXCEPT ![world[n]].pending = FALSE]
        /\ registry' = [registry EXCEPT ![n] = NoSession]
        /\ sess' = [sess EXCEPT ![s].sendClosed = TRUE]
  BY DEF IInv, TypeOK, ExtractRetire, Extracts
<1>2. TypeOK'
  BY ExtractRetireKeeps DEF IInv
<1>3. CalmRegistry /\ CalmBodies
  BY <1>1 DEF IInv, TypeOK, BodyState, CalmRegistry, CalmBodies
<1> QED BY <1>1, <1>2, <1>3, ClosingCalm, OneCalmStepKeeps

\* The session that returns to the menu is registered, so it was not superseded.
LEMMA ExtractToMenuShuts ==
    ASSUME IInv, ShutInv, NEW n \in Names, ExtractToMenu(n)
    PROVE ShutInv'
<1>1. PICK s \in Sessions :
        /\ world[n] \in Bodies /\ registry[n] = s
        /\ bod' = [bod EXCEPT ![world[n]].pending = FALSE]
        /\ sess' = [sess EXCEPT ![s].menu = TRUE]
        /\ registry' = registry
  BY DEF IInv, TypeOK, ExtractToMenu, Extracts
<1>2. TypeOK' /\ sess[s] \in SessionState /\ ~sess[s].superseded
  BY <1>1, ExtractToMenuKeeps DEF IInv, TypeOK, ShutInv, SupersededForGood
<1>3. /\ CalmFor(s) /\ sess'[s].body = sess[s].body
      /\ \A t \in Sessions \ {s} : sess'[t] = sess[t]
  BY <1>1, <1>2 DEF IInv, TypeOK, CalmFor, SessionState
<1>4. CalmRegistry /\ CalmBodies
  BY <1>1 DEF IInv, TypeOK, BodyState, CalmRegistry, CalmBodies
<1> QED BY <1>2, <1>3, <1>4, OneCalmStepKeeps

\* A kick closes the holder of the name.
LEMMA KickShuts ==
    ASSUME IInv, ShutInv, NEW n \in Names, Kick(n)
    PROVE ShutInv'
<1>1. registry[n] \in Sessions /\ TypeOK'
  BY KickKeeps DEF IInv, TypeOK, Kick
<1>2. CalmRegistry /\ CalmBodies
  BY DEF Kick, CalmRegistry, CalmBodies
<1> QED BY <1>1, <1>2, ClosingCalm, OneCalmStepKeeps DEF Kick

\* An idle close shuts the one open session that holds the body.
LEMMA IdleCloseShuts ==
    ASSUME IInv, ShutInv, NEW n \in Names, IdleClose(n)
    PROVE ShutInv'
<1>1. PICK s \in Sessions :
        /\ world[n] \in Bodies /\ registry[n] = s /\ sess[s].body = world[n]
        /\ bod' = [bod EXCEPT ![world[n]].idle = TRUE, ![world[n]].linkless = TRUE]
        /\ sess' = [sess EXCEPT ![s].idleClosed = TRUE, ![s].sendClosed = TRUE,
                                ![s].detached = TRUE]
        /\ registry' = registry
  BY DEF IInv, TypeOK, IdleClose, AttachedTo
<1>2. TypeOK'
  BY IdleCloseKeeps DEF IInv
<1>3. /\ CalmFor(s) /\ sess'[s].body = sess[s].body /\ sess'[s].sendClosed
      /\ \A t \in Sessions \ {s} : sess'[t] = sess[t]
  BY <1>1, ClosingCalm
<1>4. \A t \in Sessions \ {s} : sess[t].body = world[n] => sess[t].sendClosed \/ sess[t].detached
  <2>1. ~sess[s].superseded /\ ~Gone(s) /\ sess[s].body # NoBody
    BY <1>1, SessionAssumption DEF ShutInv, SupersededForGood, Gone
  <2> QED BY <1>1, <2>1 DEF ShutInv, BodiesApart, SupersededForGood, TornShut, Gone
<1>5. CalmBodies
  <2>1. \A b \in Bodies \ {world[n]} : bod'[b] = bod[b]
    BY <1>1 DEF IInv, TypeOK
  <2> QED BY <1>3, <1>4, <2>1 DEF CalmBodies
<1>6. CalmRegistry
  BY <1>1 DEF CalmRegistry
<1> QED BY <1>2, <1>3, <1>5, <1>6, OneCalmStepKeeps

\* The one step that is not calm: the old session is superseded, the new one
\* takes its body, and the body is linked again.
LEMMA DupeCheckTakeoverShuts ==
    ASSUME IInv, ShutInv, NEW s \in Sessions, DupeCheckTakeover(s)
    PROVE ShutInv'
<1> DEFINE n == sess[s].name
           old == registry[n]
           b == sess[old].body
<1>1. /\ n \in Names /\ old \in Sessions \ {s}
      /\ sess[s] \in SessionState /\ sess[old] \in SessionState
      /\ sess[s].pc = "dupe" /\ ~sess[old].menu
      /\ sess[old].pc \in {"loop", "entering", "entered", "closed"}
  BY HolderFacts DEF IInv, TypeOK, Named, DupeCheckTakeover
<1>2. /\ sess'[old] = [sess[old] EXCEPT !.superseded = TRUE, !.sendClosed = TRUE]
      /\ sess'[s] = [sess[s] EXCEPT !.pc = "loop", !.body = b]
      /\ \A t \in Sessions \ {s, old} : sess'[t] = sess[t]
  BY <1>1 DEF IInv, TypeOK, DupeCheckTakeover, Supersede
<1>3. /\ sess'[old].superseded /\ sess'[old].sendClosed
      /\ sess'[old].body = b /\ sess'[old].pc = sess[old].pc /\ ~sess'[old].menu
      /\ sess'[old].torn = sess[old].torn /\ sess'[old].detached = sess[old].detached
      /\ sess'[old].idleClosed = sess[old].idleClosed
  BY <1>1, <1>2 DEF SessionState
<1>4. /\ sess'[s].pc = "loop" /\ sess'[s].body = b
      /\ sess'[s].superseded = sess[s].superseded /\ sess'[s].sendClosed = sess[s].sendClosed
      /\ sess'[s].torn = sess[s].torn /\ sess'[s].detached = sess[s].detached
      /\ sess'[s].idleClosed = sess[s].idleClosed
  BY <1>1, <1>2 DEF SessionState
<1>5. registry' = [registry EXCEPT ![n] = s] /\ bod' = [bod EXCEPT ![b].linkless = FALSE]
  BY DEF DupeCheckTakeover, Reattach
<1>6. /\ ~sess[s].superseded /\ ~sess[old].superseded /\ ~Gone(old)
      /\ sess[old].body = b
  BY <1>1 DEF ShutInv, SupersededForGood, Gone
<1>7. \A m \in Names : registry'[m] # old
  BY <1>1, <1>5, SessionAssumption DEF IInv, TypeOK, OwnName
<1> HIDE DEF n, old, b
<1>8. IdleShut' /\ TornShut'
  BY <1>2, <1>3, <1>4 DEF ShutInv, IdleShut, TornShut
<1>9. MenuStages'
  BY <1>1, <1>2, <1>3, <1>4 DEF ShutInv, MenuStages
<1>10. SupersededForGood'
  <2>1. sess'[old].pc \in {"loop", "closed"}
    BY <1>1, <1>3 DEF ShutInv, MenuStages
  <2>2. \A t \in Sessions \ {s, old} : sess[t].superseded =>
          \A m \in Names : registry'[m] # t
    BY <1>5 DEF IInv, TypeOK, ShutInv, SupersededForGood
  <2> SUFFICES ASSUME NEW t \in Sessions, sess'[t].superseded
               PROVE /\ ~sess'[t].menu /\ sess'[t].sendClosed
                     /\ sess'[t].pc \in {"loop", "closed"}
                     /\ \A m \in Names : registry'[m] # t
    BY DEF SupersededForGood
  <2>3. t # s
    BY <1>4, <1>6
  <2>4. CASE t = old
    BY <1>3, <1>7, <2>1, <2>4
  <2>5. CASE t # old
    BY <1>2, <2>2, <2>3, <2>5 DEF ShutInv, SupersededForGood
  <2> QED BY <2>4, <2>5
<1>11. BodiesApart'
  <2>1. \A t \in Sessions \ {s, old} : Gone(t) => Gone(t)'
    BY <1>2, <1>5 DEF IInv, TypeOK, Gone
  <2>2. \A t \in Sessions \ {s, old} : sess[t].body = b /\ b # NoBody =>
          sess'[t].superseded \/ Gone(t)'
    BY <1>1, <1>2, <1>6, <2>1 DEF ShutInv, BodiesApart
  <2>3. ASSUME NEW t \in Sessions, NEW u \in Sessions, t # u,
               sess'[t].body = sess'[u].body, sess'[t].body # NoBody
        PROVE sess'[t].superseded \/ sess'[u].superseded \/ Gone(t)' \/ Gone(u)'
    <3>1. CASE old \in {t, u}
      BY <1>3, <3>1
    <3>2. CASE s \in {t, u} /\ old \notin {t, u}
      BY <1>2, <1>4, <2>2, <2>3, <3>2
    <3>3. CASE {s, old} \cap {t, u} = {}
      BY <1>2, <2>1, <2>3, <3>3 DEF ShutInv, BodiesApart
    <3> QED BY <3>1, <3>2, <3>3
  <2> QED BY <2>3 DEF BodiesApart
<1>12. LinklessShut'
  <2>1. \A c \in Bodies : bod'[c].linkless => bod[c].linkless /\ c # b
    BY <1>5 DEF IInv, TypeOK, BodyState
  <2>2. \A t \in Sessions : sess'[t].body # NoBody => sess'[t].body \in Bodies
    BY DupeCheckTakeoverKeeps DEF IInv, TypeOK, SessionState
  <2> QED BY <1>2, <1>3, <1>4, <2>1, <2>2 DEF ShutInv, LinklessShut
<1>13. TelnetTorn'
  <2>1. ~sess'[s].torn \/ s \in Browsers
    BY <1>1, <1>4 DEF ShutInv, TelnetTorn
  <2>2. \A t \in Sessions \ {s, old} : \A m \in Names : registry'[m] = t => registry[m] = t
    BY <1>5 DEF IInv, TypeOK
  <2>3. ASSUME NEW t \in Sessions \ Browsers, sess'[t].torn
        PROVE /\ sess'[t].pc = "closed"
              /\ \A m \in Names : registry'[m] = t => sess'[t].detached
    <3>1. t # s
      BY <1>4, <2>1, <2>3
    <3>2. CASE t = old
      BY <1>3, <1>7, <2>3, <3>2 DEF ShutInv, TelnetTorn
    <3>3. CASE t # old
      BY <1>2, <2>2, <2>3, <3>1, <3>3 DEF ShutInv, TelnetTorn
    <3> QED BY <3>2, <3>3
  <2> QED BY <2>3 DEF TelnetTorn
<1> QED BY <1>8, <1>9, <1>10, <1>11, <1>12, <1>13 DEF ShutInv

\* The initial states satisfy it.
LEMMA InitShuts == Init => ShutInv
BY SessionAssumption
   DEF Init, NewSession, LoadedBody, ShutInv, IdleShut, TornShut, MenuStages,
       SupersededForGood, BodiesApart, LinklessShut, TelnetTorn

\* Every action keeps it.
LEMMA NextShuts == IInv /\ ShutInv /\ [Next]_vars => ShutInv'
<1> SUFFICES ASSUME IInv, ShutInv, [Next]_vars PROVE ShutInv'
  OBVIOUS
<1>1. CASE UNCHANGED vars
  BY <1>1 DEF vars, ShutInv, IdleShut, TornShut, MenuStages,
       SupersededForGood, BodiesApart, LinklessShut, TelnetTorn, Gone
<1>2. ASSUME NEW s \in Sessions, ReaderStep(s) PROVE ShutInv'
  BY <1>2, ConnectShuts, SnapshotNamesShuts, ClaimNameShuts, DenyNameShuts, ReadRecordShuts,
     WrongPasswordShuts, AuthenticateShuts, DupeCheckNoneShuts, DupeCheckMenuShuts,
     DupeCheckTakeoverShuts, MenuEnterShuts, EnterWorldShuts, FinishEntryShuts,
     MenuExitShuts, MarkStepsShut, LeaveReadLoopShuts DEF ReaderStep
<1>3. ASSUME NEW s \in Sessions, Teardown(s) PROVE ShutInv'
  BY <1>3, TeardownIdleShuts, TeardownLinkdeadShuts, TeardownUnregisterShuts DEF Teardown
<1>4. ASSUME NEW n \in Names, GameStep(n) PROVE ShutInv'
  BY <1>4, MarkStepsShut, ExtractRetireShuts, ExtractToMenuShuts, IdleCloseShuts DEF GameStep
<1>5. ASSUME NEW n \in Names, Kick(n) PROVE ShutInv'
  BY <1>5, KickShuts
<1>6. CASE IdleRent
  BY <1>6, MarkStepsShut
<1> QED BY <1>1, <1>2, <1>3, <1>4, <1>5, <1>6 DEF Next

\* Closed, detached and superseded connections stay what they are, in every
\* reachable state.
THEOREM ShutForGood == Spec => []ShutInv
<1> QED BY InitIInv, NextIInv, InitShuts, NextShuts, PTL DEF Spec

\* A body flagged linkless has no attached descriptor.
THEOREM LinklessUndriven == Spec => []LinkdeadHasNoDriver
<1>1. IInv /\ ShutInv => LinkdeadHasNoDriver
  <2> SUFFICES ASSUME IInv, ShutInv, NEW n \in Names, world[n] # NoBody,
                      bod[world[n]].linkless
               PROVE ~AttachedTo(registry[n], world[n])
    BY DEF LinkdeadHasNoDriver
  <2>1. registry[n] \in Sessions /\ sess[registry[n]].body = world[n]
    BY HolderFacts DEF IInv, NoOrphanBody
  <2> QED BY <2>1 DEF ShutInv, LinklessShut, AttachedTo, HasTransport
<1> QED BY <1>1, Invariance, ShutForGood, PTL

\* A telnet connection that is over and still registered is linkdead.
THEOREM TelnetLinkdead == Spec => []TelnetLeavesOnlyLinkdead
<1>1. ShutInv => TelnetLeavesOnlyLinkdead
  BY DEF ShutInv, TelnetTorn, TelnetLeavesOnlyLinkdead
<1> QED BY <1>1, ShutForGood, PTL
-----------------------------------------------------------------------------
(* The bodies of sessions                                                  *)

\* A session has a body from the password check on, and every registered one has.
Embodied ==
    /\ \A s \in Sessions :
        /\ sess[s].pc \in {"name", "snapshot", "password", "verify"} => sess[s].body = NoBody
        /\ sess[s].pc \in {"dupe", "loop", "entering", "entered"} => sess[s].body # NoBody
    /\ \A n \in Names : registry[n] # NoSession => sess[registry[n]].body # NoBody

\* It is a body of its own name, until the connection is over.
OwnBody ==
    \A s \in Sessions : sess[s].body # NoBody /\ ~Gone(s) =>
        sess[s].name \in Names /\ bod[sess[s].body].name = sess[s].name

\* Past the menu and open: the reader may have left its loop.
Lingers(s) ==
    sess[s].pc = "closed" /\ sess[s].body # NoBody /\ ~sess[s].menu /\ ~sess[s].sendClosed

\* A connection that would be kept linkdead holds its name.
LingerHoldsName ==
    \A s \in Sessions : Lingers(s) => sess[s].name \in Names /\ registry[sess[s].name] = s

\* Only during the entry is the body of a session with the menu flag in the world.
MenuOutside ==
    \A n \in Names :
        registry[n] # NoSession /\ sess[registry[n]].menu /\ sess[registry[n]].pc # "entered"
            => world[n] = NoBody

\* Whose body it is, and where it is.
BodyInv ==
    /\ Embodied
    /\ OwnBody
    /\ LingerHoldsName
    /\ MenuOutside

\* What a step does to a session: it has no body yet, or it has one of its name
\* and, if it would be kept linkdead now, it would have been before.
SteadyFor(t) ==
    \/ /\ sess'[t].body = NoBody
       /\ sess'[t].pc \in {"name", "snapshot", "password", "verify", "closed"}
       /\ \A n \in Names : registry[n] # t
    \/ /\ sess'[t].body # NoBody
       /\ sess'[t].pc \in {"dupe", "loop", "entering", "entered", "closed"}
       /\ sess'[t].name = sess[t].name
       /\ sess[t].pc = "closed" => sess'[t].pc = "closed"
       /\ sess[t].torn => sess'[t].torn
       /\ Lingers(t)' => Live(t) \/ Lingers(t)
       /\ \/ sess'[t].body = sess[t].body
          \/ sess[t].name \in Names /\ bod'[sess'[t].body].name = sess[t].name

\* A session a step does not touch.
LEMMA UntouchedSteady ==
    ASSUME IInv, BodyInv, NEW t \in Sessions, sess'[t] = sess[t]
    PROVE SteadyFor(t)
<1>1. sess[t].pc \in Pcs
  BY DEF IInv, TypeOK, SessionState
<1>2. CASE sess[t].body = NoBody
  BY <1>1, <1>2, SessionAssumption DEF Pcs, SteadyFor, BodyInv, Embodied
<1>3. CASE sess[t].body # NoBody
  BY <1>1, <1>3 DEF Pcs, SteadyFor, BodyInv, Embodied, Lingers
<1> QED BY <1>2, <1>3

\* Who loses a name is closed, and who gains one is open and has a body.
SteadyRegistry ==
    \A n \in Names :
        \/ registry'[n] = registry[n]
        \/ /\ registry[n] \in Sessions => sess'[registry[n]].sendClosed
           /\ \/ registry'[n] = NoSession
              \/ /\ registry'[n] \in Sessions
                 /\ sess[registry'[n]].pc # "closed"
                 /\ sess'[registry'[n]].body # NoBody

\* Only a body nobody holds becomes another name's.
SteadyBodies == \A b \in Bodies : bod'[b].name = bod[b].name \/ b \in FreeBodies

\* Who comes under the menu flag has no body in the world.
SteadyMenu ==
    \A n \in Names :
        /\ registry'[n] # NoSession
        /\ sess'[registry'[n]].menu
        /\ sess'[registry'[n]].pc # "entered"
        => \/ world'[n] = NoBody
           \/ /\ world'[n] = world[n] /\ registry'[n] = registry[n]
              /\ sess[registry[n]].menu /\ sess[registry[n]].pc # "entered"

\* Steady steps keep BodyInv.
LEMMA SteadyStepKeeps ==
    ASSUME IInv, TypeOK', BodyInv, SteadyRegistry, SteadyBodies, SteadyMenu,
           \A t \in Sessions : SteadyFor(t)
    PROVE BodyInv'
<1>1. Embodied'
  <2>1. ASSUME NEW n \in Names, registry'[n] # NoSession
        PROVE sess'[registry'[n]].body # NoBody
    <3>1. CASE registry'[n] = registry[n]
      BY <2>1, <3>1, HolderFacts DEF SteadyFor
    <3>2. CASE registry'[n] # registry[n]
      BY <2>1, <3>2 DEF SteadyRegistry
    <3> QED BY <3>1, <3>2
  <2>2. ASSUME NEW t \in Sessions
        PROVE /\ sess'[t].pc \in {"name", "snapshot", "password", "verify"} => sess'[t].body = NoBody
              /\ sess'[t].pc \in {"dupe", "loop", "entering", "entered"} => sess'[t].body # NoBody
    BY DEF SteadyFor
  <2> QED BY <2>1, <2>2 DEF Embodied
<1>2. OwnBody'
  <2> SUFFICES ASSUME NEW t \in Sessions, sess'[t].body # NoBody, ~Gone(t)'
               PROVE sess'[t].name \in Names /\ bod'[sess'[t].body].name = sess'[t].name
    BY DEF OwnBody
  <2>1. SteadyFor(t)
    OBVIOUS
  <2>2. CASE sess'[t].body = sess[t].body
    <3>1. ~Gone(t)
      BY <2>1, SessionAssumption DEF SteadyFor, SteadyRegistry, Gone
    <3>2. sess[t].body \in Bodies /\ sess[t].body \notin FreeBodies
      BY <2>2, <3>1 DEF IInv, TypeOK, SessionState, FreeBodies, Referenced
    <3>3. sess[t].name \in Names /\ bod[sess[t].body].name = sess[t].name
      BY <2>2, <3>1 DEF BodyInv, OwnBody
    <3> QED BY <2>1, <2>2, <3>2, <3>3 DEF SteadyFor, SteadyBodies
  <2>3. CASE sess'[t].body # sess[t].body
    BY <2>1, <2>3 DEF SteadyFor
  <2> QED BY <2>2, <2>3
<1>3. LingerHoldsName'
  <2> SUFFICES ASSUME NEW t \in Sessions, Lingers(t)'
               PROVE sess'[t].name \in Names /\ registry'[sess'[t].name] = t
    BY DEF LingerHoldsName, Lingers
  <2>1. (Live(t) \/ Lingers(t)) /\ sess'[t].name = sess[t].name /\ ~sess'[t].sendClosed
    BY DEF SteadyFor, Lingers
  <2>2. sess[t].name \in Names /\ registry[sess[t].name] = t
    BY <2>1 DEF Live, IInv, Named, LiveHoldsName, BodyInv, LingerHoldsName
  <2> QED BY <2>1, <2>2 DEF SteadyRegistry
<1>4. MenuOutside'
  BY DEF SteadyMenu, BodyInv, MenuOutside
<1> QED BY <1>1, <1>2, <1>3, <1>4 DEF BodyInv

\* A steady step of one session that leaves the registry and the world alone.
LEMMA OneSteadyStepKeeps ==
    ASSUME IInv, TypeOK', BodyInv, UNCHANGED <<registry, world>>, SteadyBodies,
           NEW s \in Sessions, SteadyFor(s),
           \A t \in Sessions \ {s} : sess'[t] = sess[t],
           sess'[s].menu /\ sess'[s].pc # "entered" =>
               (sess[s].menu /\ sess[s].pc # "entered") \/ \A n \in Names : registry[n] # s
    PROVE BodyInv'
<1>1. \A t \in Sessions : SteadyFor(t)
  BY UntouchedSteady
<1>2. SteadyRegistry
  BY DEF SteadyRegistry
<1>3. SteadyMenu
  BY HolderFacts DEF SteadyMenu
<1> QED BY <1>1, <1>2, <1>3, SteadyStepKeeps

-----------------------------------------------------------------------------
(* BodyInv, action by action *)

\* At the name prompt a session has no body.
LEMMA SnapshotNamesSteady ==
    ASSUME IInv, BodyInv, NEW s \in Sessions, SnapshotNames(s)
    PROVE BodyInv'
<1>1. sess[s] \in SessionState /\ TypeOK'
  BY SnapshotNamesKeeps DEF IInv, TypeOK
<1>2. \A t \in Sessions \ {s} : sess'[t] = sess[t]
  BY DEF IInv, TypeOK, SnapshotNames
<1>3. SteadyFor(s)
  BY <1>1, LoginUnregistered DEF IInv, TypeOK, SnapshotNames, SessionState, SteadyFor, BodyInv, Embodied
<1>4. sess'[s].menu /\ sess'[s].pc # "entered" =>
        (sess[s].menu /\ sess[s].pc # "entered") \/ \A n \in Names : registry[n] # s
  BY <1>1, LoginUnregistered DEF IInv, TypeOK, SnapshotNames, SessionState
<1>5. SteadyBodies
  BY DEF SnapshotNames, SteadyBodies
<1> QED BY <1>1, <1>2, <1>3, <1>4, <1>5, OneSteadyStepKeeps DEF SnapshotNames

\* Nor when it claims the name,
LEMMA ClaimNameSteady ==
    ASSUME IInv, BodyInv, NEW s \in Sessions, ClaimName(s)
    PROVE BodyInv'
<1>1. sess[s] \in SessionState /\ TypeOK'
  BY ClaimNameKeeps DEF IInv, TypeOK
<1>2. \A t \in Sessions \ {s} : sess'[t] = sess[t]
  BY DEF IInv, TypeOK, ClaimName
<1>3. SteadyFor(s)
  BY <1>1, LoginUnregistered DEF IInv, TypeOK, ClaimName, SessionState, SteadyFor, BodyInv, Embodied
<1>4. sess'[s].menu /\ sess'[s].pc # "entered" =>
        (sess[s].menu /\ sess[s].pc # "entered") \/ \A n \in Names : registry[n] # s
  BY <1>1, LoginUnregistered DEF IInv, TypeOK, ClaimName, SessionState
<1>5. SteadyBodies
  BY DEF ClaimName, SteadyBodies
<1> QED BY <1>1, <1>2, <1>3, <1>4, <1>5, OneSteadyStepKeeps DEF ClaimName

\* is denied it,
LEMMA DenyNameSteady ==
    ASSUME IInv, BodyInv, NEW s \in Sessions, DenyName(s)
    PROVE BodyInv'
<1>1. sess[s] \in SessionState /\ TypeOK'
  BY DenyNameKeeps DEF IInv, TypeOK
<1>2. \A t \in Sessions \ {s} : sess'[t] = sess[t]
  BY DEF IInv, TypeOK, DenyName
<1>3. SteadyFor(s)
  BY <1>1, LoginUnregistered DEF IInv, TypeOK, DenyName, SessionState, SteadyFor, BodyInv, Embodied
<1>4. sess'[s].menu /\ sess'[s].pc # "entered" =>
        (sess[s].menu /\ sess[s].pc # "entered") \/ \A n \in Names : registry[n] # s
  BY <1>1, LoginUnregistered DEF IInv, TypeOK, DenyName, SessionState
<1>5. SteadyBodies
  BY DEF DenyName, SteadyBodies
<1> QED BY <1>1, <1>2, <1>3, <1>4, <1>5, OneSteadyStepKeeps DEF DenyName

\* or has its record read.
LEMMA ReadRecordSteady ==
    ASSUME IInv, BodyInv, NEW s \in Sessions, ReadRecord(s)
    PROVE BodyInv'
<1>1. sess[s] \in SessionState /\ TypeOK'
  BY ReadRecordKeeps DEF IInv, TypeOK
<1>2. \A t \in Sessions \ {s} : sess'[t] = sess[t]
  BY DEF IInv, TypeOK, ReadRecord
<1>3. SteadyFor(s)
  BY <1>1, LoginUnregistered DEF IInv, TypeOK, ReadRecord, SessionState, SteadyFor, BodyInv, Embodied
<1>4. sess'[s].menu /\ sess'[s].pc # "entered" =>
        (sess[s].menu /\ sess[s].pc # "entered") \/ \A n \in Names : registry[n] # s
  BY <1>1, LoginUnregistered DEF IInv, TypeOK, ReadRecord, SessionState
<1>5. SteadyBodies
  BY DEF ReadRecord, SteadyBodies
<1> QED BY <1>1, <1>2, <1>3, <1>4, <1>5, OneSteadyStepKeeps DEF ReadRecord

\* A wrong password leaves it without one.
LEMMA WrongPasswordSteady ==
    ASSUME IInv, BodyInv, NEW s \in Sessions, WrongPassword(s)
    PROVE BodyInv'
<1>1. sess[s] \in SessionState /\ TypeOK'
  BY WrongPasswordKeeps DEF IInv, TypeOK
<1>2. \A t \in Sessions \ {s} : sess'[t] = sess[t]
  BY DEF IInv, TypeOK, WrongPassword
<1>3. SteadyFor(s)
  BY <1>1, LoginUnregistered DEF IInv, TypeOK, WrongPassword, SessionState, SteadyFor, BodyInv, Embodied
<1>4. sess'[s].menu /\ sess'[s].pc # "entered" =>
        (sess[s].menu /\ sess[s].pc # "entered") \/ \A n \in Names : registry[n] # s
  BY <1>1, LoginUnregistered DEF IInv, TypeOK, WrongPassword, SessionState
<1>5. SteadyBodies
  BY DEF WrongPassword, SteadyBodies
<1> QED BY <1>1, <1>2, <1>3, <1>4, <1>5, OneSteadyStepKeeps DEF WrongPassword

\* The candidate goes to the menu with its body.
LEMMA DupeCheckNoneSteady ==
    ASSUME IInv, BodyInv, NEW s \in Sessions, DupeCheckNone(s)
    PROVE BodyInv'
<1>1. sess[s] \in SessionState /\ TypeOK'
  BY DupeCheckNoneKeeps DEF IInv, TypeOK
<1>2. \A t \in Sessions \ {s} : sess'[t] = sess[t]
  BY DEF IInv, TypeOK, DupeCheckNone
<1>3. SteadyFor(s)
  BY <1>1 DEF IInv, TypeOK, DupeCheckNone, SessionState, SteadyFor, BodyInv, Embodied, Lingers
<1>4. sess'[s].menu /\ sess'[s].pc # "entered" =>
        (sess[s].menu /\ sess[s].pc # "entered") \/ \A n \in Names : registry[n] # s
  BY <1>1, LoginUnregistered DEF IInv, TypeOK, DupeCheckNone, SessionState
<1>5. SteadyBodies
  BY DEF DupeCheckNone, SteadyBodies
<1> QED BY <1>1, <1>2, <1>3, <1>4, <1>5, OneSteadyStepKeeps DEF DupeCheckNone

\* Past the entry the body may be driven.
LEMMA FinishEntrySteady ==
    ASSUME IInv, BodyInv, NEW s \in Sessions, FinishEntry(s)
    PROVE BodyInv'
<1>1. sess[s] \in SessionState /\ TypeOK'
  BY FinishEntryKeeps DEF IInv, TypeOK
<1>2. \A t \in Sessions \ {s} : sess'[t] = sess[t]
  BY DEF IInv, TypeOK, FinishEntry
<1>3. SteadyFor(s)
  BY <1>1 DEF IInv, TypeOK, FinishEntry, SessionState, SteadyFor, BodyInv, Embodied, Lingers
<1>4. sess'[s].menu /\ sess'[s].pc # "entered" =>
        (sess[s].menu /\ sess[s].pc # "entered") \/ \A n \in Names : registry[n] # s
  BY <1>1 DEF IInv, TypeOK, FinishEntry, SessionState
<1>5. SteadyBodies
  BY DEF FinishEntry, SteadyBodies
<1> QED BY <1>1, <1>2, <1>3, <1>4, <1>5, OneSteadyStepKeeps DEF FinishEntry

\* The menu is left by closing.
LEMMA MenuExitSteady ==
    ASSUME IInv, BodyInv, NEW s \in Sessions, MenuExit(s)
    PROVE BodyInv'
<1>1. sess[s] \in SessionState /\ TypeOK'
  BY MenuExitKeeps DEF IInv, TypeOK
<1>2. \A t \in Sessions \ {s} : sess'[t] = sess[t]
  BY DEF IInv, TypeOK, MenuExit
<1>3. SteadyFor(s)
  BY <1>1 DEF IInv, TypeOK, MenuExit, AtMenu, SessionState, SteadyFor, BodyInv, Embodied, Lingers
<1>4. sess'[s].menu /\ sess'[s].pc # "entered" =>
        (sess[s].menu /\ sess[s].pc # "entered") \/ \A n \in Names : registry[n] # s
  BY <1>1 DEF IInv, TypeOK, MenuExit, SessionState
<1>5. SteadyBodies
  BY DEF MenuExit, SteadyBodies
<1> QED BY <1>1, <1>2, <1>3, <1>4, <1>5, OneSteadyStepKeeps DEF MenuExit

\* Who leaves the loop open was past the menu before.
LEMMA LeaveReadLoopSteady ==
    ASSUME IInv, BodyInv, NEW s \in Sessions, LeaveReadLoop(s)
    PROVE BodyInv'
<1>1. sess[s] \in SessionState /\ TypeOK'
  BY LeaveReadLoopKeeps DEF IInv, TypeOK
<1>2. \A t \in Sessions \ {s} : sess'[t] = sess[t]
  BY DEF IInv, TypeOK, LeaveReadLoop
<1>3. SteadyFor(s)
  <2>1. CASE sess[s].pc = "loop"
    BY <1>1, <2>1 DEF IInv, TypeOK, LeaveReadLoop, SessionState, SteadyFor, BodyInv, Embodied,
                      Lingers, Live
  <2>2. CASE sess[s].pc \in {"name", "password"}
    BY <1>1, <2>2, LoginUnregistered DEF IInv, TypeOK, LeaveReadLoop, SessionState, SteadyFor,
                      BodyInv, Embodied
  <2> QED BY <2>1, <2>2 DEF LeaveReadLoop
<1>4. sess'[s].menu /\ sess'[s].pc # "entered" =>
        (sess[s].menu /\ sess[s].pc # "entered") \/ \A n \in Names : registry[n] # s
  BY <1>1 DEF IInv, TypeOK, LeaveReadLoop, SessionState
<1>5. SteadyBodies
  BY DEF LeaveReadLoop, SteadyBodies
<1> QED BY <1>1, <1>2, <1>3, <1>4, <1>5, OneSteadyStepKeeps DEF LeaveReadLoop

\* A teardown that changes only flags: the body and the name stay.
LEMMA FlagStepSteady ==
    ASSUME IInv, BodyInv, TypeOK', UNCHANGED <<registry, world>>, SteadyBodies,
           NEW s \in Sessions,
           \A t \in Sessions \ {s} : sess'[t] = sess[t],
           /\ sess'[s].pc = sess[s].pc /\ sess'[s].name = sess[s].name
           /\ sess'[s].body = sess[s].body /\ sess'[s].menu = sess[s].menu
           /\ sess[s].torn => sess'[s].torn
           /\ sess[s].sendClosed => sess'[s].sendClosed
    PROVE BodyInv'
<1>1. SteadyFor(s)
  <2>1. sess[s].pc \in Pcs
    BY DEF IInv, TypeOK, SessionState
  <2>2. CASE sess[s].body = NoBody
    BY <2>1, <2>2, SessionAssumption DEF Pcs, SteadyFor, BodyInv, Embodied
  <2>3. CASE sess[s].body # NoBody
    BY <2>1, <2>3 DEF Pcs, SteadyFor, BodyInv, Embodied, Lingers
  <2> QED BY <2>2, <2>3
<1> QED BY <1>1, OneSteadyStepKeeps

\* Teardowns that keep the name, an idle close and a kick change only flags.
LEMMA FlagStepsSteady ==
    ASSUME IInv, BodyInv,
           \/ \E s \in Sessions : TeardownIdle(s) \/ TeardownLinkdead(s)
           \/ \E n \in Names : IdleClose(n) \/ Kick(n)
    PROVE BodyInv'
<1>1. TypeOK' /\ UNCHANGED <<registry, world>>
  BY TeardownIdleKeeps, TeardownLinkdeadKeeps, IdleCloseKeeps, KickKeeps
     DEF IInv, TeardownIdle, TeardownLinkdead, IdleClose, Kick
<1> DEFINE Flags(s) ==
        /\ \A t \in Sessions \ {s} : sess'[t] = sess[t]
        /\ sess'[s].pc = sess[s].pc /\ sess'[s].name = sess[s].name
        /\ sess'[s].body = sess[s].body /\ sess'[s].menu = sess[s].menu
        /\ sess[s].torn => sess'[s].torn
        /\ sess[s].sendClosed => sess'[s].sendClosed
        /\ \A b \in Bodies : bod'[b].name = bod[b].name
<1>2. ASSUME NEW s \in Sessions, TeardownIdle(s) PROVE Flags(s)
  BY <1>2 DEF IInv, TypeOK, SessionState, TeardownIdle
<1>3. ASSUME NEW s \in Sessions, TeardownLinkdead(s) PROVE Flags(s)
  BY <1>3 DEF IInv, TypeOK, SessionState, BodyState, TeardownLinkdead
<1>4. ASSUME NEW n \in Names, Kick(n) PROVE registry[n] \in Sessions /\ Flags(registry[n])
  BY <1>4 DEF IInv, TypeOK, SessionState, Kick
<1>5. ASSUME NEW n \in Names, IdleClose(n) PROVE \E s \in Sessions : Flags(s)
  <2>1. PICK s \in Sessions :
          /\ bod' = [bod EXCEPT ![world[n]].idle = TRUE, ![world[n]].linkless = TRUE]
          /\ sess' = [sess EXCEPT ![s].idleClosed = TRUE, ![s].sendClosed = TRUE,
                                  ![s].detached = TRUE]
    BY <1>5 DEF IdleClose
  <2>2. \A b \in Bodies : bod'[b].name = bod[b].name
    BY <2>1 DEF IInv, TypeOK, BodyState
  <2>3. sess[s] \in SessionState
    BY DEF IInv, TypeOK
  <2>4. Flags(s)
    BY <2>1, <2>2, <2>3 DEF IInv, TypeOK, SessionState
  <2> QED BY <2>4
<1>6. PICK s \in Sessions : Flags(s)
  BY <1>2, <1>3, <1>4, <1>5
<1>7. SteadyBodies
  BY <1>6 DEF SteadyBodies
<1> QED BY <1>1, <1>6, <1>7, FlagStepSteady

\* The steps that mark a body leave its name.
LEMMA MarkStepsSteady ==
    ASSUME IInv, BodyInv,
           \/ \E s \in Sessions : QuitRent(s) \/ QuitDrop(s)
           \/ \E n \in Names : Die(n) \/ IdleNoDescriptor(n)
           \/ IdleRent
    PROVE BodyInv'
<1>1. TypeOK'
  BY QuitRentKeeps, QuitDropKeeps, DieKeeps, IdleNoDescriptorKeeps, IdleRentKeeps DEF IInv
<1>2. UNCHANGED <<registry, sess, world>>
  BY DEF QuitRent, QuitDrop, Die, IdleNoDescriptor, IdleRent
<1>3. \A b \in Bodies : bod[b] \in BodyState
  BY DEF IInv, TypeOK
<1>4. \A b \in Bodies : bod'[b].name = bod[b].name
  <2>1. ASSUME NEW s \in Sessions, QuitRent(s) \/ QuitDrop(s)
        PROVE \A b \in Bodies : bod'[b].name = bod[b].name
    <3>1. CASE QuitRent(s)
      BY <3>1, <1>3 DEF IInv, TypeOK, BodyState, QuitRent
    <3>2. CASE QuitDrop(s)
      BY <3>2, <1>3 DEF IInv, TypeOK, BodyState, QuitDrop
    <3> QED BY <2>1, <3>1, <3>2
  <2>2. ASSUME NEW n \in Names, Die(n) \/ IdleNoDescriptor(n)
        PROVE \A b \in Bodies : bod'[b].name = bod[b].name
    <3>1. CASE Die(n)
      BY <3>1, <1>3 DEF IInv, TypeOK, BodyState, Die
    <3>2. CASE IdleNoDescriptor(n)
      BY <3>2, <1>3 DEF IInv, TypeOK, BodyState, IdleNoDescriptor
    <3> QED BY <2>2, <3>1, <3>2
  <2>3. CASE IdleRent
    BY <2>3, <1>3 DEF IInv, TypeOK, BodyState, IdleRent
  <2> QED BY <2>1, <2>2, <2>3
<1>5. SteadyRegistry /\ SteadyBodies
  BY <1>2, <1>4 DEF SteadyRegistry, SteadyBodies
<1>6. SteadyMenu
  BY <1>2 DEF SteadyMenu
<1> QED BY <1>1, <1>2, <1>5, <1>6, UntouchedSteady, SteadyStepKeeps

\* A new connection has no body.
LEMMA ConnectSteady ==
    ASSUME IInv, BodyInv, NEW s \in Sessions, Connect(s)
    PROVE BodyInv'
<1>1. TypeOK' /\ UNCHANGED <<registry, world, bod>>
  BY ConnectKeeps DEF IInv, Connect
<1>2. sess'[s] = NewSession /\ \A t \in Sessions \ {s} : sess'[t] = sess[t]
  BY DEF IInv, TypeOK, Connect
<1>3. SteadyFor(s)
  BY <1>2 DEF Connect, Gone, NewSession, SteadyFor
<1>4. ~sess'[s].menu
  BY <1>2 DEF NewSession
<1>5. SteadyBodies
  BY <1>1 DEF SteadyBodies
<1> QED BY <1>1, <1>2, <1>3, <1>4, <1>5, OneSteadyStepKeeps

\* The candidate is a body of the name that was claimed.
LEMMA AuthenticateSteady ==
    ASSUME IInv, BodyInv, NEW s \in Sessions, Authenticate(s)
    PROVE BodyInv'
<1>1. PICK b \in FreeBodies :
        /\ bod' = [bod EXCEPT ![b] = LoadedBody(sess[s].name)]
        /\ sess' = [sess EXCEPT ![s] = [sess[s] EXCEPT !.pc = "dupe", !.body = b]]
        /\ UNCHANGED <<registry, world>>
        /\ sess[s].pc = "verify"
  BY DEF Authenticate
<1>2. /\ TypeOK' /\ sess[s] \in SessionState /\ b \in Bodies /\ sess[s].name \in Names
      /\ ~sess[s].menu
  BY <1>1, AuthenticateKeeps DEF IInv, TypeOK, Named, MenuAfterLogin, FreeBodies
<1>3. /\ sess'[s] = [sess[s] EXCEPT !.pc = "dupe", !.body = b]
      /\ \A t \in Sessions \ {s} : sess'[t] = sess[t]
  BY <1>1 DEF IInv, TypeOK
<1>4. bod'[b].name = sess[s].name /\ \A c \in Bodies \ {b} : bod'[c] = bod[c]
  BY <1>1, <1>2 DEF IInv, TypeOK, LoadedBody
<1>5. /\ sess'[s].pc = "dupe" /\ sess'[s].body = b /\ sess'[s].name = sess[s].name
      /\ sess'[s].torn = sess[s].torn /\ ~sess'[s].menu
  BY <1>2, <1>3 DEF SessionState
<1>6. SteadyFor(s)
  BY <1>1, <1>2, <1>4, <1>5, SessionAssumption DEF SteadyFor, Lingers
<1>7. SteadyBodies
  BY <1>4 DEF SteadyBodies
<1> QED BY <1>1, <1>2, <1>3, <1>5, <1>6, <1>7, OneSteadyStepKeeps

\* A renter's new body is of the same name.
LEMMA MenuEnterSteady ==
    ASSUME IInv, BodyInv, NEW s \in Sessions, MenuEnter(s)
    PROVE BodyInv'
<1>1. /\ TypeOK' /\ sess[s] \in SessionState /\ sess[s].name \in Names
      /\ sess[s].pc = "loop" /\ sess[s].menu /\ UNCHANGED <<registry, world>>
      /\ sess[s].body \in Bodies
  BY MenuEnterKeeps DEF IInv, TypeOK, Named, MenuEnter, AtMenu, BodyInv, Embodied, SessionState
<1>2. CASE ~bod[sess[s].body].rented
  <2>1. sess' = [sess EXCEPT ![s].pc = "entering"] /\ bod' = bod
    BY <1>2 DEF MenuEnter
  <2>2. /\ sess'[s].pc = "entering" /\ sess'[s].body = sess[s].body
        /\ sess'[s].name = sess[s].name /\ sess'[s].torn = sess[s].torn
        /\ \A t \in Sessions \ {s} : sess'[t] = sess[t]
    BY <1>1, <2>1 DEF IInv, TypeOK, SessionState
  <2>3. SteadyFor(s) /\ SteadyBodies
    BY <1>1, <2>1, <2>2, SessionAssumption DEF SteadyFor, Lingers, SteadyBodies
  <2> QED BY <1>1, <2>2, <2>3, OneSteadyStepKeeps
<1>3. CASE bod[sess[s].body].rented
  <2>1. PICK b \in FreeBodies :
          /\ bod' = [bod EXCEPT ![b] = LoadedBody(sess[s].name)]
          /\ sess' = [sess EXCEPT ![s] = [sess[s] EXCEPT !.pc = "entering", !.body = b]]
    BY <1>3 DEF MenuEnter
  <2>2. b \in Bodies
    BY DEF FreeBodies
  <2>3. bod'[b].name = sess[s].name /\ \A c \in Bodies \ {b} : bod'[c] = bod[c]
    BY <2>1, <2>2 DEF IInv, TypeOK, LoadedBody
  <2>4. /\ sess'[s].pc = "entering" /\ sess'[s].body = b
        /\ sess'[s].name = sess[s].name /\ sess'[s].torn = sess[s].torn
        /\ \A t \in Sessions \ {s} : sess'[t] = sess[t]
    BY <1>1, <2>1 DEF IInv, TypeOK, SessionState
  <2>5. SteadyFor(s) /\ SteadyBodies
    BY <1>1, <2>2, <2>3, <2>4, SessionAssumption DEF SteadyFor, Lingers, SteadyBodies
  <2> QED BY <1>1, <2>4, <2>5, OneSteadyStepKeeps
<1> QED BY <1>2, <1>3

\* A registered session that is closed, or superseded.
LEMMA ClosedSteady ==
    ASSUME IInv, BodyInv, NEW t \in Sessions, NEW n \in Names, registry[n] = t,
           \/ sess'[t] = [sess[t] EXCEPT !.sendClosed = TRUE]
           \/ sess'[t] = [sess[t] EXCEPT !.superseded = TRUE, !.sendClosed = TRUE]
    PROVE SteadyFor(t) /\ sess'[t].sendClosed
<1>1. /\ sess[t] \in SessionState /\ sess[t].body # NoBody
      /\ sess[t].pc \in {"loop", "entering", "entered", "closed"}
  BY HolderFacts, SessionAssumption DEF BodyInv, Embodied
<1> QED BY <1>1 DEF SteadyFor, SessionState, Lingers

\* The closed session at the menu loses its name, and had no body in the world
\* unless it was entering.
LEMMA DupeCheckMenuSteady ==
    ASSUME IInv, BodyInv, NEW s \in Sessions, DupeCheckMenu(s)
    PROVE BodyInv'
<1> DEFINE n == sess[s].name
           old == registry[n]
<1>1. /\ old \in Sessions \ {s} /\ sess[s] \in SessionState /\ sess[old] \in SessionState
      /\ sess[s].pc = "dupe" /\ n \in Names /\ sess[old].menu
      /\ sess[old].pc \in {"loop", "entering", "entered", "closed"}
      /\ \A m \in Names : registry[m] # s
      /\ TypeOK'
  BY HolderFacts, LoginUnregistered, DupeCheckMenuKeeps DEF IInv, TypeOK, Named, DupeCheckMenu
<1>2. /\ sess'[old] = [sess[old] EXCEPT !.sendClosed = TRUE]
      /\ sess'[s] = [sess[s] EXCEPT !.pc = "loop", !.menu = TRUE]
      /\ \A t \in Sessions \ {s, old} : sess'[t] = sess[t]
  BY <1>1 DEF IInv, TypeOK, DupeCheckMenu
<1>3. SteadyFor(s)
  BY <1>1, <1>2 DEF SteadyFor, SessionState, BodyInv, Embodied, Lingers
<1>4. SteadyFor(old) /\ sess'[old].sendClosed
  BY <1>1, <1>2, ClosedSteady
<1>5. \A t \in Sessions : SteadyFor(t)
  BY <1>2, <1>3, <1>4, UntouchedSteady
<1>6. SteadyRegistry /\ SteadyBodies
  BY <1>4 DEF IInv, TypeOK, DupeCheckMenu, SteadyRegistry, SteadyBodies
<1>7. SteadyMenu
  <2> SUFFICES ASSUME NEW m \in Names, registry'[m] # NoSession
               PROVE /\ world'[m] = world[m] /\ registry'[m] = registry[m]
                     /\ sess'[registry[m]] = sess[registry[m]]
    BY DEF SteadyMenu
  <2>1. m # n /\ registry'[m] = registry[m]
    BY DEF IInv, TypeOK, DupeCheckMenu
  <2>2. world'[m] = world[m]
    <3>1. world' = Without(n, sess[old].body)
      BY DEF DupeCheckMenu
    <3> HIDE DEF n, old
    <3>2. \A k \in Names : k # n => Without(n, sess[old].body)[k] = world[k]
      BY WithoutFacts DEF IInv
    <3> QED BY <2>1, <3>1, <3>2
  <2>3. registry[m] \in Sessions \ {s, old}
    BY <1>1, <2>1, HolderFacts
  <2> QED BY <1>2, <2>1, <2>2, <2>3
<1> QED BY <1>1, <1>5, <1>6, <1>7, SteadyStepKeeps

\* The body that is taken over has the name both sessions go by.
LEMMA DupeCheckTakeoverSteady ==
    ASSUME IInv, BodyInv, NEW s \in Sessions, DupeCheckTakeover(s)
    PROVE BodyInv'
<1> DEFINE n == sess[s].name
           old == registry[n]
           b == sess[old].body
<1>1. /\ old \in Sessions \ {s} /\ sess[s] \in SessionState /\ sess[old] \in SessionState
      /\ sess[s].pc = "dupe" /\ n \in Names /\ sess[old].name = n /\ b # NoBody
      /\ sess[old].pc \in {"loop", "entering", "entered", "closed"}
      /\ ~sess[s].menu
      /\ TypeOK'
  BY HolderFacts, DupeCheckTakeoverKeeps
     DEF IInv, TypeOK, Named, MenuAfterLogin, DupeCheckTakeover, BodyInv, Embodied
<1>2. /\ sess'[old] = [sess[old] EXCEPT !.superseded = TRUE, !.sendClosed = TRUE]
      /\ sess'[s] = [sess[s] EXCEPT !.pc = "loop", !.body = b]
      /\ \A t \in Sessions \ {s, old} : sess'[t] = sess[t]
  BY <1>1 DEF IInv, TypeOK, DupeCheckTakeover, Supersede
<1>3. bod[b].name = n /\ b \in Bodies
  BY <1>1 DEF IInv, TypeOK, SessionState, BodyInv, OwnBody, Gone
<1>4. \A c \in Bodies : bod'[c].name = bod[c].name
  BY DEF IInv, TypeOK, BodyState, DupeCheckTakeover, Reattach
<1>5. SteadyFor(s) /\ sess'[s].body # NoBody /\ ~sess'[s].menu
  BY <1>1, <1>2, <1>3, <1>4 DEF SteadyFor, SessionState, Lingers
<1>6. SteadyFor(old) /\ sess'[old].sendClosed
  BY <1>1, <1>2, ClosedSteady
<1>7. \A t \in Sessions : SteadyFor(t)
  BY <1>2, <1>5, <1>6, UntouchedSteady
<1>8. SteadyRegistry /\ SteadyBodies
  BY <1>1, <1>4, <1>5, <1>6 DEF IInv, TypeOK, DupeCheckTakeover, SteadyRegistry, SteadyBodies
<1>9. SteadyMenu
  <2> SUFFICES ASSUME NEW m \in Names, registry'[m] # NoSession, m # n
               PROVE /\ world'[m] = world[m] /\ registry'[m] = registry[m]
                     /\ sess'[registry[m]] = sess[registry[m]]
    BY <1>5 DEF IInv, TypeOK, DupeCheckTakeover, SteadyMenu
  <2>1. world'[m] = world[m] /\ registry'[m] = registry[m]
    BY DEF IInv, TypeOK, DupeCheckTakeover
  <2>2. registry[m] \in Sessions \ {s, old}
    BY <1>1, <2>1, HolderFacts
  <2> QED BY <1>2, <2>1, <2>2
<1> QED BY <1>1, <1>7, <1>8, <1>9, SteadyStepKeeps

\* Who enters has a body, and closes the former holder of the name.
LEMMA EnterWorldSteady ==
    ASSUME IInv, BodyInv, NEW s \in Sessions, EnterWorld(s)
    PROVE BodyInv'
<1> DEFINE n == sess[s].name
           old == registry[n]
<1>1. /\ sess[s] \in SessionState /\ sess[s].pc = "entering" /\ n \in Names
      /\ sess[s].body # NoBody /\ TypeOK'
  BY EnterWorldKeeps DEF IInv, TypeOK, Named, EnterWorld, BodyInv, Embodied
<1>2. sess'[s] = [sess[s] EXCEPT !.pc = "entered"]
  BY DEF EnterWorld
<1>3. \A t \in Sessions \ {s} :
        \/ t # old /\ sess'[t] = sess[t]
        \/ t = old /\ sess'[t] = [sess[t] EXCEPT !.sendClosed = TRUE]
  BY DEF EnterWorld
<1>4. SteadyFor(s) /\ sess'[s].body # NoBody /\ sess'[s].pc = "entered"
  BY <1>1, <1>2 DEF SteadyFor, SessionState, Lingers
<1>5. \A t \in Sessions \ {s} : SteadyFor(t) /\ (t = old => sess'[t].sendClosed)
  <2> SUFFICES ASSUME NEW t \in Sessions \ {s}
               PROVE SteadyFor(t) /\ (t = old => sess'[t].sendClosed)
    OBVIOUS
  <2>1. CASE t # old
    BY <1>3, <2>1, UntouchedSteady
  <2>2. CASE t = old
    <3>1. sess'[t] = [sess[t] EXCEPT !.sendClosed = TRUE]
      BY <1>3, <2>2
    <3> QED BY <1>1, <2>2, <3>1, ClosedSteady
  <2> QED BY <2>1, <2>2
<1>6. SteadyRegistry
  <2>1. registry' = [registry EXCEPT ![n] = s]
    BY DEF EnterWorld
  <2> QED BY <1>1, <1>4, <1>5, <2>1 DEF IInv, TypeOK, SteadyRegistry
<1>7. SteadyBodies
  BY DEF EnterWorld, SteadyBodies
<1>8. SteadyMenu
  <2> SUFFICES ASSUME NEW m \in Names, registry'[m] # NoSession, m # n
               PROVE /\ world'[m] = world[m] /\ registry'[m] = registry[m]
                     /\ sess'[registry[m]] = sess[registry[m]]
    <3>1. registry'[n] = s
      BY <1>1 DEF IInv, TypeOK, EnterWorld
    <3> QED BY <1>4, <3>1 DEF SteadyMenu
  <2>1. registry'[m] = registry[m]
    BY DEF IInv, TypeOK, EnterWorld
  <2>2. world'[m] = world[m]
    <3> DEFINE cleared == IF old \in Sessions \ {s} THEN Without(n, sess[old].body) ELSE world
    <3>1. cleared \in WorldType /\ cleared[m] = world[m]
      BY WithoutFacts DEF IInv, TypeOK, WorldType
    <3>2. world' = [cleared EXCEPT ![n] = sess[s].body]
      BY DEF EnterWorld
    <3> QED BY <3>1, <3>2 DEF WorldType
  <2>3. registry[m] \in Sessions \ {s, old}
    BY <1>1, <2>1, HolderFacts
  <2> QED BY <1>3, <2>1, <2>2, <2>3
<1> QED BY <1>1, <1>4, <1>5, <1>6, <1>7, <1>8, SteadyStepKeeps

\* The retired session is closed and loses its name.
LEMMA ExtractRetireSteady ==
    ASSUME IInv, BodyInv, NEW n \in Names, ExtractRetire(n)
    PROVE BodyInv'
<1>1. PICK s \in Sessions :
        /\ world[n] \in Bodies /\ registry[n] = s
        /\ bod' = [bod EXCEPT ![world[n]].pending = FALSE]
        /\ world' = [world EXCEPT ![n] = NoBody]
        /\ registry' = [registry EXCEPT ![n] = NoSession]
        /\ sess' = [sess EXCEPT ![s].sendClosed = TRUE]
  BY DEF IInv, TypeOK, ExtractRetire, Extracts
<1>2. /\ TypeOK' /\ sess[s] \in SessionState /\ sess[s].name = n
      /\ sess[s].body # NoBody /\ sess[s].pc \in {"loop", "entering", "entered", "closed"}
  BY <1>1, ExtractRetireKeeps, HolderFacts, SessionAssumption DEF IInv, BodyInv, Embodied
<1>3. /\ sess'[s] = [sess[s] EXCEPT !.sendClosed = TRUE]
      /\ \A t \in Sessions \ {s} : sess'[t] = sess[t]
  BY <1>1 DEF IInv, TypeOK
<1>4. SteadyFor(s) /\ sess'[s].sendClosed
  BY <1>2, <1>3 DEF SteadyFor, SessionState, Lingers
<1>5. SteadyRegistry /\ SteadyBodies
  BY <1>1, <1>4 DEF IInv, TypeOK, BodyState, SteadyRegistry, SteadyBodies
<1>6. SteadyMenu
  <2> SUFFICES ASSUME NEW m \in Names, registry'[m] # NoSession
               PROVE /\ world'[m] = world[m] /\ registry'[m] = registry[m]
                     /\ sess'[registry[m]] = sess[registry[m]]
    BY DEF SteadyMenu
  <2>1. m # n /\ registry'[m] = registry[m] /\ world'[m] = world[m]
    BY <1>1 DEF IInv, TypeOK
  <2>2. registry[m] \in Sessions \ {s}
    BY <1>2, <2>1, HolderFacts
  <2> QED BY <1>3, <2>1, <2>2
<1> QED BY <1>2, <1>3, <1>4, <1>5, <1>6, UntouchedSteady, SteadyStepKeeps

\* The body leaves the world as the menu flag goes up.
LEMMA ExtractToMenuSteady ==
    ASSUME IInv, BodyInv, NEW n \in Names, ExtractToMenu(n)
    PROVE BodyInv'
<1>1. PICK s \in Sessions :
        /\ world[n] \in Bodies /\ registry[n] = s
        /\ bod' = [bod EXCEPT ![world[n]].pending = FALSE]
        /\ world' = [world EXCEPT ![n] = NoBody]
        /\ registry' = registry
        /\ sess' = [sess EXCEPT ![s].menu = TRUE]
  BY DEF IInv, TypeOK, ExtractToMenu, Extracts
<1>2. /\ TypeOK' /\ sess[s] \in SessionState /\ sess[s].name = n
      /\ sess[s].body # NoBody /\ sess[s].pc \in {"loop", "entering", "entered", "closed"}
  BY <1>1, ExtractToMenuKeeps, HolderFacts, SessionAssumption DEF IInv, BodyInv, Embodied
<1>3. /\ sess'[s] = [sess[s] EXCEPT !.menu = TRUE]
      /\ \A t \in Sessions \ {s} : sess'[t] = sess[t]
  BY <1>1 DEF IInv, TypeOK
<1>4. SteadyFor(s)
  BY <1>2, <1>3 DEF SteadyFor, SessionState, Lingers
<1>5. SteadyRegistry /\ SteadyBodies
  BY <1>1 DEF IInv, TypeOK, BodyState, SteadyRegistry, SteadyBodies
<1>6. SteadyMenu
  <2> SUFFICES ASSUME NEW m \in Names, registry'[m] # NoSession, m # n
               PROVE /\ world'[m] = world[m] /\ registry'[m] = registry[m]
                     /\ sess'[registry[m]] = sess[registry[m]]
    BY <1>1 DEF IInv, TypeOK, SteadyMenu
  <2>1. registry'[m] = registry[m] /\ world'[m] = world[m]
    BY <1>1 DEF IInv, TypeOK
  <2>2. registry[m] \in Sessions \ {s}
    BY <1>2, <2>1, HolderFacts
  <2> QED BY <1>3, <2>1, <2>2
<1> QED BY <1>2, <1>3, <1>4, <1>5, <1>6, UntouchedSteady, SteadyStepKeeps

\* A teardown takes name and body away together, and closes.
LEMMA TeardownUnregisterSteady ==
    ASSUME IInv, BodyInv, NEW s \in Sessions, TeardownUnregister(s)
    PROVE BodyInv'
<1> DEFINE n == sess[s].name
<1>1. /\ sess[s] \in SessionState /\ TypeOK'
      /\ sess'[s] = [sess[s] EXCEPT !.torn = TRUE, !.sendClosed = TRUE]
      /\ \A t \in Sessions \ {s} : sess'[t] = sess[t]
  BY TeardownUnregisterKeeps DEF IInv, TypeOK, TeardownUnregister
<1>2. /\ sess'[s].pc = sess[s].pc /\ sess'[s].name = sess[s].name
      /\ sess'[s].body = sess[s].body /\ sess'[s].menu = sess[s].menu
      /\ sess'[s].torn /\ sess'[s].sendClosed
  BY <1>1 DEF SessionState
<1>3. SteadyFor(s)
  <2>1. sess[s].pc \in Pcs
    BY <1>1 DEF SessionState
  <2>2. CASE sess[s].body = NoBody
    BY <1>2, <2>1, <2>2, SessionAssumption DEF Pcs, SteadyFor, BodyInv, Embodied
  <2>3. CASE sess[s].body # NoBody
    BY <1>2, <2>1, <2>3 DEF Pcs, SteadyFor, BodyInv, Embodied, Lingers
  <2> QED BY <2>2, <2>3
<1>4. \/ UNCHANGED <<registry, world>>
      \/ /\ registry[n] = s /\ registry' = [registry EXCEPT ![n] = NoSession]
         /\ world' = Without(n, sess[s].body)
  BY DEF TeardownUnregister, HoldsName
<1>5. SteadyRegistry
  BY <1>2, <1>4 DEF IInv, TypeOK, SteadyRegistry
<1>6. SteadyBodies
  BY DEF TeardownUnregister, SteadyBodies
<1>7. SteadyMenu
  <2> SUFFICES ASSUME NEW m \in Names, registry'[m] # NoSession
               PROVE /\ world'[m] = world[m] /\ registry'[m] = registry[m]
                     /\ sess'[registry[m]].menu = sess[registry[m]].menu
                     /\ sess'[registry[m]].pc = sess[registry[m]].pc
    BY DEF SteadyMenu
  <2>1. registry'[m] = registry[m]
    BY <1>4 DEF IInv, TypeOK
  <2>2. world'[m] = world[m]
    <3>1. CASE UNCHANGED <<registry, world>>
      BY <3>1
    <3>2. CASE ~UNCHANGED <<registry, world>>
      <4>1. m # n /\ world' = Without(n, sess[s].body)
        BY <1>4, <3>2 DEF IInv, TypeOK
      <4> QED BY <4>1, WithoutFacts DEF IInv
    <3> QED BY <3>1, <3>2
  <2>3. registry[m] \in Sessions
    BY <2>1, HolderFacts
  <2> QED BY <1>1, <1>2, <2>1, <2>2, <2>3
<1> QED BY <1>1, <1>3, <1>5, <1>6, <1>7, UntouchedSteady, SteadyStepKeeps

\* The initial states satisfy it.
LEMMA InitSteady == Init => BodyInv
BY SessionAssumption
   DEF Init, NewSession, LoadedBody, BodyInv, Embodied, OwnBody, LingerHoldsName, Lingers,
       MenuOutside

\* Every action keeps it.
LEMMA NextSteady == IInv /\ BodyInv /\ [Next]_vars => BodyInv'
<1> SUFFICES ASSUME IInv, BodyInv, [Next]_vars PROVE BodyInv'
  OBVIOUS
<1>1. CASE UNCHANGED vars
  BY <1>1 DEF vars, BodyInv, Embodied, OwnBody, LingerHoldsName, Lingers, MenuOutside, Gone
<1>2. ASSUME NEW s \in Sessions, ReaderStep(s) PROVE BodyInv'
  BY <1>2, ConnectSteady, SnapshotNamesSteady, ClaimNameSteady, DenyNameSteady,
     ReadRecordSteady, WrongPasswordSteady, AuthenticateSteady, DupeCheckNoneSteady,
     DupeCheckMenuSteady, DupeCheckTakeoverSteady, MenuEnterSteady, EnterWorldSteady,
     FinishEntrySteady, MenuExitSteady, MarkStepsSteady, LeaveReadLoopSteady DEF ReaderStep
<1>3. ASSUME NEW s \in Sessions, Teardown(s) PROVE BodyInv'
  BY <1>3, FlagStepsSteady, TeardownUnregisterSteady DEF Teardown
<1>4. ASSUME NEW n \in Names, GameStep(n) PROVE BodyInv'
  BY <1>4, MarkStepsSteady, ExtractRetireSteady, ExtractToMenuSteady, FlagStepsSteady DEF GameStep
<1>5. ASSUME NEW n \in Names, Kick(n) PROVE BodyInv'
  BY <1>5, FlagStepsSteady
<1>6. CASE IdleRent
  BY <1>6, MarkStepsSteady
<1> QED BY <1>1, <1>2, <1>3, <1>4, <1>5, <1>6 DEF Next

\* The body of a session is its name's, and a session at the menu has none in
\* the world, in every reachable state.
THEOREM BodiesOwned == Spec => []BodyInv
<1> QED BY InitIInv, NextIInv, InitSteady, NextSteady, PTL DEF Spec
=============================================================================
