------------------------------- MODULE OlcEditing -------------------------------
(***************************************************************************)
(* On-line creation in one zone: leases, working copies, commits and zone  *)
(* saves, from telnet and from the administration pages at once. pkg/olc,   *)
(* admin/olc_write.go, olc_entity_write.go, olc_save.go, session/redit.go,  *)
(* olc_registry.go and olc_control.go.                                      *)
(*                                                                         *)
(* What a prototype says is the set of edits that went into it, every edit *)
(* a fresh number: a commit that drops a number loses somebody's work. The  *)
(* script fields, which both frontends write to the live prototype at once, *)
(* are left out, and so are authorization and the zone's bounds.            *)
(***************************************************************************)
EXTENDS Naturals, Sequences, SequencesExt

CONSTANTS
    Resources,    \* rooms and other prototypes of the zone
    KindOrder,    \* editor kinds, one file of the zone each, as a zone save writes them
    KindOf,       \* the kind of each resource
    Rooms,        \* the kind with a draft store of its own (DraftStore.drafts)
    Web, Telnet,  \* the editors, by frontend
    MaxEdits,     \* bound: edits made in all
    NoOne

Editors == Web \cup Telnet
Kinds == ToSet(KindOrder)

ASSUME OlcAssumption ==
    /\ KindOrder \in Seq(Kinds) /\ KindOf \in [Resources -> Kinds] /\ MaxEdits \in Nat
    /\ Web \cap Telnet = {} /\ NoOne \notin Editors \cup Resources \cup {"saver"}
    /\ "saver" \notin Editors

VARIABLES
    claim,        \* Registry.claims; an expired lease is no entry
    draft,        \* the working copies: telnet editor states and web drafts
    request,      \* where an editor's request is between two locks
    lock,         \* olc.ZoneSaveLock of the zone
    dirty,        \* SaveList of the zone
    world,        \* prototypes in memory
    disk,         \* the zone's files
    saving,       \* kinds the saver still has to write, in order
    image,        \* what it writes, made under the lock; << >> before that
    edits,        \* edits made so far
    covered       \* history: <<editor, resource>> whose lease has held, and no
                  \* uncovered commit has come in, since the working copy was made

olcVars == <<claim, draft, request, lock, dirty, world, disk, saving, image, edits, covered>>

Contents == SUBSET (1..MaxEdits)
None == [res |-> NoOne, work |-> {}]
Draft == [res : Resources, work : Contents]
Stage == {"idle", "opening", "renewed", "committed", "release"}
Request == [at : Stage, res : Resources \cup {NoOne}, copy : Contents]
Idle == [at |-> "idle", res |-> NoOne, copy |-> {}]

\* The draft stores: a web editor has one room draft and one of another kind; a
\* telnet session is in one editor.
Stores == {"rooms", "entities"}
StoreOf(r) == IF KindOf[r] = Rooms THEN "rooms" ELSE "entities"
Has(e, r) == draft[e][StoreOf(r)].res = r

OlcTypeOK ==
    /\ claim \in [Resources -> Editors \cup {NoOne}]
    /\ draft \in [Editors -> [Stores -> Draft \cup {None}]]
    /\ request \in [Editors -> Request]
    /\ lock \in Editors \cup {NoOne, "saver"}
    /\ dirty \subseteq Kinds /\ saving \in Seq(Kinds)
    /\ world \in [Resources -> Contents] /\ disk \in [Resources -> Contents]
    /\ image = <<>> \/ image \in [Resources -> Contents]
    /\ edits \in 0..MaxEdits /\ covered \subseteq Editors \X Resources
    /\ \A e \in Editors, s \in Stores, r \in Resources : draft[e][s].res = r => StoreOf(r) = s

OlcInit ==
    /\ claim = [r \in Resources |-> NoOne]
    /\ draft = [e \in Editors |-> [s \in Stores |-> None]]
    /\ request = [e \in Editors |-> Idle]
    /\ lock = NoOne /\ dirty = {} /\ saving = <<>> /\ image = <<>>
    /\ world = [r \in Resources |-> {}] /\ disk = world
    /\ edits = 0 /\ covered = {}

-----------------------------------------------------------------------------
\* Registry.Claim: free, expired, or already this owner's.
MutantMayClaim(e, r) == TRUE
MayClaim(e, r) == claim[r] \in {NoOne, e}

\* Registry.Release removes an entry only for its owner.
MutantRelease(e, r) == claim' = claim
MutantReleaseAny(e, r) == claim' = [claim EXCEPT ![r] = NoOne]
Release(e, r) == claim' = [claim EXCEPT ![r] = IF @ = e THEN NoOne ELSE @]

SetDraft(e, r, d) == draft' = [draft EXCEPT ![e][StoreOf(r)] = d]

\* A lease of five minutes runs out. A request renews the lease it works under
\* first and is over long before, so nobody loses one within a request.
Expire(r) ==
    /\ claim[r] # NoOne /\ request[claim[r]] = Idle
    /\ claim' = [claim EXCEPT ![r] = NoOne]
    /\ covered' = covered \ {<<claim[r], r>>}
    /\ UNCHANGED <<draft, request, lock, dirty, world, disk, saving, image, edits>>

-----------------------------------------------------------------------------
\* cmdRedit, startRedit and their four siblings: the claim is the check, and the
\* working copy is made under it.
StartTelnet(e, r) ==
    /\ e \in Telnet /\ request[e] = Idle /\ \A s \in Stores : draft[e][s] = None
    /\ MayClaim(e, r)
    /\ claim' = [claim EXCEPT ![r] = e]
    /\ SetDraft(e, r, [res |-> r, work |-> world[r]])
    /\ covered' = covered \cup {<<e, r>>}
    /\ UNCHANGED <<request, lock, dirty, world, disk, saving, image, edits>>

\* open-olc-room-draft and its siblings, first half: the prototype is copied
\* before the lease is asked for.
OpenWeb(e, r) ==
    /\ e \in Web /\ request[e] = Idle
    /\ request' = [request EXCEPT ![e] = [at |-> "opening", res |-> r, copy |-> world[r]]]
    /\ UNCHANGED <<claim, draft, lock, dirty, world, disk, saving, image, edits, covered>>

\* DraftStore.Open: a draft of the same resource is kept (recovered), one of
\* another resource refuses, and a refusal gives back a lease taken for it.
ClaimWeb(e) ==
    LET r == request[e].res
        kept == Has(e, r)
        refused == ~kept /\ draft[e][StoreOf(r)] # None
    IN
    /\ request[e].at = "opening"
    /\ request' = [request EXCEPT ![e] = Idle]
    /\ IF MayClaim(e, r) /\ ~refused
       THEN /\ claim' = [claim EXCEPT ![r] = e]
            /\ IF kept THEN UNCHANGED <<draft, covered>>
               ELSE /\ SetDraft(e, r, [res |-> r, work |-> request[e].copy])
                    /\ covered' = IF request[e].copy = world[r] THEN covered \cup {<<e, r>>}
                                  ELSE covered
       ELSE UNCHANGED <<claim, draft, covered>>
    /\ UNCHANGED <<lock, dirty, world, disk, saving, image, edits>>

\* A menu choice of a telnet editor, which never looks at its lease, or a patch
\* from the web, which renews its lease first.
Patch(e, r) ==
    /\ request[e] = Idle /\ Has(e, r) /\ edits < MaxEdits
    /\ e \in Web => claim[r] = e
    /\ edits' = edits + 1
    /\ draft' = [draft EXCEPT ![e][StoreOf(r)].work = @ \cup {edits + 1}]
    /\ UNCHANGED <<claim, request, lock, dirty, world, disk, saving, image, covered>>

\* Discard, quitting without saving and losing the connection: the working copy
\* goes, the lease only if it is still this editor's.
Cancel(e, r) ==
    /\ request[e] = Idle /\ Has(e, r)
    /\ SetDraft(e, r, None)
    /\ Release(e, r)
    /\ covered' = covered \ {<<e, r>>}
    /\ UNCHANGED <<request, lock, dirty, world, disk, saving, image, edits>>

-----------------------------------------------------------------------------
\* The start of a commit. From the web: CommitWith and Renew. finishReditLocked
\* goes on whether or not the lease is still there.
Renews(e, r) == e \in Web => claim[r] = e

BeginCommit(e, r) ==
    /\ request[e] = Idle /\ Has(e, r) /\ Renews(e, r)
    /\ request' = [request EXCEPT ![e] =
                      [at |-> "renewed", res |-> r, copy |-> draft[e][StoreOf(r)].work]]
    /\ UNCHANGED <<claim, draft, lock, dirty, world, disk, saving, image, edits, covered>>

\* The zone's save lock, for a commit or a save.
MutantTakeLock(who) == UNCHANGED lock
TakeLock(who) == lock = NoOne /\ lock' = who

\* CommitRoom under the zone lock: the working copy replaces the prototype.
CommitRoom(e) ==
    LET r == request[e].res IN
    /\ request[e].at = "renewed" /\ TakeLock(e)
    /\ world' = [world EXCEPT ![r] = request[e].copy]
    /\ covered' = IF <<e, r>> \in covered THEN covered ELSE {c \in covered : c[2] # r}
    /\ request' = [request EXCEPT ![e] = [@ EXCEPT !.at = "committed", !.copy = {}]]
    /\ UNCHANGED <<claim, draft, dirty, disk, saving, image, edits>>

\* CommitRoom fails when the prototype cannot be replaced: the web keeps draft and
\* lease, a telnet editor ends as after a save.
CommitFails(e) ==
    /\ request[e].at = "renewed" /\ lock = NoOne
    /\ request' = [request EXCEPT ![e] = IF e \in Web THEN Idle ELSE [@ EXCEPT !.at = "release"]]
    /\ UNCHANGED <<claim, draft, lock, dirty, world, disk, saving, image, edits, covered>>

\* Its MarkDirty, still under the lock.
MutantMarked(r) == dirty
MutantMarkedAlone(r) == dirty \cup {r}
Marked(r) == dirty \cup {KindOf[r]}

MarkDirty(e) ==
    /\ request[e].at = "committed"
    /\ dirty' = Marked(request[e].res)
    /\ lock' = NoOne
    /\ request' = [request EXCEPT ![e].at = "release"]
    /\ UNCHANGED <<claim, draft, world, disk, saving, image, edits, covered>>

\* The draft is consumed and the lease given back.
EndCommit(e) ==
    LET r == request[e].res IN
    /\ request[e].at = "release"
    /\ SetDraft(e, r, None)
    /\ Release(e, r)
    /\ covered' = covered \ {<<e, r>>}
    /\ request' = [request EXCEPT ![e] = Idle]
    /\ UNCHANGED <<lock, dirty, world, disk, saving, image, edits>>

-----------------------------------------------------------------------------
\* SaveOLCZone: refused while a member of the zone is claimed; then every kind
\* under one hold of the lock. The check is not repeated under the lock.
SaveZone ==
    /\ saving = <<>> /\ \A r \in Resources : claim[r] = NoOne
    /\ saving' = KindOrder
    /\ UNCHANGED <<claim, draft, request, lock, dirty, world, disk, image, edits, covered>>

\* "redit save", "medit save" and so on, and one entry of "olc save": one kind,
\* with no look at the claims.
SaveKind(k) ==
    /\ saving = <<>>
    /\ saving' = <<k>>
    /\ UNCHANGED <<claim, draft, request, lock, dirty, world, disk, image, edits, covered>>

\* saveReditZoneLocked and its siblings: the file is made from memory under the
\* lock, put in place of the old one, and the mark cleared.
Assemble ==
    /\ saving # <<>> /\ image = <<>> /\ TakeLock("saver")
    /\ image' = world
    /\ UNCHANGED <<claim, draft, request, dirty, world, disk, saving, edits, covered>>

WriteFile ==
    LET k == Head(saving) IN
    /\ image # <<>>
    /\ disk' = [r \in Resources |-> IF KindOf[r] = k THEN image[r] ELSE disk[r]]
    /\ dirty' = dirty \ {k}
    /\ saving' = Tail(saving)
    /\ IF saving' = <<>> THEN image' = <<>> /\ lock' = NoOne ELSE UNCHANGED <<image, lock>>
    /\ UNCHANGED <<claim, draft, request, world, edits, covered>>

\* A file that cannot be written keeps its mark and ends the save there.
MutantUnsaved == dirty \ ToSet(saving)
Unsaved == dirty

WriteFails ==
    /\ image # <<>>
    /\ saving' = <<>> /\ image' = <<>> /\ lock' = NoOne /\ dirty' = Unsaved
    /\ UNCHANGED <<claim, draft, request, world, disk, edits, covered>>

\* A restart: the files are what is left. Leases, drafts and marks live in memory.
Crash ==
    /\ world' = disk
    /\ claim' = [r \in Resources |-> NoOne]
    /\ draft' = [e \in Editors |-> [s \in Stores |-> None]]
    /\ request' = [e \in Editors |-> Idle]
    /\ lock' = NoOne /\ dirty' = {} /\ saving' = <<>> /\ image' = <<>> /\ covered' = {}
    /\ UNCHANGED <<disk, edits>>

-----------------------------------------------------------------------------
Edit(e, r) ==
    StartTelnet(e, r) \/ OpenWeb(e, r) \/ Patch(e, r) \/ Cancel(e, r) \/ BeginCommit(e, r)
Serve(e) == ClaimWeb(e) \/ CommitRoom(e) \/ CommitFails(e) \/ MarkDirty(e) \/ EndCommit(e)
Saver == SaveZone \/ Assemble \/ WriteFile \/ WriteFails \/ \E k \in Kinds : SaveKind(k)

OlcNext ==
    \/ \E e \in Editors : Serve(e) \/ \E r \in Resources : Edit(e, r)
    \/ Saver \/ Crash
    \/ \E r \in Resources : Expire(r)

OlcSpec == OlcInit /\ [][OlcNext]_olcVars

-----------------------------------------------------------------------------
\* A kind that is not on the save list has nothing to lose: with the zone lock
\* free, memory and file agree on it. "A commit landing mid-save is either fully
\* inside the snapshot or keeps its dirty marker" (saveReditZone).
UnsavedIsMarked ==
    lock = NoOne => \A r \in Resources : KindOf[r] \notin dirty => world[r] = disk[r]

\* Edits that are in memory leave it only in a restart, or when somebody commits
\* a working copy that its lease no longer covers. No two editors whose leases
\* held overwrite each other, from whichever frontend.
Overwrites(e, r) ==
    request[e].at = "renewed" /\ request'[e].at = "committed" /\ request[e].res = r
NoLostWork ==
    [][\A r \in Resources : world[r] \subseteq world'[r] \/ world' = disk
         \/ \E e \in Editors : Overwrites(e, r) /\ <<e, r>> \notin covered]_olcVars

\* A lease never outlives the working copy it was taken for, on any way out of an
\* editor: a stray one would refuse every other editor and every zone save.
LeaseHasDraft == \A r \in Resources : claim[r] # NoOne => Has(claim[r], r)

\* A lease that is held is given back by its owner only: while one covers a working
\* copy, the registry shows it.
CoverIsRegistered == \A c \in covered : claim[c[2]] = c[1]

\* The editors, the save list and the zone lock together do no more than the store
\* promises: files change one kind at a time to what memory holds then.
Store == INSTANCE RoomStore WITH memory <- world, file <- disk
ImplementsStore == Store!StoreSpec
=============================================================================
