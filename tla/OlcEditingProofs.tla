--------------------------- MODULE OlcEditingProofs ---------------------------
(***************************************************************************)
(* Theorems about OlcEditing for any set of editors, resources and kinds:   *)
(* nobody's work is lost while the leases hold, what is not on the save     *)
(* list is on disk, and the whole implements RoomStore.                     *)
(*                                                                         *)
(* All follow from OlcInv, which adds to the properties what ties a request *)
(* to its draft and its lock, and a lease that holds to what the working    *)
(* copy must contain.                                                       *)
(***************************************************************************)
EXTENDS OlcEditing, TLAPS

-----------------------------------------------------------------------------
(* The inductive invariant *)

\* A request names a resource; from its start to its end its editor keeps the draft.
InCommit(e) == request[e].at \in {"renewed", "committed", "release"}
Requests ==
    \A e \in Editors :
        /\ request[e].at # "idle" => request[e].res \in Resources
        /\ request[e].at = "idle" => request[e] = Idle
        /\ InCommit(e) => Has(e, request[e].res)
        /\ request[e].at = "renewed" =>
              request[e].copy = draft[e][StoreOf(request[e].res)].work

\* The zone lock is held by who is between replacing and marking, or by the saver,
\* whose image is memory as it is all that time.
Locks ==
    /\ \A e \in Editors : request[e].at = "committed" => lock = e
    /\ image # <<>> => lock = "saver" /\ image = world /\ saving # <<>>

\* Between the two halves of a commit the mark is still to come.
Marks ==
    \A r \in Resources : KindOf[r] \notin dirty =>
        \/ world[r] = disk[r]
        \/ \E e \in Editors : request[e].at = "committed" /\ request[e].res = r

\* Under a lease that has held, the working copy contains all that memory has.
Covers ==
    \A e \in Editors, r \in Resources : <<e, r>> \in covered =>
        claim[r] = e /\ Has(e, r) /\ world[r] \subseteq draft[e][StoreOf(r)].work

OlcInv == OlcTypeOK /\ Requests /\ Locks /\ Marks /\ LeaseHasDraft /\ Covers

-----------------------------------------------------------------------------
(* The pieces the actions are built from *)

\* The names of nobody and of the saver are nobody's.
LEMMA NobodyElse ==
    /\ NoOne \notin Editors /\ NoOne \notin Resources /\ NoOne # "saver"
    /\ "saver" \notin Editors
BY OlcAssumption

\* Every resource is drafted in one of the two stores.
LEMMA StoreIsStore == \A r : StoreOf(r) \in Stores
BY DEF StoreOf, Stores

\* An empty place holds the draft of no resource.
LEMMA NoneIsNoDraft == \A r \in Resources : None.res # r
BY NobodyElse DEF None

\* Replacing one working copy leaves all the others.
LEMMA SetDraftFacts ==
    ASSUME OlcTypeOK, NEW e \in Editors, NEW r \in Resources, NEW d \in Draft \cup {None},
           d.res \in {r, NoOne}, SetDraft(e, r, d)
    PROVE /\ draft' \in [Editors -> [Stores -> Draft \cup {None}]]
          /\ draft'[e][StoreOf(r)] = d
          /\ \A f \in Editors, s \in Stores :
                f # e \/ s # StoreOf(r) => draft'[f][s] = draft[f][s]
          /\ \A f \in Editors, s \in Stores, q \in Resources :
                draft'[f][s].res = q => StoreOf(q) = s
<1>1. draft' = [draft EXCEPT ![e] = [draft[e] EXCEPT ![StoreOf(r)] = d]]
      BY DEF SetDraft
<1>2. draft \in [Editors -> [Stores -> Draft \cup {None}]]
      BY DEF OlcTypeOK
<1>3. [draft[e] EXCEPT ![StoreOf(r)] = d] \in [Stores -> Draft \cup {None}]
      BY <1>2, StoreIsStore
<1>4. draft' \in [Editors -> [Stores -> Draft \cup {None}]]
      BY <1>1, <1>2, <1>3
<1>5. \A f \in Editors, s \in Stores :
         draft'[f][s] = IF f = e /\ s = StoreOf(r) THEN d ELSE draft[f][s]
      BY <1>1, <1>2, StoreIsStore
<1>6. \A f \in Editors, s \in Stores, q \in Resources :
         draft'[f][s].res = q => StoreOf(q) = s
  <2> SUFFICES ASSUME NEW f \in Editors, NEW s \in Stores, NEW q \in Resources,
                      draft'[f][s].res = q
               PROVE StoreOf(q) = s
      OBVIOUS
  <2>1. CASE f = e /\ s = StoreOf(r) BY <1>5, <2>1, NobodyElse
  <2>2. CASE ~(f = e /\ s = StoreOf(r))
    <3>1. draft'[f][s] = draft[f][s] BY <1>5, <2>2
    <3> QED BY <3>1 DEF OlcTypeOK
  <2> QED BY <2>1, <2>2
<1> QED BY <1>4, <1>5, <1>6, StoreIsStore

\* With no lease, draft, request or mark, OlcInv holds.
LEMMA OlcInvInit == OlcInit => OlcInv
<1> SUFFICES ASSUME OlcInit PROVE OlcInv
    OBVIOUS
<1>1. world = disk /\ world = [r \in Resources |-> {}]
      BY DEF OlcInit
<1>2. OlcTypeOK
      BY <1>1, NoneIsNoDraft, OlcAssumption
      DEF OlcInit, OlcTypeOK, Contents, Request, Idle, Stage, Stores
<1>3. Requests
      BY DEF OlcInit, Requests, Idle, InCommit
<1>4. Locks /\ Marks /\ LeaseHasDraft /\ Covers
      BY <1>1 DEF OlcInit, Locks, Marks, LeaseHasDraft, Covers, Idle
<1> QED BY <1>2, <1>3, <1>4 DEF OlcInv

\* A step of an editor that leaves memory, files and lock alone.
LEMMA EditStepKeeps ==
    ASSUME OlcInv, UNCHANGED <<lock, dirty, world, disk, saving, image>>,
           \A e \in Editors : request[e].at = "committed" \/ request'[e].at = "committed"
                                 => request'[e] = request[e]
    PROVE Locks' /\ Marks'
BY DEF OlcInv, Locks, Marks

\* A step of the saver leaves the editors alone.
LEMMA SaverStepKeeps ==
    ASSUME OlcInv, UNCHANGED <<claim, draft, request, world, covered>>
    PROVE Requests' /\ LeaseHasDraft' /\ Covers'
BY DEF OlcInv, Requests, InCommit, LeaseHasDraft, Covers, Has

\* The one place of request that a step of an editor changes.
LEMMA RequestFacts ==
    ASSUME OlcTypeOK, NEW e \in Editors, NEW q \in Request,
           request' = [request EXCEPT ![e] = q]
    PROVE /\ request' \in [Editors -> Request] /\ request'[e] = q
          /\ \A f \in Editors : f # e => request'[f] = request[f]
BY DEF OlcTypeOK

-----------------------------------------------------------------------------
(* The actions of the editors *)

\* A lease that runs out takes its cover with it.
LEMMA ExpireKeeps ==
    ASSUME OlcInv, NEW r \in Resources, Expire(r)
    PROVE OlcInv'
<1>1. /\ claim' = [claim EXCEPT ![r] = NoOne] /\ covered' = covered \ {<<claim[r], r>>}
      /\ UNCHANGED <<draft, request, lock, dirty, world, disk, saving, image, edits>>
      BY DEF Expire
<1>2. OlcTypeOK'
      BY <1>1 DEF OlcInv, OlcTypeOK
<1>3. Requests'
      BY <1>1 DEF OlcInv, Requests, InCommit, Has
<1>4. Locks' /\ Marks'
      BY <1>1, EditStepKeeps
<1>5. LeaseHasDraft'
      BY <1>1 DEF OlcInv, OlcTypeOK, LeaseHasDraft, Has
<1>6. Covers'
      BY <1>1 DEF OlcInv, OlcTypeOK, Covers, Has
<1> QED BY <1>2, <1>3, <1>4, <1>5, <1>6 DEF OlcInv

\* A telnet editor starts with a copy of memory, under the lease just taken.
LEMMA StartTelnetKeeps ==
    ASSUME OlcInv, NEW e \in Editors, NEW r \in Resources, StartTelnet(e, r)
    PROVE OlcInv'
<1> DEFINE d == [res |-> r, work |-> world[r]]
<1>1. /\ request[e] = Idle /\ \A s \in Stores : draft[e][s] = None
      /\ claim[r] \in {NoOne, e} /\ claim' = [claim EXCEPT ![r] = e]
      /\ SetDraft(e, r, d) /\ covered' = covered \cup {<<e, r>>}
      /\ UNCHANGED <<request, lock, dirty, world, disk, saving, image, edits>>
      BY DEF StartTelnet, MayClaim
<1>2. d \in Draft /\ d.res = r /\ d.work = world[r]
      BY DEF OlcInv, OlcTypeOK, Draft
<1>3. /\ draft' \in [Editors -> [Stores -> Draft \cup {None}]]
      /\ draft'[e][StoreOf(r)] = d
      /\ \A f \in Editors, s \in Stores : f # e \/ s # StoreOf(r) => draft'[f][s] = draft[f][s]
      /\ \A f \in Editors, s \in Stores, q \in Resources : draft'[f][s].res = q => StoreOf(q) = s
      BY <1>1, <1>2, SetDraftFacts DEF OlcInv
<1>4. \A q \in Resources : ~Has(e, q)
      BY <1>1, NoneIsNoDraft, StoreIsStore DEF Has
<1>5. OlcTypeOK'
      BY <1>1, <1>3 DEF OlcInv, OlcTypeOK
<1>6. Requests'
      BY <1>1, <1>3, StoreIsStore DEF OlcInv, Requests, InCommit, Has, Idle
<1>7. Locks' /\ Marks'
      BY <1>1, EditStepKeeps
<1>8. \A f \in Editors, q \in Resources : f # e => draft'[f][StoreOf(q)] = draft[f][StoreOf(q)]
      BY <1>3, StoreIsStore
<1>9. LeaseHasDraft'
  <2> SUFFICES ASSUME NEW q \in Resources, claim'[q] # NoOne PROVE Has(claim[q], q)'
      BY DEF LeaseHasDraft
  <2>1. CASE q = r BY <1>1, <1>2, <1>3, <2>1 DEF OlcInv, OlcTypeOK, Has
  <2>2. CASE q # r
    <3>1. claim'[q] = claim[q] BY <1>1, <2>2 DEF OlcInv, OlcTypeOK
    <3>2. claim[q] \in Editors /\ Has(claim[q], q)
          BY <3>1 DEF OlcInv, OlcTypeOK, LeaseHasDraft
    <3> QED BY <1>4, <1>8, <3>1, <3>2 DEF Has
  <2> QED BY <2>1, <2>2
<1>10. Covers'
  <2> SUFFICES ASSUME NEW f \in Editors, NEW q \in Resources, <<f, q>> \in covered'
               PROVE claim'[q] = f /\ Has(f, q)' /\ world'[q] \subseteq draft'[f][StoreOf(q)].work
      BY DEF Covers, Has, StoreOf
  <2>1. CASE f = e /\ q = r
        BY <1>1, <1>2, <1>3, <2>1 DEF OlcInv, OlcTypeOK, Has
  <2>2. CASE ~(f = e /\ q = r)
    <3>1. claim[q] = f /\ Has(f, q) /\ world[q] \subseteq draft[f][StoreOf(q)].work
          BY <1>1, <2>2 DEF OlcInv, Covers
    <3>2. f # e BY <1>4, <3>1
    <3>3. claim'[q] = f
          BY <1>1, <3>1, <3>2, NobodyElse DEF OlcInv, OlcTypeOK
    <3> QED BY <1>1, <1>8, <3>1, <3>2, <3>3 DEF Has
  <2> QED BY <2>1, <2>2
<1> QED BY <1>5, <1>6, <1>7, <1>9, <1>10 DEF OlcInv

\* The copy a web editor makes before its lease counts for nothing yet.
LEMMA OpenWebKeeps ==
    ASSUME OlcInv, NEW e \in Editors, NEW r \in Resources, OpenWeb(e, r)
    PROVE OlcInv'
<1> DEFINE q == [at |-> "opening", res |-> r, copy |-> world[r]]
<1>1. /\ request[e] = Idle /\ request' = [request EXCEPT ![e] = q]
      /\ UNCHANGED <<claim, draft, lock, dirty, world, disk, saving, image, edits, covered>>
      BY DEF OpenWeb
<1>2. q \in Request /\ q.at = "opening" /\ q.res = r
      BY DEF OlcInv, OlcTypeOK, Request, Stage
<1>3. /\ request' \in [Editors -> Request] /\ request'[e] = q
      /\ \A f \in Editors : f # e => request'[f] = request[f]
      BY <1>1, <1>2, RequestFacts DEF OlcInv
<1>4. OlcTypeOK'
      BY <1>1, <1>3 DEF OlcInv, OlcTypeOK
<1>5. Requests'
      BY <1>1, <1>2, <1>3 DEF OlcInv, Requests, InCommit, Has
<1>6. Locks' /\ Marks'
      BY <1>1, <1>2, <1>3, EditStepKeeps DEF Idle
<1>7. LeaseHasDraft' /\ Covers'
      BY <1>1 DEF OlcInv, LeaseHasDraft, Covers, Has
<1> QED BY <1>4, <1>5, <1>6, <1>7 DEF OlcInv

\* The lease covers a web draft only if memory is still what was copied.
LEMMA ClaimWebKeeps ==
    ASSUME OlcInv, NEW e \in Editors, ClaimWeb(e)
    PROVE OlcInv'
<1> DEFINE r == request[e].res
           d == [res |-> r, work |-> request[e].copy]
           kept == Has(e, r)
           refused == ~kept /\ draft[e][StoreOf(r)] # None
<1>1. /\ request[e].at = "opening" /\ request' = [request EXCEPT ![e] = Idle]
      /\ UNCHANGED <<lock, dirty, world, disk, saving, image, edits>>
      BY DEF ClaimWeb
<1>2. r \in Resources
      BY <1>1 DEF OlcInv, Requests
<1>3. /\ request' \in [Editors -> Request] /\ request'[e] = Idle
      /\ \A f \in Editors : f # e => request'[f] = request[f]
  <2>1. Idle \in Request BY DEF Idle, Request, Stage, Contents
  <2> QED BY <1>1, <2>1, RequestFacts DEF OlcInv
<1>4. Locks' /\ Marks'
      BY <1>1, <1>3, EditStepKeeps DEF Idle
<1>5. CASE ~MayClaim(e, r) \/ refused
  <2>1. UNCHANGED <<claim, draft, covered>>
        BY <1>5 DEF ClaimWeb
  <2>2. OlcTypeOK' BY <1>1, <1>3, <2>1 DEF OlcInv, OlcTypeOK
  <2>3. Requests' BY <1>3, <2>1 DEF OlcInv, Requests, InCommit, Has, Idle
  <2>4. LeaseHasDraft' /\ Covers'
        BY <1>1, <2>1 DEF OlcInv, LeaseHasDraft, Covers, Has
  <2> QED BY <1>4, <2>2, <2>3, <2>4 DEF OlcInv
<1>6. CASE MayClaim(e, r) /\ ~refused /\ kept
  <2>1. claim' = [claim EXCEPT ![r] = e] /\ UNCHANGED <<draft, covered>>
        BY <1>6 DEF ClaimWeb
  <2>2. OlcTypeOK' BY <1>1, <1>2, <1>3, <2>1 DEF OlcInv, OlcTypeOK
  <2>3. Requests' BY <1>3, <2>1 DEF OlcInv, Requests, InCommit, Has, Idle
  <2>4. LeaseHasDraft'
        BY <1>2, <1>6, <2>1 DEF OlcInv, OlcTypeOK, LeaseHasDraft, Has
  <2>5. Covers'
        BY <1>1, <1>2, <1>6, <2>1, NobodyElse DEF OlcInv, OlcTypeOK, MayClaim, Covers, Has
  <2> QED BY <1>4, <2>2, <2>3, <2>4, <2>5 DEF OlcInv
<1>7. CASE MayClaim(e, r) /\ ~refused /\ ~kept
  <2>1. /\ claim' = [claim EXCEPT ![r] = e] /\ SetDraft(e, r, d)
        /\ covered' = IF request[e].copy = world[r] THEN covered \cup {<<e, r>>} ELSE covered
        /\ draft[e][StoreOf(r)] = None
        BY <1>7 DEF ClaimWeb
  <2>2. d \in Draft /\ d.res = r /\ d.work = request[e].copy
        BY <1>2 DEF OlcInv, OlcTypeOK, Draft, Request
  <2>3. /\ draft' \in [Editors -> [Stores -> Draft \cup {None}]]
        /\ draft'[e][StoreOf(r)] = d
        /\ \A f \in Editors, s \in Stores : f # e \/ s # StoreOf(r) => draft'[f][s] = draft[f][s]
        /\ \A f \in Editors, s \in Stores, q \in Resources : draft'[f][s].res = q => StoreOf(q) = s
        BY <1>2, <2>1, <2>2, SetDraftFacts DEF OlcInv
  <2>4. \A q \in Resources : StoreOf(q) = StoreOf(r) => ~Has(e, q)
        BY <2>1, NoneIsNoDraft DEF Has
  <2>5. OlcTypeOK' BY <1>1, <1>2, <1>3, <2>1, <2>3 DEF OlcInv, OlcTypeOK
  <2>6. Requests' BY <1>3, <2>3, StoreIsStore DEF OlcInv, Requests, InCommit, Has, Idle
  <2>7. LeaseHasDraft'
        BY <1>2, <2>1, <2>2, <2>3, <2>4, StoreIsStore DEF OlcInv, OlcTypeOK, LeaseHasDraft, Has
  <2>8. Covers'
    <3> SUFFICES ASSUME NEW f \in Editors, NEW q \in Resources, <<f, q>> \in covered'
                 PROVE claim'[q] = f /\ Has(f, q)' /\ world'[q] \subseteq draft'[f][StoreOf(q)].work
        BY DEF Covers, Has, StoreOf
    <3>1. CASE f = e /\ q = r
      <4>1. <<e, r>> \notin covered BY <1>2, <2>4 DEF OlcInv, Covers
      <4> QED BY <1>1, <1>2, <2>1, <2>2, <2>3, <3>1, <4>1 DEF OlcInv, OlcTypeOK, Has
    <3>2. CASE ~(f = e /\ q = r)
      <4>1. <<f, q>> \in covered BY <2>1, <3>2
      <4>2. claim[q] = f /\ Has(f, q) /\ world[q] \subseteq draft[f][StoreOf(q)].work
            BY <4>1 DEF OlcInv, Covers
      <4>3. draft'[f][StoreOf(q)] = draft[f][StoreOf(q)]
            BY <2>3, <2>4, <4>2, StoreIsStore
      <4>4. claim'[q] = f
            BY <1>2, <1>7, <2>1, <4>2, NobodyElse DEF OlcInv, OlcTypeOK, MayClaim
      <4> QED BY <1>1, <4>2, <4>3, <4>4 DEF Has
    <3> QED BY <3>1, <3>2
  <2> QED BY <1>4, <2>5, <2>6, <2>7, <2>8 DEF OlcInv
<1> QED BY <1>5, <1>6, <1>7
\* An edit only adds to a working copy.
LEMMA PatchKeeps ==
    ASSUME OlcInv, NEW e \in Editors, NEW r \in Resources, Patch(e, r)
    PROVE OlcInv'
<1> DEFINE d == [draft[e][StoreOf(r)] EXCEPT !.work = @ \cup {edits + 1}]
<1>1. /\ request[e] = Idle /\ Has(e, r) /\ edits < MaxEdits /\ edits' = edits + 1
      /\ draft' = [draft EXCEPT ![e][StoreOf(r)].work = @ \cup {edits + 1}]
      /\ UNCHANGED <<claim, request, lock, dirty, world, disk, saving, image, covered>>
      BY DEF Patch
<1>2. draft[e][StoreOf(r)] \in Draft /\ edits \in 0..MaxEdits
      BY <1>1, NoneIsNoDraft, StoreIsStore DEF OlcInv, OlcTypeOK, Has
<1>3. edits' \in 0..MaxEdits /\ edits + 1 \in 1..MaxEdits
      BY <1>1, <1>2, OlcAssumption
<1>4. /\ d \in Draft /\ d.res = r /\ d.work = draft[e][StoreOf(r)].work \cup {edits + 1}
      /\ SetDraft(e, r, d)
      BY <1>1, <1>2, <1>3 DEF Draft, Contents, Has, SetDraft
<1>5. /\ draft' \in [Editors -> [Stores -> Draft \cup {None}]]
      /\ draft'[e][StoreOf(r)] = d
      /\ \A f \in Editors, s \in Stores : f # e \/ s # StoreOf(r) => draft'[f][s] = draft[f][s]
      /\ \A f \in Editors, s \in Stores, q \in Resources : draft'[f][s].res = q => StoreOf(q) = s
      BY <1>4, SetDraftFacts DEF OlcInv
<1>6. \A f \in Editors, s \in Stores : /\ draft'[f][s].res = draft[f][s].res
                                      /\ draft[f][s].work \subseteq draft'[f][s].work
      BY <1>1, <1>4, <1>5 DEF Has
<1>7. OlcTypeOK'
      BY <1>1, <1>3, <1>5 DEF OlcInv, OlcTypeOK
<1>8. Requests'
      BY <1>1, <1>5, <1>6, StoreIsStore DEF OlcInv, Requests, InCommit, Has, Idle
<1>9. Locks' /\ Marks'
      BY <1>1, EditStepKeeps
<1>10. LeaseHasDraft'
      BY <1>1, <1>6, StoreIsStore DEF OlcInv, OlcTypeOK, LeaseHasDraft, Has
<1>11. Covers'
      BY <1>1, <1>6, StoreIsStore DEF OlcInv, Covers, Has
<1> QED BY <1>7, <1>8, <1>9, <1>10, <1>11 DEF OlcInv

\* Cancel and EndCommit: the draft goes, and with it the lease if it is its own.
LEMMA DraftEnds ==
    ASSUME OlcInv, NEW e \in Editors, NEW r \in Resources, Has(e, r),
           SetDraft(e, r, None), Release(e, r), covered' = covered \ {<<e, r>>},
           UNCHANGED <<lock, dirty, world, disk, saving, image, edits>>,
           request' \in [Editors -> Request], request'[e] = Idle,
           \A f \in Editors : f # e => request'[f] = request[f]
    PROVE OlcTypeOK' /\ Requests' /\ LeaseHasDraft' /\ Covers'
<1>1. claim' = [claim EXCEPT ![r] = IF @ = e THEN NoOne ELSE @]
      BY DEF Release
<1>2. /\ draft' \in [Editors -> [Stores -> Draft \cup {None}]]
      /\ draft'[e][StoreOf(r)] = None
      /\ \A f \in Editors, s \in Stores : f # e \/ s # StoreOf(r) => draft'[f][s] = draft[f][s]
      /\ \A f \in Editors, s \in Stores, q \in Resources : draft'[f][s].res = q => StoreOf(q) = s
      BY SetDraftFacts DEF OlcInv, None
<1>3. \A q \in Resources : Has(e, q) /\ q # r => StoreOf(q) # StoreOf(r)
      BY DEF Has
<1>4. \A f \in Editors, q \in Resources :
         Has(f, q) /\ ~(f = e /\ q = r) => draft'[f][StoreOf(q)] = draft[f][StoreOf(q)]
      BY <1>2, <1>3, StoreIsStore
<1>5. OlcTypeOK'
      BY <1>1, <1>2 DEF OlcInv, OlcTypeOK
<1>6. Requests'
      BY <1>4 DEF OlcInv, Requests, InCommit, Has, Idle
<1>7. LeaseHasDraft'
  <2> SUFFICES ASSUME NEW q \in Resources, claim'[q] # NoOne PROVE Has(claim[q], q)'
      BY DEF LeaseHasDraft
  <2>1. claim'[q] = claim[q] /\ ~(claim[q] = e /\ q = r) /\ claim[q] \in Editors
        BY <1>1 DEF OlcInv, OlcTypeOK
  <2> QED BY <1>4, <2>1 DEF OlcInv, LeaseHasDraft, Has
<1>8. Covers'
  <2> SUFFICES ASSUME NEW f \in Editors, NEW q \in Resources, <<f, q>> \in covered'
               PROVE claim'[q] = f /\ Has(f, q)' /\ world'[q] \subseteq draft'[f][StoreOf(q)].work
      BY DEF Covers, Has, StoreOf
  <2>1. <<f, q>> \in covered /\ ~(f = e /\ q = r)
        OBVIOUS
  <2>2. claim[q] = f /\ Has(f, q) /\ world[q] \subseteq draft[f][StoreOf(q)].work
        BY <2>1 DEF OlcInv, Covers
  <2>3. claim'[q] = f
        BY <1>1, <2>1, <2>2 DEF OlcInv, OlcTypeOK
  <2> QED BY <1>4, <2>1, <2>2, <2>3 DEF Has
<1> QED BY <1>5, <1>6, <1>7, <1>8

\* Discarding ends the draft and its own lease.
LEMMA CancelKeeps ==
    ASSUME OlcInv, NEW e \in Editors, NEW r \in Resources, Cancel(e, r)
    PROVE OlcInv'
<1>1. /\ request[e] = Idle /\ Has(e, r) /\ SetDraft(e, r, None) /\ Release(e, r)
      /\ covered' = covered \ {<<e, r>>}
      /\ UNCHANGED <<request, lock, dirty, world, disk, saving, image, edits>>
      BY DEF Cancel
<1>2. request' \in [Editors -> Request] /\ request'[e] = Idle
      BY <1>1 DEF OlcInv, OlcTypeOK
<1>3. OlcTypeOK' /\ Requests' /\ LeaseHasDraft' /\ Covers'
      BY <1>1, <1>2, DraftEnds
<1>4. Locks' /\ Marks'
      BY <1>1, EditStepKeeps
<1> QED BY <1>3, <1>4 DEF OlcInv

\* So does the end of a commit.
LEMMA EndCommitKeeps ==
    ASSUME OlcInv, NEW e \in Editors, EndCommit(e)
    PROVE OlcInv'
<1> DEFINE r == request[e].res
<1>1. /\ request[e].at = "release" /\ SetDraft(e, r, None) /\ Release(e, r)
      /\ covered' = covered \ {<<e, r>>} /\ request' = [request EXCEPT ![e] = Idle]
      /\ UNCHANGED <<lock, dirty, world, disk, saving, image, edits>>
      BY DEF EndCommit
<1>2. r \in Resources /\ Has(e, r)
      BY <1>1 DEF OlcInv, Requests, InCommit
<1>3. /\ request' \in [Editors -> Request] /\ request'[e] = Idle
      /\ \A f \in Editors : f # e => request'[f] = request[f]
  <2>1. Idle \in Request BY DEF Idle, Request, Stage, Contents
  <2> QED BY <1>1, <2>1, RequestFacts DEF OlcInv
<1> HIDE DEF r
<1>4. OlcTypeOK' /\ Requests' /\ LeaseHasDraft' /\ Covers'
      BY <1>1, <1>2, <1>3, DraftEnds
<1>5. Locks' /\ Marks'
      BY <1>1, <1>3, EditStepKeeps DEF Idle
<1> QED BY <1>4, <1>5 DEF OlcInv

\* A commit starts with the draft as it is.
LEMMA BeginCommitKeeps ==
    ASSUME OlcInv, NEW e \in Editors, NEW r \in Resources, BeginCommit(e, r)
    PROVE OlcInv'
<1> DEFINE q == [at |-> "renewed", res |-> r, copy |-> draft[e][StoreOf(r)].work]
<1>1. /\ request[e] = Idle /\ Has(e, r) /\ request' = [request EXCEPT ![e] = q]
      /\ UNCHANGED <<claim, draft, lock, dirty, world, disk, saving, image, edits, covered>>
      BY DEF BeginCommit
<1>2. draft[e][StoreOf(r)] \in Draft
      BY <1>1, NoneIsNoDraft, StoreIsStore DEF OlcInv, OlcTypeOK, Has
<1>3. q \in Request /\ q.at = "renewed" /\ q.res = r /\ q.copy = draft[e][StoreOf(r)].work
      BY <1>2 DEF Draft, Request, Stage
<1>4. /\ request' \in [Editors -> Request] /\ request'[e] = q
      /\ \A f \in Editors : f # e => request'[f] = request[f]
      BY <1>1, <1>3, RequestFacts DEF OlcInv
<1> HIDE DEF q
<1>5. OlcTypeOK'
      BY <1>1, <1>4 DEF OlcInv, OlcTypeOK
<1>6. Requests'
  <2> SUFFICES ASSUME NEW f \in Editors
               PROVE /\ request'[f].at # "idle" => request'[f].res \in Resources
                     /\ request'[f].at = "idle" => request'[f] = Idle
                     /\ InCommit(f)' => Has(f, request[f].res)'
                     /\ request'[f].at = "renewed" =>
                           request'[f].copy = draft'[f][StoreOf(request'[f].res)].work
      BY DEF Requests, StoreOf
  <2>1. CASE f = e BY <1>1, <1>3, <1>4, <2>1 DEF Has, StoreOf
  <2>2. CASE f # e BY <1>1, <1>4, <2>2 DEF OlcInv, Requests, InCommit, Has
  <2> QED BY <2>1, <2>2
<1>7. Locks' /\ Marks'
      BY <1>1, <1>3, <1>4, EditStepKeeps DEF Idle
<1>8. LeaseHasDraft' /\ Covers'
      BY <1>1 DEF OlcInv, LeaseHasDraft, Covers, Has
<1> QED BY <1>5, <1>6, <1>7, <1>8 DEF OlcInv

\* A commit under a lease that held brings in at least what memory has; any other
\* one takes the cover from everybody who has the resource open.
LEMMA CommitRoomKeeps ==
    ASSUME OlcInv, NEW e \in Editors, CommitRoom(e)
    PROVE OlcInv'
<1> DEFINE r == request[e].res
           q == [request[e] EXCEPT !.at = "committed", !.copy = {}]
<1>1. /\ request[e].at = "renewed" /\ lock = NoOne /\ lock' = e
      /\ world' = [world EXCEPT ![r] = request[e].copy]
      /\ covered' = IF <<e, r>> \in covered THEN covered ELSE {c \in covered : c[2] # r}
      /\ request' = [request EXCEPT ![e] = q]
      /\ UNCHANGED <<claim, draft, dirty, disk, saving, image, edits>>
      BY DEF CommitRoom, TakeLock
<1>2. /\ r \in Resources /\ Has(e, r) /\ request[e].copy \in Contents
      /\ request[e].copy = draft[e][StoreOf(r)].work
      BY <1>1 DEF OlcInv, OlcTypeOK, Requests, InCommit, Request
<1>3. q \in Request /\ q.at = "committed" /\ q.res = r
      BY DEF OlcInv, OlcTypeOK, Request, Stage, Contents
<1>4. /\ request' \in [Editors -> Request] /\ request'[e] = q
      /\ \A f \in Editors : f # e => request'[f] = request[f]
      BY <1>1, <1>3, RequestFacts DEF OlcInv
<1> HIDE DEF q
<1>5. /\ world' \in [Resources -> Contents] /\ world'[r] = request[e].copy
      /\ \A p \in Resources : p # r => world'[p] = world[p]
      BY <1>1, <1>2 DEF OlcInv, OlcTypeOK
<1>6. OlcTypeOK'
      BY <1>1, <1>4, <1>5 DEF OlcInv, OlcTypeOK
<1>7. Requests'
      BY <1>1, <1>2, <1>3, <1>4 DEF OlcInv, Requests, InCommit, Has
<1>8. Locks'
      BY <1>1, <1>4, NobodyElse DEF OlcInv, Locks
<1>9. Marks'
  <2> SUFFICES ASSUME NEW p \in Resources, KindOf[p] \notin dirty'
               PROVE \/ world'[p] = disk'[p]
                     \/ \E f \in Editors : request'[f].at = "committed" /\ request'[f].res = p
      BY DEF Marks
  <2>1. CASE p = r BY <1>3, <1>4, <2>1
  <2>2. CASE p # r BY <1>1, <1>4, <1>5, <2>2, NobodyElse DEF OlcInv, Locks, Marks
  <2> QED BY <2>1, <2>2
<1>10. LeaseHasDraft'
      BY <1>1 DEF OlcInv, LeaseHasDraft, Has
<1>11. Covers'
  <2> SUFFICES ASSUME NEW f \in Editors, NEW p \in Resources, <<f, p>> \in covered'
               PROVE claim'[p] = f /\ Has(f, p)' /\ world'[p] \subseteq draft'[f][StoreOf(p)].work
      BY DEF Covers, Has, StoreOf
  <2>1. <<f, p>> \in covered
        BY <1>1
  <2>2. claim[p] = f /\ Has(f, p) /\ world[p] \subseteq draft[f][StoreOf(p)].work
        BY <2>1 DEF OlcInv, Covers
  <2>3. CASE p = r
    <3>1. <<e, r>> \in covered
          BY <1>1, <2>3
    <3>2. f = e
          BY <1>2, <2>2, <2>3, <3>1 DEF OlcInv, Covers
    <3> QED BY <1>1, <1>2, <1>5, <2>2, <2>3, <3>2 DEF Has
  <2>4. CASE p # r
        BY <1>1, <1>5, <2>2, <2>4 DEF Has
  <2> QED BY <2>3, <2>4
<1> QED BY <1>6, <1>7, <1>8, <1>9, <1>10, <1>11 DEF OlcInv

\* A commit that fails changes neither memory nor a draft.
LEMMA CommitFailsKeeps ==
    ASSUME OlcInv, NEW e \in Editors, CommitFails(e)
    PROVE OlcInv'
<1> DEFINE q == IF e \in Web THEN Idle ELSE [request[e] EXCEPT !.at = "release"]
<1>1. /\ request[e].at = "renewed" /\ request' = [request EXCEPT ![e] = q]
      /\ UNCHANGED <<claim, draft, lock, dirty, world, disk, saving, image, edits, covered>>
      BY DEF CommitFails
<1>2. q \in Request /\ (q = Idle \/ (q.at = "release" /\ q.res = request[e].res))
      BY DEF OlcInv, OlcTypeOK, Request, Stage, Idle, Contents
<1>3. /\ request' \in [Editors -> Request] /\ request'[e] = q
      /\ \A f \in Editors : f # e => request'[f] = request[f]
      BY <1>1, <1>2, RequestFacts DEF OlcInv
<1> HIDE DEF q
<1>4. OlcTypeOK'
      BY <1>1, <1>3 DEF OlcInv, OlcTypeOK
<1>5. Requests'
  <2> SUFFICES ASSUME NEW f \in Editors
               PROVE /\ request'[f].at # "idle" => request'[f].res \in Resources
                     /\ request'[f].at = "idle" => request'[f] = Idle
                     /\ InCommit(f)' => Has(f, request[f].res)'
                     /\ request'[f].at # "renewed" \/ f # e
      BY <1>1, <1>2, <1>3 DEF OlcInv, Requests, Idle
  <2>1. CASE f = e BY <1>1, <1>2, <1>3, <2>1 DEF OlcInv, Requests, InCommit, Has, Idle
  <2>2. CASE f # e BY <1>1, <1>3, <2>2 DEF OlcInv, Requests, InCommit, Has
  <2> QED BY <2>1, <2>2
<1>6. Locks' /\ Marks'
      BY <1>1, <1>2, <1>3, EditStepKeeps DEF Idle
<1>7. LeaseHasDraft' /\ Covers'
      BY <1>1 DEF OlcInv, LeaseHasDraft, Covers, Has
<1> QED BY <1>4, <1>5, <1>6, <1>7 DEF OlcInv

\* The mark follows the commit before the lock is let go.
LEMMA MarkDirtyKeeps ==
    ASSUME OlcInv, NEW e \in Editors, MarkDirty(e)
    PROVE OlcInv'
<1> DEFINE q == [request[e] EXCEPT !.at = "release"]
<1>1. /\ request[e].at = "committed" /\ dirty' = dirty \cup {KindOf[request[e].res]}
      /\ lock' = NoOne /\ request' = [request EXCEPT ![e] = q]
      /\ UNCHANGED <<claim, draft, world, disk, saving, image, edits, covered>>
      BY DEF MarkDirty, Marked
<1>2. q \in Request /\ q.at = "release" /\ q.res = request[e].res
      BY DEF OlcInv, OlcTypeOK, Request, Stage
<1>3. /\ request' \in [Editors -> Request] /\ request'[e] = q
      /\ \A f \in Editors : f # e => request'[f] = request[f]
      BY <1>1, <1>2, RequestFacts DEF OlcInv
<1> HIDE DEF q
<1>4. request[e].res \in Resources /\ lock = e
      BY <1>1 DEF OlcInv, Requests, Locks
<1>5. OlcTypeOK'
      BY <1>1, <1>3, <1>4, OlcAssumption DEF OlcInv, OlcTypeOK
<1>6. Requests'
      BY <1>1, <1>2, <1>3 DEF OlcInv, Requests, InCommit, Has, Idle
<1>7. Locks'
      BY <1>1, <1>2, <1>3, <1>4, NobodyElse DEF OlcInv, Locks
<1>8. Marks'
  <2> SUFFICES ASSUME NEW p \in Resources, KindOf[p] \notin dirty'
               PROVE \/ world'[p] = disk'[p]
                     \/ \E f \in Editors : request'[f].at = "committed" /\ request'[f].res = p
      BY DEF Marks
  <2>1. CASE world[p] = disk[p] BY <1>1, <2>1
  <2>2. CASE world[p] # disk[p]
    <3>1. PICK f \in Editors : request[f].at = "committed" /\ request[f].res = p
          BY <1>1, <2>2 DEF OlcInv, Marks
    <3>2. f # e BY <1>1, <3>1
    <3> QED BY <1>3, <3>1, <3>2
  <2> QED BY <2>1, <2>2
<1>9. LeaseHasDraft' /\ Covers'
      BY <1>1 DEF OlcInv, LeaseHasDraft, Covers, Has
<1> QED BY <1>5, <1>6, <1>7, <1>8, <1>9 DEF OlcInv
-----------------------------------------------------------------------------
(* The saver, and a restart *)

\* A save writes kinds, and every resource has one.
LEMMA KindsOfSave == KindOrder \in Seq(Kinds) /\ \A r \in Resources : KindOf[r] \in Kinds
BY OlcAssumption

\* The start of a save only says which kinds it will write.
LEMMA ChooseKeeps ==
    ASSUME OlcInv, NEW q \in Seq(Kinds), saving = <<>>, saving' = q,
           UNCHANGED <<claim, draft, request, lock, dirty, world, disk, image, edits, covered>>
    PROVE OlcInv'
<1>1. image = <<>>
      BY DEF OlcInv, Locks
<1>2. OlcTypeOK'
      BY DEF OlcInv, OlcTypeOK
<1>3. Locks' /\ Marks'
      BY <1>1 DEF OlcInv, Locks, Marks
<1> QED BY <1>2, <1>3, SaverStepKeeps DEF OlcInv

\* The image is memory as it is when the lock is taken.
LEMMA AssembleKeeps ==
    ASSUME OlcInv, Assemble
    PROVE OlcInv'
<1>1. /\ saving # <<>> /\ lock = NoOne /\ lock' = "saver" /\ image' = world
      /\ UNCHANGED <<claim, draft, request, dirty, world, disk, saving, edits, covered>>
      BY DEF Assemble, TakeLock
<1>2. OlcTypeOK'
      BY <1>1 DEF OlcInv, OlcTypeOK
<1>3. Locks' /\ Marks'
      BY <1>1, NobodyElse DEF OlcInv, Locks, Marks
<1> QED BY <1>1, <1>2, <1>3, SaverStepKeeps DEF OlcInv

\* What holds while the saver has an image: it is memory, and nobody is between
\* replacing a prototype and marking it.
LEMMA SaverAlone ==
    ASSUME OlcInv, image # <<>>
    PROVE /\ lock = "saver" /\ image = world /\ saving # <<>>
          /\ Head(saving) \in Kinds /\ Tail(saving) \in Seq(Kinds)
          /\ \A e \in Editors : request[e].at # "committed"
BY NobodyElse DEF OlcInv, OlcTypeOK, Locks

\* A kind that is written agrees with memory and may lose its mark.
LEMMA WriteFileKeeps ==
    ASSUME OlcInv, WriteFile
    PROVE OlcInv'
<1> DEFINE k == Head(saving)
<1>1. /\ image # <<>>
      /\ disk' = [r \in Resources |-> IF KindOf[r] = k THEN image[r] ELSE disk[r]]
      /\ dirty' = dirty \ {k} /\ saving' = Tail(saving)
      /\ \/ saving' = <<>> /\ image' = <<>> /\ lock' = NoOne
         \/ saving' # <<>> /\ image' = image /\ lock' = lock
      /\ UNCHANGED <<claim, draft, request, world, edits, covered>>
      BY DEF WriteFile
<1>2. /\ lock = "saver" /\ image = world /\ k \in Kinds /\ Tail(saving) \in Seq(Kinds)
      /\ \A e \in Editors : request[e].at # "committed"
      BY <1>1, SaverAlone
<1> HIDE DEF k
<1>3. disk' \in [Resources -> Contents]
      BY <1>1, <1>2 DEF OlcInv, OlcTypeOK
<1>4. OlcTypeOK'
      BY <1>1, <1>2, <1>3 DEF OlcInv, OlcTypeOK
<1>5. Locks'
      BY <1>1, <1>2 DEF OlcInv, Locks
<1>6. Marks'
      BY <1>1, <1>2 DEF OlcInv, Marks
<1> QED BY <1>1, <1>4, <1>5, <1>6, SaverStepKeeps DEF OlcInv

\* A file that cannot be written keeps its mark.
LEMMA WriteFailsKeeps ==
    ASSUME OlcInv, WriteFails
    PROVE OlcInv'
<1>1. /\ image # <<>> /\ saving' = <<>> /\ image' = <<>> /\ lock' = NoOne /\ dirty' = dirty
      /\ UNCHANGED <<claim, draft, request, world, disk, edits, covered>>
      BY DEF WriteFails, Unsaved
<1>2. \A e \in Editors : request[e].at # "committed"
      BY <1>1, SaverAlone
<1>3. OlcTypeOK'
      BY <1>1 DEF OlcInv, OlcTypeOK
<1>4. Locks' /\ Marks'
      BY <1>1, <1>2 DEF OlcInv, Locks, Marks
<1> QED BY <1>1, <1>3, <1>4, SaverStepKeeps DEF OlcInv

\* After a restart memory is what the files say and nobody holds anything.
LEMMA CrashKeeps ==
    ASSUME OlcInv, Crash
    PROVE OlcInv'
<1>1. /\ world' = disk /\ disk' = disk /\ edits' = edits
      /\ claim' = [r \in Resources |-> NoOne]
      /\ draft' = [e \in Editors |-> [s \in Stores |-> None]]
      /\ request' = [e \in Editors |-> Idle]
      /\ lock' = NoOne /\ dirty' = {} /\ saving' = <<>> /\ image' = <<>> /\ covered' = {}
      BY DEF Crash
<1>2. OlcTypeOK'
      BY <1>1, NoneIsNoDraft DEF OlcInv, OlcTypeOK, Contents, Request, Idle, Stage, Stores
<1>3. Requests'
      BY <1>1 DEF Requests, Idle, InCommit
<1>4. Locks' /\ Marks' /\ LeaseHasDraft' /\ Covers'
      BY <1>1 DEF Locks, Marks, LeaseHasDraft, Covers, Idle
<1> QED BY <1>2, <1>3, <1>4 DEF OlcInv

\* Every step keeps OlcInv.
LEMMA OlcInvNext == OlcInv /\ [OlcNext]_olcVars => OlcInv'
<1> SUFFICES ASSUME OlcInv, [OlcNext]_olcVars PROVE OlcInv'
    OBVIOUS
<1>1. ASSUME NEW e \in Editors, Serve(e) PROVE OlcInv'
      BY <1>1, ClaimWebKeeps, CommitRoomKeeps, CommitFailsKeeps, MarkDirtyKeeps,
         EndCommitKeeps DEF Serve
<1>2. ASSUME NEW e \in Editors, NEW r \in Resources, Edit(e, r) PROVE OlcInv'
      BY <1>2, StartTelnetKeeps, OpenWebKeeps, PatchKeeps, CancelKeeps, BeginCommitKeeps DEF Edit
<1>3. ASSUME Saver PROVE OlcInv'
  <2>1. CASE SaveZone BY <2>1, ChooseKeeps, KindsOfSave DEF SaveZone
  <2>2. ASSUME NEW k \in Kinds, SaveKind(k) PROVE OlcInv'
    <3>1. <<k>> \in Seq(Kinds) OBVIOUS
    <3> QED BY <2>2, <3>1, ChooseKeeps DEF SaveKind
  <2> QED BY <1>3, <2>1, <2>2, AssembleKeeps, WriteFileKeeps, WriteFailsKeeps DEF Saver
<1>4. CASE UNCHANGED olcVars
      BY <1>4 DEF olcVars, OlcInv, OlcTypeOK, Requests, InCommit, Locks, Marks,
                 LeaseHasDraft, Covers, Has
<1> QED BY <1>1, <1>2, <1>3, <1>4, CrashKeeps, ExpireKeeps DEF OlcNext

\* OlcInv holds in every reachable state.
LEMMA OlcInvAlways == OlcSpec => []OlcInv
BY OlcInvInit, OlcInvNext, PTL DEF OlcSpec

-----------------------------------------------------------------------------
(* The theorems *)

\* Memory and file agree on a kind that is not on the save list, with the zone lock
\* free: "a commit landing mid-save is either fully inside the snapshot or keeps its
\* dirty marker".
THEOREM MarkedUntilSaved == OlcSpec => []UnsavedIsMarked
<1>1. OlcInv => UnsavedIsMarked
      BY NobodyElse DEF OlcInv, Locks, Marks, UnsavedIsMarked
<1> QED BY <1>1, OlcInvAlways, PTL

\* A lease never outlives the working copy it was taken for.
THEOREM LeaseEndsWithDraft == OlcSpec => []LeaseHasDraft
<1>1. OlcInv => LeaseHasDraft
      BY DEF OlcInv
<1> QED BY <1>1, OlcInvAlways, PTL

\* While a lease covers a working copy, the registry shows it.
THEOREM CoverStaysRegistered == OlcSpec => []CoverIsRegistered
<1>1. OlcInv => CoverIsRegistered
  <2> SUFFICES ASSUME OlcInv, NEW c \in covered PROVE claim[c[2]] = c[1]
      BY DEF CoverIsRegistered
  <2>1. c[1] \in Editors /\ c[2] \in Resources /\ c = <<c[1], c[2]>>
        BY DEF OlcInv, OlcTypeOK
  <2> QED BY <2>1 DEF OlcInv, Covers
<1> QED BY <1>1, OlcInvAlways, PTL

\* What a step does to memory: only a commit under no cover, or a restart, loses edits.
LEMMA OnlyUncoveredLoses ==
    ASSUME OlcInv, OlcNext, NEW r \in Resources
    PROVE \/ world[r] \subseteq world'[r] \/ world' = disk
          \/ \E e \in Editors : Overwrites(e, r) /\ <<e, r>> \notin covered
<1>1. ASSUME NEW e \in Editors, CommitRoom(e)
      PROVE world[r] \subseteq world'[r] \/ (Overwrites(e, r) /\ <<e, r>> \notin covered)
  <2>1. /\ request[e].at = "renewed" /\ request'[e].at = "committed"
        /\ world' = [world EXCEPT ![request[e].res] = request[e].copy]
        BY <1>1 DEF CommitRoom, OlcInv, OlcTypeOK
  <2>2. CASE request[e].res = r
    <3>1. <<e, r>> \in covered => world[r] \subseteq request[e].copy
          BY <2>1, <2>2 DEF OlcInv, Covers, Requests
    <3> QED BY <2>1, <2>2, <3>1 DEF Overwrites, OlcInv, OlcTypeOK
  <2>3. CASE request[e].res # r
        BY <2>1, <2>3 DEF OlcInv, OlcTypeOK
  <2> QED BY <2>2, <2>3
<1>2. CASE Crash
      BY <1>2 DEF Crash
<1>3. CASE Saver \/ \E q \in Resources : Expire(q)
      BY <1>3 DEF Saver, SaveZone, SaveKind, Assemble, WriteFile, WriteFails, Expire
<1>4. ASSUME NEW e \in Editors, NEW q \in Resources, Edit(e, q)
      PROVE world' = world
      BY <1>4 DEF Edit, StartTelnet, OpenWeb, Patch, Cancel, BeginCommit
<1>5. ASSUME NEW e \in Editors, Serve(e), ~CommitRoom(e)
      PROVE world' = world
      BY <1>5 DEF Serve, ClaimWeb, CommitFails, MarkDirty, EndCommit
<1> QED BY <1>1, <1>2, <1>3, <1>4, <1>5 DEF OlcNext

\* No two editors whose leases held overwrite each other, from whichever frontend.
THEOREM LeasesKeepWork == OlcSpec => NoLostWork
<1>1. OlcInv /\ [OlcNext]_olcVars =>
         [\A r \in Resources : world[r] \subseteq world'[r] \/ world' = disk
            \/ \E e \in Editors : Overwrites(e, r) /\ <<e, r>> \notin covered]_olcVars
      BY OnlyUncoveredLoses
<1> QED BY <1>1, OlcInvAlways, PTL DEF OlcSpec, NoLostWork

\* A step of the editors, the save list and the lock is a step of the store or none.
LEMMA StepIsStoreStep ==
    ASSUME OlcInv, OlcNext
    PROVE Store!StoreNext \/ UNCHANGED <<world, disk>>
<1>1. ASSUME NEW e \in Editors, CommitRoom(e)
      PROVE Store!StoreNext
  <2>1. request[e].res \in Resources /\ request[e].copy \in Contents
        BY <1>1 DEF CommitRoom, OlcInv, OlcTypeOK, Requests, Request
  <2>2. Store!Commit(request[e].res)
        BY <1>1, <2>1 DEF CommitRoom, Store!Commit
  <2> QED BY <2>1, <2>2 DEF Store!StoreNext
<1>2. CASE WriteFile
  <2>1. image = world /\ Head(saving) \in Kinds
        BY <1>2, SaverAlone DEF WriteFile
  <2>2. Store!Save(Head(saving))
        BY <1>2, <2>1 DEF WriteFile, Store!Save
  <2> QED BY <2>1, <2>2 DEF Store!StoreNext
<1>3. CASE Crash
      BY <1>3 DEF Crash, Store!Restart, Store!StoreNext
<1>4. CASE SaveZone \/ Assemble \/ WriteFails \/ (\E k \in Kinds : SaveKind(k))
           \/ \E q \in Resources : Expire(q)
      BY <1>4 DEF SaveZone, SaveKind, Assemble, WriteFails, Expire
<1>5. ASSUME NEW e \in Editors, NEW q \in Resources, Edit(e, q)
      PROVE UNCHANGED <<world, disk>>
      BY <1>5 DEF Edit, StartTelnet, OpenWeb, Patch, Cancel, BeginCommit
<1>6. ASSUME NEW e \in Editors, Serve(e), ~CommitRoom(e)
      PROVE UNCHANGED <<world, disk>>
      BY <1>6 DEF Serve, ClaimWeb, CommitFails, MarkDirty, EndCommit
<1> QED BY <1>1, <1>2, <1>3, <1>4, <1>5, <1>6 DEF OlcNext, Saver

\* The editors of both frontends, the save list, the zone lock and the saver together
\* implement the store: a file is always one kind of memory, whole, at one moment.
THEOREM OlcImplementsStore == OlcSpec => ImplementsStore
<1>1. OlcInit => Store!StoreInit
      BY DEF OlcInit, Store!StoreInit, Contents
<1>2. OlcInv /\ [OlcNext]_olcVars => [Store!StoreNext]_<<world, disk>>
      BY StepIsStoreStep DEF olcVars
<1> QED BY <1>1, <1>2, OlcInvAlways, PTL DEF OlcSpec, ImplementsStore, Store!StoreSpec
=============================================================================
