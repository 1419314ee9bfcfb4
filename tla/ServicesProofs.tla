------------------------------ MODULE ServicesProofs ------------------------------
(***************************************************************************)
(* Theorems about NotifyService for any destinations, credentials, number  *)
(* of saves and room in the channels: a message reaches the recipient it   *)
(* was published for, a result shown is of the credentials in force, what  *)
(* is on can deliver, and no save is blind. Then that all the parts that    *)
(* MCServices sets side by side keep their shapes.                          *)
(*                                                                         *)
(* The first follow from one invariant: the revision tells settings apart.  *)
(* Any settings somebody was shown, and any job, that bear the revision in  *)
(* force belong to the settings in force; the file is ahead by the one save *)
(* that is written and not in effect. The last joins it to the invariants   *)
(* of the three other parts.                                                *)
(***************************************************************************)
EXTENDS MCServices, OlcEditingProofs, CombatListProofs, ObjectPlacesProofs


-----------------------------------------------------------------------------
(* The inductive invariant *)

SaveRecord == [at : {"write", "written"}, next : Settings,
               of : Destinations \cup {"settings"}, base : Settings]

\* A destination whose credentials were removed is off.
Usable(s) == \A d \in s.enabled : s.sealed[d] # "none"

PagesOf(c) == \A s \in shown : s.revision <= c.revision /\ (s.revision = c.revision => s = c)

\* What a save will put in force: one revision on, with one destination's
\* credentials changed at most.
Follows(s, of) ==
    /\ s.revision = config.revision + 1 /\ Usable(s)
    /\ \A d \in Destinations : d # of => s.sealed[d] = config.sealed[d]
SaveOK == save # NoSave =>
    save \in SaveRecord /\ save.base = config /\ Follows(save.next, save.of)
FileOK == file = IF save # NoSave /\ save.at = "written" THEN save.next ELSE config

JobOK(j, d) == j.revision <= config.revision /\ (j.revision = config.revision => j.to = Key(d))
JobsOK == \A d \in Destinations : \A i \in 1..Len(jobs[d]) : JobOK(jobs[d][i], d)
SendingOK == \A d \in Destinations : delivery[d] # NoJob =>
    JobOK(delivery[d].job, d) /\ delivery[d].key = delivery[d].job.to

Running == JobsOK /\ SendingOK /\ ResultIsCurrent
NotifyInv == NotifyTypeOK /\ PagesOf(config) /\ SaveOK /\ FileOK /\ Usable(config) /\ Running

-----------------------------------------------------------------------------
(* What holds at the start, and saves *)

\* Nothing is enabled, and everything agrees.
LEMMA NotifyInitHolds == NotifyInit => NotifyInv
<1> SUFFICES ASSUME NotifyInit PROVE NotifyInv
    OBVIOUS
<1>1. config \in Settings /\ config.revision = 1 /\ config.enabled = {}
      BY NotifyAssumption DEF NotifyInit, Settings, Sealed
<1>2. NotifyTypeOK
  <2>1. jobs \in [Destinations -> Seq(Job)] /\ \A d \in Destinations : Len(jobs[d]) <= MaxJobs
        BY NotifyAssumption DEF NotifyInit
  <2> QED BY <1>1, <2>1 DEF NotifyInit, NotifyTypeOK, Recipients
<1>3. PagesOf(config) /\ SaveOK /\ FileOK /\ Usable(config)
      BY <1>1 DEF NotifyInit, PagesOf, SaveOK, FileOK, Usable, NoSave
<1>4. Running
      BY DEF NotifyInit, Running, JobsOK, SendingOK, ResultIsCurrent
<1> QED BY <1>2, <1>3, <1>4 DEF NotifyInv

\* A save that begins: the page had the revision in force, so it had the settings
\* in force.
LEMMA BeginKeeps ==
    ASSUME NotifyInv, NEW of \in Destinations \cup {"settings"}, NEW next \in Settings,
           Usable(next), \A d \in Destinations : d # of => next.sealed[d] = config.sealed[d],
           Begin(of, next)
    PROVE NotifyInv'
<1> DEFINE n == [next EXCEPT !.revision = config.revision + 1]
<1>1. PICK p \in shown : p.revision = config.revision
                         /\ save' = [at |-> "write", of |-> of, base |-> p, next |-> n]
      BY DEF Begin, UnchangedSince
<1>2. p = config
      BY <1>1 DEF NotifyInv, PagesOf
<1>3. config \in Settings /\ config.revision + 1 \in 1..MaxSaves + 1
      BY NotifyAssumption DEF NotifyInv, NotifyTypeOK, Settings, Begin
<1>4. n \in Settings /\ n.revision = config.revision + 1 /\ n.enabled = next.enabled
      /\ n.sealed = next.sealed
      BY <1>3 DEF Settings
<1> HIDE DEF n
<1>5. save' \in SaveRecord /\ save'.base = config /\ save'.next = n /\ save'.of = of
      /\ save'.at = "write" /\ save' # NoSave
      BY <1>1, <1>2, <1>3, <1>4 DEF SaveRecord, NoSave
<1>6. UNCHANGED <<environ, config, file, shown, jobs, delivery, result>> /\ save = NoSave
      BY DEF Begin
<1>7. SaveOK'
      BY <1>4, <1>5, <1>6 DEF SaveOK, Follows, Usable
<1>8. FileOK'
      BY <1>5, <1>6 DEF NotifyInv, FileOK
<1>9. NotifyTypeOK'
      BY <1>5, <1>6 DEF NotifyInv, NotifyTypeOK, SaveRecord
<1>10. Running' /\ PagesOf(config)' /\ Usable(config)'
      BY <1>6 DEF NotifyInv, Running, JobsOK, SendingOK, JobOK, Key, KeyIn, ResultIsCurrent,
                  PagesOf, Usable
<1> QED BY <1>7, <1>8, <1>9, <1>10 DEF NotifyInv

\* What is switched on is ready, so it was not removed.
LEMMA SaveKeeps == NotifyInv /\ Save => NotifyInv'
<1> SUFFICES ASSUME NotifyInv, NEW on \in SUBSET Destinations, \A d \in on : Ready(d),
                    Begin("settings", [config EXCEPT !.enabled = on])
             PROVE NotifyInv'
    BY DEF Save
<1> DEFINE n == [config EXCEPT !.enabled = on]
<1>1. n \in Settings /\ n.enabled = on /\ n.sealed = config.sealed
      BY DEF NotifyInv, NotifyTypeOK, Settings
<1>2. \A d \in on : config.sealed[d] # "none"
      BY DEF Ready, Key, KeyIn
<1> HIDE DEF n
<1>3. Usable(n)
      BY <1>1, <1>2 DEF Usable
<1>4. Begin("settings", n)
      BY DEF n
<1> QED BY <1>1, <1>3, <1>4, BeginKeeps

\* Credentials that are removed switch their destination off.
LEMMA SaveCredentialsKeeps ==
    ASSUME NotifyInv, NEW d \in Destinations, SaveCredentials(d)
    PROVE NotifyInv'
<1>0. config \in Settings /\ Usable(config)
      BY DEF NotifyInv, NotifyTypeOK
<1>1. CASE Begin(d, Removed(d))
  <2> DEFINE n == Removed(d)
  <2>1. n \in Settings /\ n.enabled = config.enabled \ {d}
        /\ \A e \in Destinations : n.sealed[e] = IF e = d THEN "none" ELSE config.sealed[e]
        BY <1>0 DEF Removed, Settings, Sealed
  <2> HIDE DEF n
  <2>2. Usable(n)
        BY <1>0, <2>1 DEF Usable, Settings
  <2>3. Begin(d, n)
        BY <1>1 DEF n
  <2> QED BY <2>1, <2>2, <2>3, BeginKeeps
<1>2. ASSUME NEW k \in Keys, Begin(d, [config EXCEPT !.sealed[d] = k]) PROVE NotifyInv'
  <2> DEFINE n == [config EXCEPT !.sealed[d] = k]
  <2>1. n \in Settings /\ n.enabled = config.enabled
        /\ \A e \in Destinations : n.sealed[e] = IF e = d THEN k ELSE config.sealed[e]
        BY <1>0 DEF Settings, Sealed
  <2>2. k # "none"
        BY NotifyAssumption
  <2> HIDE DEF n
  <2>3. Usable(n)
        BY <1>0, <2>1, <2>2 DEF Usable, Settings
  <2>4. Begin(d, n)
        BY <1>2 DEF n
  <2> QED BY <2>1, <2>3, <2>4, BeginKeeps
<1> QED BY <1>1, <1>2 DEF SaveCredentials

\* The write changes the file or ends the save.
LEMMA PersistKeeps == NotifyInv /\ Persist => NotifyInv'
<1> SUFFICES ASSUME NotifyInv, Persist PROVE NotifyInv'
    OBVIOUS
<1>1. UNCHANGED <<environ, config, shown, jobs, delivery, result>>
      /\ save \in SaveRecord /\ save.at = "write" /\ file = config /\ save # NoSave
      BY DEF Persist, NotifyInv, SaveOK, FileOK
<1>2. Running' /\ PagesOf(config)' /\ Usable(config)'
      BY <1>1 DEF NotifyInv, Running, JobsOK, SendingOK, JobOK, Key, KeyIn, ResultIsCurrent,
                  PagesOf, Usable
<1>3. CASE file' = save.next /\ save' = [save EXCEPT !.at = "written"]
  <2>1. save' \in SaveRecord /\ save'.at = "written" /\ save'.next = save.next
        /\ save'.of = save.of /\ save'.base = save.base /\ save.next \in Settings /\ save' # NoSave
        BY <1>1, <1>3 DEF SaveRecord, NoSave
  <2>2. SaveOK' /\ FileOK'
        BY <1>1, <1>3, <2>1 DEF NotifyInv, SaveOK, FileOK, Follows, Usable
  <2>3. NotifyTypeOK'
        BY <1>1, <1>3, <2>1 DEF NotifyInv, NotifyTypeOK, SaveRecord
  <2> QED BY <1>2, <2>2, <2>3 DEF NotifyInv
<1>4. CASE save' = NoSave /\ file' = file
      BY <1>1, <1>2, <1>4 DEF NotifyInv, NotifyTypeOK, SaveOK, FileOK
<1> QED BY <1>3, <1>4 DEF Persist

\* Whatever was pending is of an older revision from now on; only the results of
\* the destination whose credentials changed would be out of date.
LEMMA TakeEffectKeeps == NotifyInv /\ TakeEffect => NotifyInv'
<1> SUFFICES ASSUME NotifyInv, TakeEffect PROVE NotifyInv'
    OBVIOUS
<1>1. /\ save \in SaveRecord /\ Follows(save.next, save.of) /\ file = save.next
      /\ config' = save.next /\ save' = NoSave /\ shown' = shown \cup {save.next}
      /\ result' = Forgotten(save.of) /\ UNCHANGED <<environ, file, jobs, delivery>>
      BY DEF TakeEffect, NotifyInv, SaveOK, FileOK
<1>2. save.next \in Settings /\ config \in Settings /\ shown \subseteq Settings
      BY <1>1 DEF SaveRecord, NotifyInv, NotifyTypeOK
<1>3. /\ \A s \in Settings : s.revision \in Nat
      /\ config'.revision = config.revision + 1 /\ config' \in Settings
      BY <1>1, <1>2, NotifyAssumption DEF Settings, Follows
<1>4. \A r \in Nat : r <= config.revision => r <= config'.revision /\ r # config'.revision
      BY <1>2, <1>3
<1>5. PagesOf(config)'
  <2>1. \A s \in shown : s.revision <= config'.revision /\ s.revision # config'.revision
        BY <1>2, <1>3, <1>4 DEF NotifyInv, PagesOf
  <2>2. config'.revision <= config'.revision
        BY <1>3
  <2> QED BY <1>1, <2>1, <2>2 DEF PagesOf
<1>6. SaveOK' /\ FileOK' /\ Usable(config)'
      BY <1>1 DEF SaveOK, FileOK, Follows, Usable
<1>7. NotifyTypeOK'
      BY <1>1, <1>2 DEF NotifyInv, NotifyTypeOK, Forgotten, Recipients
<1>8. JobsOK'
  <2> SUFFICES ASSUME NEW d \in Destinations, NEW i \in 1..Len(jobs[d])
               PROVE jobs[d][i].revision <= config'.revision /\ jobs[d][i].revision # config'.revision
      BY <1>1 DEF JobsOK, JobOK
  <2>1. jobs[d] \in Seq(Job)
        BY DEF NotifyInv, NotifyTypeOK
  <2>2. jobs[d][i] \in Job
        BY <2>1
  <2>3. jobs[d][i].revision \in Nat
        BY <2>2, NotifyAssumption DEF Job
  <2>4. jobs[d][i].revision <= config.revision
        BY DEF NotifyInv, Running, JobsOK, JobOK
  <2> QED BY <1>4, <2>3, <2>4
<1>9. SendingOK'
  <2> SUFFICES ASSUME NEW d \in Destinations, delivery[d] # NoJob
               PROVE /\ delivery[d].job.revision <= config'.revision
                     /\ delivery[d].job.revision # config'.revision
                     /\ delivery[d].key = delivery[d].job.to
      BY <1>1 DEF SendingOK, JobOK
  <2>1. delivery[d].job.revision \in Nat
        BY NotifyAssumption DEF NotifyInv, NotifyTypeOK, Job
  <2> QED BY <1>4, <2>1 DEF NotifyInv, Running, SendingOK, JobOK
<1>10. ResultIsCurrent'
  <2> SUFFICES ASSUME NEW d \in Destinations, d # save.of PROVE Key(d)' = Key(d)
      BY <1>1 DEF NotifyInv, Running, ResultIsCurrent, Forgotten
  <2> QED BY <1>1 DEF Key, KeyIn, Follows
<1> QED BY <1>5, <1>6, <1>7, <1>8, <1>9, <1>10 DEF NotifyInv, Running

-----------------------------------------------------------------------------
(* Jobs *)

\* Steps that leave the settings alone only have to keep what runs.
LEMMA JobStepKeeps ==
    ASSUME NotifyInv, UNCHANGED <<environ, config, file, save, shown>>,
           NotifyTypeOK', Running'
    PROVE NotifyInv'
BY DEF NotifyInv, PagesOf, SaveOK, FileOK, Follows, Usable

\* A job is published for the recipient of this moment.
LEMMA EnqueuedKeeps ==
    ASSUME NotifyInv, NEW S \in SUBSET Destinations, NEW test \in BOOLEAN,
           jobs' = Enqueued(S, test),
           UNCHANGED <<environ, config, file, save, shown, delivery, result>>
    PROVE NotifyInv'
<1> DEFINE j(d) == [revision |-> config.revision, test |-> test, to |-> Key(d)]
<1>1. config \in Settings /\ config.revision \in Nat
      BY NotifyAssumption DEF NotifyInv, NotifyTypeOK, Settings
<1>2. \A d \in Destinations : Key(d) \in Recipients
      BY <1>1 DEF Key, KeyIn, Settings, Sealed, Recipients, NotifyInv, NotifyTypeOK
<1>3. \A d \in Destinations : j(d) \in Job /\ JobOK(j(d), d)
      BY <1>1, <1>2 DEF Job, Settings, JobOK
<1> HIDE DEF j
<1>4. \A d \in Destinations :
         jobs'[d] = IF d \in S /\ Len(jobs[d]) < MaxJobs THEN Append(jobs[d], j(d)) ELSE jobs[d]
      BY DEF Enqueued, j
<1>5. ASSUME NEW d \in Destinations
      PROVE /\ jobs'[d] \in Seq(Job) /\ Len(jobs'[d]) <= MaxJobs
            /\ \A i \in 1..Len(jobs'[d]) : JobOK(jobs'[d][i], d)
  <2>1. /\ jobs[d] \in Seq(Job) /\ Len(jobs[d]) <= MaxJobs
        /\ \A i \in 1..Len(jobs[d]) : JobOK(jobs[d][i], d)
        BY DEF NotifyInv, NotifyTypeOK, Running, JobsOK
  <2>2. CASE jobs'[d] = jobs[d]
        BY <2>1, <2>2
  <2>3. CASE Len(jobs[d]) < MaxJobs /\ jobs'[d] = Append(jobs[d], j(d))
    <3> DEFINE s == jobs[d] u == Append(s, j(d))
    <3>1. /\ u \in Seq(Job) /\ Len(u) = Len(s) + 1 /\ u[Len(s) + 1] = j(d)
          /\ \A i \in 1..Len(s) : u[i] = s[i]
          BY <1>3, <2>1
    <3>2. Len(u) <= MaxJobs
          BY <2>1, <2>3, <3>1, NotifyAssumption
    <3>3. Len(s) \in Nat
          BY <2>1
    <3>4. \A i \in 1..Len(s) : JobOK(s[i], d)
          BY <2>1
    <3> HIDE DEF s, u
    <3>5. ASSUME NEW i \in 1..Len(u) PROVE JobOK(u[i], d)
      <4>1. i \in 1..Len(s) \/ i = Len(s) + 1
            BY <3>1, <3>3
      <4>2. CASE i \in 1..Len(s)
            BY <3>1, <3>4, <4>2
      <4>3. CASE i = Len(s) + 1
            BY <1>3, <3>1, <4>3
      <4> QED BY <4>1, <4>2, <4>3
    <3> QED BY <2>3, <3>1, <3>2, <3>5 DEF s, u
  <2> QED BY <1>4, <2>2, <2>3
<1>6. jobs' \in [Destinations -> Seq(Job)]
  <2>1. jobs' = [d \in Destinations |-> jobs'[d]]
        BY DEF Enqueued
  <2> QED BY <1>5, <2>1
<1>7. NotifyTypeOK'
      BY <1>5, <1>6 DEF NotifyInv, NotifyTypeOK
<1>8. JobsOK'
      BY <1>5 DEF JobsOK, JobOK, Key, KeyIn
<1>9. SendingOK' /\ ResultIsCurrent'
      BY DEF NotifyInv, Running, SendingOK, ResultIsCurrent, JobOK, Key, KeyIn
<1> QED BY <1>7, <1>8, <1>9, JobStepKeeps DEF Running

\* A worker sends a job of the revision in force only, so to its own recipient.
LEMMA TakeJobKeeps ==
    ASSUME NotifyInv, NEW d \in Destinations, TakeJob(d)
    PROVE NotifyInv'
<1> DEFINE j == Head(jobs[d])
<1>1. /\ delivery[d] = NoJob /\ jobs[d] # <<>> /\ jobs' = [jobs EXCEPT ![d] = Tail(@)]
      /\ UNCHANGED <<environ, config, file, save, shown, result>>
      /\ \/ j.revision = config.revision
            /\ delivery' = [delivery EXCEPT ![d] = [at |-> "sending", job |-> j, key |-> Key(d)]]
         \/ UNCHANGED delivery
      BY DEF TakeJob, Fresh
<1>2. /\ jobs \in [Destinations -> Seq(Job)] /\ jobs[d] \in Seq(Job) /\ Len(jobs[d]) <= MaxJobs
      /\ \A e \in Destinations : \A i \in 1..Len(jobs[e]) : JobOK(jobs[e][i], e)
      BY DEF NotifyInv, NotifyTypeOK, Running, JobsOK
<1>3. /\ Tail(jobs[d]) \in Seq(Job) /\ j = jobs[d][1] /\ j \in Job
      /\ Len(jobs[d]) \in Nat \ {0} /\ Len(Tail(jobs[d])) = Len(jobs[d]) - 1
      /\ \A i \in 1..(Len(jobs[d]) - 1) : Tail(jobs[d])[i] = jobs[d][i + 1]
      BY <1>1, <1>2
<1>4. JobOK(j, d)
  <2>1. 1 \in 1..Len(jobs[d])
        BY <1>3
  <2> QED BY <1>2, <1>3, <2>1
<1>5. Key(d) \in Recipients
      BY DEF Key, KeyIn, Settings, Sealed, Recipients, NotifyInv, NotifyTypeOK
<1> HIDE DEF j
<1>6. JobsOK'
  <2> SUFFICES ASSUME NEW e \in Destinations, NEW i \in 1..Len(jobs'[e])
               PROVE JobOK(jobs'[e][i], e)
      BY <1>1 DEF JobsOK, JobOK, Key, KeyIn
  <2>1. CASE e # d
        BY <1>1, <1>2, <2>1
  <2>2. CASE e = d
    <3>1. jobs'[d] = Tail(jobs[d])
          BY <1>1, <1>2
    <3>2. i \in 1..(Len(jobs[d]) - 1) /\ i + 1 \in 1..Len(jobs[d])
          BY <1>3, <2>2, <3>1
    <3> QED BY <1>2, <1>3, <2>2, <3>1, <3>2
  <2> QED BY <2>1, <2>2
<1>7. SendingOK'
  <2>1. SendingOK
        BY DEF NotifyInv, Running
  <2>2. CASE UNCHANGED delivery
        BY <1>1, <2>1, <2>2 DEF SendingOK, JobOK, Key, KeyIn
  <2>3. CASE j.revision = config.revision
             /\ delivery' = [delivery EXCEPT ![d] = [at |-> "sending", job |-> j, key |-> Key(d)]]
    <3>1. j.to = Key(d)
          BY <1>4, <2>3 DEF JobOK
    <3> SUFFICES ASSUME NEW e \in Destinations, delivery'[e] # NoJob
                 PROVE JobOK(delivery'[e].job, e) /\ delivery'[e].key = delivery'[e].job.to
        BY <1>1 DEF SendingOK, JobOK, Key, KeyIn
    <3>2. CASE e = d
      <4>1. delivery'[d].job = j /\ delivery'[d].key = Key(d)
            BY <2>3 DEF NotifyInv, NotifyTypeOK
      <4> QED BY <1>4, <3>1, <3>2, <4>1
    <3>3. CASE e # d
          BY <2>1, <2>3, <3>3 DEF SendingOK
    <3> QED BY <3>2, <3>3
  <2> QED BY <1>1, <2>2, <2>3
<1>8. NotifyTypeOK'
  <2>1. jobs' \in [Destinations -> Seq(Job)] /\ \A e \in Destinations : Len(jobs'[e]) <= MaxJobs
    <3>1. jobs' \in [Destinations -> Seq(Job)]
          BY <1>1, <1>2, <1>3
    <3>2. Len(Tail(jobs[d])) <= MaxJobs
          BY <1>2, <1>3, NotifyAssumption
    <3>3. \A e \in Destinations : jobs'[e] = IF e = d THEN Tail(jobs[d]) ELSE jobs[e]
          BY <1>1, <1>2
    <3> QED BY <3>1, <3>2, <3>3 DEF NotifyInv, NotifyTypeOK
  <2>2. delivery' \in [Destinations ->
                          {NoJob} \cup [at : {"sending"}, job : Job, key : Recipients]]
    <3> DEFINE D == {NoJob} \cup [at : {"sending"}, job : Job, key : Recipients]
    <3>1. delivery \in [Destinations -> D]
          BY DEF NotifyInv, NotifyTypeOK
    <3>2. [at |-> "sending", job |-> j, key |-> Key(d)] \in D
          BY <1>3, <1>5
    <3> HIDE DEF D
    <3>3. delivery' \in [Destinations -> D]
          BY <1>1, <3>1, <3>2
    <3> QED BY <3>3 DEF D
  <2> QED BY <1>1, <2>1, <2>2 DEF NotifyInv, NotifyTypeOK
<1>9. ResultIsCurrent'
      BY <1>1 DEF NotifyInv, Running, ResultIsCurrent, Key, KeyIn
<1> QED BY <1>1, <1>6, <1>7, <1>8, <1>9, JobStepKeeps DEF Running

\* A result is shown only under the revision its job was published under.
LEMMA DeliveredKeeps ==
    ASSUME NotifyInv, NEW d \in Destinations, Delivered(d)
    PROVE NotifyInv'
<1>1. /\ delivery[d] # NoJob /\ delivery' = [delivery EXCEPT ![d] = NoJob]
      /\ UNCHANGED <<environ, config, file, save, shown, jobs>>
      /\ \/ delivery[d].job.revision = config.revision
            /\ result' = [result EXCEPT ![d] = delivery[d].key]
         \/ UNCHANGED result
      BY DEF Delivered, Describes
<1>2. /\ delivery[d] \in [at : {"sending"}, job : Job, key : Recipients]
      /\ JobOK(delivery[d].job, d) /\ delivery[d].key = delivery[d].job.to
      BY <1>1 DEF NotifyInv, NotifyTypeOK, Running, SendingOK
<1>3. delivery[d].job.revision = config.revision => delivery[d].key = Key(d)
      BY <1>2 DEF JobOK
<1>4. NotifyTypeOK'
      BY <1>1, <1>2 DEF NotifyInv, NotifyTypeOK
<1>5. JobsOK' /\ SendingOK'
      BY <1>1 DEF NotifyInv, NotifyTypeOK, Running, JobsOK, SendingOK, JobOK, Key, KeyIn
<1>6. ResultIsCurrent'
      BY <1>1, <1>3 DEF NotifyInv, NotifyTypeOK, Running, ResultIsCurrent, Key, KeyIn
<1> QED BY <1>1, <1>4, <1>5, <1>6, JobStepKeeps DEF Running

\* A restart takes the file up: the settings in force, or those one save ahead.
LEMMA RestartKeeps == NotifyInv /\ Restart => NotifyInv'
<1> SUFFICES ASSUME NotifyInv, Restart PROVE NotifyInv'
    OBVIOUS
<1>1. /\ config' = file /\ file' = file /\ save' = NoSave /\ shown' = shown \cup {file}
      /\ environ' \in [Destinations -> Environ]
      /\ jobs' = [d \in Destinations |-> <<>>] /\ delivery' = [d \in Destinations |-> NoJob]
      /\ result' = [d \in Destinations |-> NoKey]
      BY DEF Restart
<1>2. /\ file \in Settings /\ config \in Settings /\ shown \subseteq Settings
      /\ \A s \in Settings : s.revision \in Nat
      BY NotifyAssumption DEF NotifyInv, NotifyTypeOK, Settings
<1>3. Usable(file) /\ (file = config \/ file.revision = config.revision + 1)
      BY DEF NotifyInv, FileOK, SaveOK, Follows
<1>4. \A s \in shown : s.revision <= file.revision /\ (s.revision = file.revision => s = file)
  <2>1. CASE file = config
        BY <2>1 DEF NotifyInv, PagesOf
  <2>2. CASE file.revision = config.revision + 1
    <3>1. \A s \in shown : s.revision <= config.revision
          BY DEF NotifyInv, PagesOf
    <3>2. config.revision \in Nat
          BY <1>2
    <3>3. \A r \in Nat : r <= config.revision =>
             r <= config.revision + 1 /\ r # config.revision + 1
          BY <3>2
    <3> QED BY <1>2, <2>2, <3>1, <3>3
  <2> QED BY <1>3, <2>1, <2>2
<1>5. PagesOf(config)'
  <2>1. file.revision <= file.revision BY <1>2
  <2> QED BY <1>1, <1>4, <2>1 DEF PagesOf
<1>6. NotifyTypeOK'
  <2>1. jobs' \in [Destinations -> Seq(Job)] /\ \A d \in Destinations : Len(jobs'[d]) <= MaxJobs
        BY <1>1, NotifyAssumption
  <2> QED BY <1>1, <1>2, <2>1 DEF NotifyTypeOK, Recipients
<1>7. SaveOK' /\ FileOK' /\ Usable(config)'
      BY <1>1, <1>3 DEF SaveOK, FileOK, Usable
<1>8. Running'
      BY <1>1 DEF Running, JobsOK, SendingOK, ResultIsCurrent
<1> QED BY <1>5, <1>6, <1>7, <1>8 DEF NotifyInv

\* Every step keeps the invariant.
LEMMA NotifyInvNext == NotifyInv /\ [NotifyNext]_notifyVars => NotifyInv'
<1> SUFFICES ASSUME NotifyInv, [NotifyNext]_notifyVars PROVE NotifyInv'
    OBVIOUS
<1>1. CASE UNCHANGED notifyVars
      BY <1>1 DEF notifyVars, NotifyInv, NotifyTypeOK, PagesOf, SaveOK, FileOK, Follows, Usable,
                  Running, JobsOK, SendingOK, JobOK, Key, KeyIn, ResultIsCurrent
<1>2. CASE Publish
  <2>1. ASSUME NEW S \in SUBSET (Alerts \cap config.enabled), jobs' = Enqueued(S, FALSE)
        PROVE NotifyInv'
        BY <1>2, <2>1, EnqueuedKeeps DEF Publish, Destinations
  <2>2. CASE jobs' = Enqueued({Gossip}, FALSE)
        BY <1>2, <2>2, EnqueuedKeeps DEF Publish, Destinations
  <2>3. ASSUME NEW d \in Destinations, jobs' = Enqueued({d}, TRUE) PROVE NotifyInv'
        BY <1>2, <2>3, EnqueuedKeeps DEF Publish
  <2> QED BY <1>2, <2>1, <2>2, <2>3 DEF Publish
<1> QED BY <1>1, <1>2, SaveKeeps, SaveCredentialsKeeps, PersistKeeps, TakeEffectKeeps,
           TakeJobKeeps, DeliveredKeeps, RestartKeeps DEF NotifyNext

-----------------------------------------------------------------------------
(* The theorems *)

\* "Replacing credentials cannot route an older job to a new recipient": every
\* message goes where its publisher would have sent it.
THEOREM OlderJobsKeepRecipient == NotifySpec => []RecipientHolds
<1>1. NotifyInv => RecipientHolds
      BY DEF NotifyInv, Running, SendingOK, RecipientHolds
<1> QED BY <1>1, NotifyInitHolds, NotifyInvNext, PTL DEF NotifySpec

\* The result a destination shows was had with the credentials it has now.
THEOREM ResultsDescribe == NotifySpec => []ResultIsCurrent
<1>1. NotifyInv => ResultIsCurrent
      BY DEF NotifyInv, Running
<1> QED BY <1>1, NotifyInitHolds, NotifyInvNext, PTL DEF NotifySpec

\* A destination that is on can deliver, unless only the environment could.
THEOREM EnabledDelivers == NotifySpec => []EnabledIsReady
<1>1. NotifyInv => EnabledIsReady
  <2> SUFFICES ASSUME NotifyInv, NEW d \in Destinations, NEW s \in {config, file},
                      d \in s.enabled, KeyIn(s, d) = NoKey, s.sealed[d] # "environment"
               PROVE FALSE
      BY DEF EnabledIsReady
  <2>1. Usable(s)
        BY DEF NotifyInv, FileOK, SaveOK, Follows
  <2>2. s.sealed[d] \in Sealed /\ s.sealed[d] # "none"
        BY <2>1 DEF Usable, NotifyInv, NotifyTypeOK, Settings
  <2>3. s.sealed[d] \in Keys
        BY <2>2 DEF Sealed
  <2> QED BY <2>2, <2>3, NotifyAssumption DEF KeyIn
<1> QED BY <1>1, NotifyInitHolds, NotifyInvNext, PTL DEF NotifySpec

\* No save replaces settings in the file that its administrator was not shown.
THEOREM SavesAreSeen == NotifySpec => NoBlindSave
<1>1. NotifyInv /\ [NotifyNext]_notifyVars => [file' # file => save.base = file]_notifyVars
  <2> SUFFICES ASSUME NotifyInv, NotifyNext, file' # file PROVE save.base = file
      OBVIOUS
  <2>1. Persist
        BY DEF NotifyNext, Save, SaveCredentials, Begin, TakeEffect, Publish, Restart, TakeJob,
               Delivered
  <2> QED BY <2>1 DEF Persist, NotifyInv, SaveOK, FileOK
<1> QED BY <1>1, NotifyInitHolds, NotifyInvNext, PTL DEF NotifySpec, NoBlindSave

-----------------------------------------------------------------------------
(* The parts side by side *)

ServicesInv == part \in Parts /\ OlcInv /\ CombatAll /\ PlacesInv /\ NotifyInv

\* One part runs, the others stay as they are.
LEMMA OnePartRuns ==
    Next => /\ UNCHANGED part
            /\ [OlcNext]_olcVars /\ [CombatNext]_combatVars
            /\ [PlacesNext]_placesVars /\ [NotifyNext]_notifyVars
BY DEF Next

\* No service loses its shape, whichever of them runs and for how long.
THEOREM ServicesKeepShape == Spec => []ServicesTypeOK
<1>1. Init => ServicesInv
      BY OlcInvInit, CombatAllInit, PlacesInvInit, NotifyInitHolds DEF Init, ServicesInv
<1>2. ServicesInv /\ [Next]_servicesVars => ServicesInv'
  <2> SUFFICES ASSUME ServicesInv, [Next]_servicesVars PROVE ServicesInv'
      OBVIOUS
  <2>1. /\ UNCHANGED part
        /\ [OlcNext]_olcVars /\ [CombatNext]_combatVars
        /\ [PlacesNext]_placesVars /\ [NotifyNext]_notifyVars
        BY OnePartRuns DEF servicesVars
  <2>2. OlcInv' /\ CombatAll' /\ PlacesInv' /\ NotifyInv'
        BY <2>1, OlcInvNext, CombatAllNext, PlacesInvNext, NotifyInvNext DEF ServicesInv
  <2> QED BY <2>1, <2>2 DEF ServicesInv
<1>3. ServicesInv => ServicesTypeOK
  <2>1. ServicesInv => OlcTypeOK /\ CombatTypeOK /\ PlacesTypeOK /\ NotifyTypeOK
        BY CombatAllTypes DEF ServicesInv, OlcInv, PlacesInv, NotifyInv
  <2> QED BY <2>1 DEF ServicesTypeOK, ServicesInv, Parts
<1> QED BY <1>1, <1>2, <1>3, PTL DEF Spec
=============================================================================
