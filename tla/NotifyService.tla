------------------------------ MODULE NotifyService ------------------------------
(***************************************************************************)
(* The notification service of pkg/notify: a configuration and credentials  *)
(* that administrators replace while the game publishes and one worker per  *)
(* destination delivers. service.go, credentials.go and gossip.go.          *)
(*                                                                         *)
(* saveMu makes saves one at a time, but the file is written outside mu,    *)
(* which publishers and workers take; a delivery runs outside both. What a  *)
(* message says, which events a destination selected and the limits of the  *)
(* providers are choices.                                                   *)
(***************************************************************************)
EXTENDS Naturals, Sequences

CONSTANTS
    Alerts,       \* destinations of events and of the check-in to the monitor
    Gossip,       \* the mirror of the gossip channel
    Keys,         \* credentials an administrator may set
    Environ,      \* what the environment may hold for a destination
    NoKey,        \* no valid credentials
    MaxJobs,      \* room in a worker's channel, 16 in the code
    MaxSaves      \* bound: saves in all

Destinations == Alerts \cup {Gossip}
Recipients == Keys \cup Environ \cup {NoKey}
Sealed == Keys \cup {"environment", "none"}

ASSUME NotifyAssumption ==
    /\ NoKey \notin Keys /\ Keys \cap {"environment", "none"} = {}
    /\ Environ # {} /\ MaxJobs \in Nat /\ MaxSaves \in Nat

VARIABLES
    environ,      \* credentials in the environment of this start of the server
    config,       \* Service.cfg with the vault's credentials
    file,         \* the settings file
    save,         \* what the holder of saveMu is writing
    shown,        \* settings that were in effect, and may be on somebody's page still
    jobs,         \* worker.jobs
    delivery,     \* the job each worker is sending, with the credentials it bound
    result        \* Service.status: the credentials the last result shown was had with

notifyVars == <<environ, config, file, save, shown, jobs, delivery, result>>

\* sealed: "environment" has no entry in the file, "none" an empty one.
Settings == [revision : 1..MaxSaves + 1, enabled : SUBSET Destinations,
             sealed : [Destinations -> Sealed]]
Job == [revision : 1..MaxSaves + 1, test : BOOLEAN, to : Recipients]
NoSave == [at |-> "no"]
NoJob == [at |-> "no"]

NotifyTypeOK ==
    /\ environ \in [Destinations -> Environ]
    /\ config \in Settings /\ file \in Settings /\ shown \subseteq Settings
    /\ save \in {NoSave} \cup [at : {"write", "written"}, next : Settings,
                              of : Destinations \cup {"settings"}, base : Settings]
    /\ jobs \in [Destinations -> Seq(Job)] /\ \A d \in Destinations : Len(jobs[d]) <= MaxJobs
    /\ delivery \in [Destinations -> {NoJob} \cup [at : {"sending"}, job : Job, key : Recipients]]
    /\ result \in [Destinations -> Recipients]

\* New: the file, or defaults with nothing enabled.
NotifyInit ==
    /\ environ \in [Destinations -> Environ]
    /\ config = [revision |-> 1, enabled |-> {}, sealed |-> [d \in Destinations |-> "environment"]]
    /\ file = config /\ save = NoSave /\ shown = {config}
    /\ jobs = [d \in Destinations |-> <<>>]
    /\ delivery = [d \in Destinations |-> NoJob]
    /\ result = [d \in Destinations |-> NoKey]

\* newCredentialVault and snapshot.values: an entry of the file, even an empty one,
\* overrides the environment.
KeyIn(s, d) ==
    IF s.sealed[d] = "environment" THEN environ[d] ELSE IF s.sealed[d] = "none" THEN NoKey ELSE s.sealed[d]
Key(d) == KeyIn(config, d)
Ready(d) == Key(d) # NoKey

-----------------------------------------------------------------------------
\* Save and SaveCredentials up to the write: the page must be of this revision.
MutantUnchangedSince(page) == TRUE
UnchangedSince(page) == page.revision = config.revision

Begin(of, next) ==
    /\ save = NoSave /\ config.revision <= MaxSaves
    /\ \E page \in shown :
          /\ UnchangedSince(page)
          /\ save' = [at |-> "write", of |-> of, base |-> page,
                      next |-> [next EXCEPT !.revision = config.revision + 1]]
    /\ UNCHANGED <<environ, config, file, shown, jobs, delivery, result>>

Save ==
    \E on \in SUBSET Destinations :
        /\ \A d \in on : Ready(d)
        /\ Begin("settings", [config EXCEPT !.enabled = on])

\* Credentials that are removed disable their destination.
MutantRemoved(d) == [config EXCEPT !.sealed[d] = "none"]
Removed(d) == [config EXCEPT !.sealed[d] = "none", !.enabled = @ \ {d}]

SaveCredentials(d) ==
    \/ Begin(d, Removed(d))
    \/ \E k \in Keys : Begin(d, [config EXCEPT !.sealed[d] = k])

\* persist: a new file put in place of the old one, or an error and the old one.
Persist ==
    /\ save # NoSave /\ save.at = "write"
    /\ \/ file' = save.next /\ save' = [save EXCEPT !.at = "written"]
       \/ save' = NoSave /\ UNCHANGED file
    /\ UNCHANGED <<environ, config, shown, jobs, delivery, result>>

\* The new settings take effect; new credentials forget the results of the old.
Forgotten(of) == [d \in Destinations |-> IF d = of THEN NoKey ELSE result[d]]

TakeEffect ==
    /\ save # NoSave /\ save.at = "written"
    /\ config' = save.next /\ save' = NoSave
    /\ shown' = shown \cup {save.next}
    /\ result' = Forgotten(save.of)
    /\ UNCHANGED <<environ, file, jobs, delivery>>

-----------------------------------------------------------------------------
\* enqueue, for those that the limiter lets through; a full channel drops the job.
Enqueued(S, test) ==
    [d \in Destinations |-> IF d \in S /\ Len(jobs[d]) < MaxJobs
        THEN Append(jobs[d], [revision |-> config.revision, test |-> test, to |-> Key(d)])
        ELSE jobs[d]]

\* Publish, heartbeat, PublishGossip and Test.
Publish ==
    /\ \/ \E S \in SUBSET (Alerts \cap config.enabled) : jobs' = Enqueued(S, FALSE)
       \/ Gossip \in config.enabled /\ Ready(Gossip) /\ jobs' = Enqueued({Gossip}, FALSE)
       \/ \E d \in Destinations : Ready(d) /\ jobs' = Enqueued({d}, TRUE)
    /\ UNCHANGED <<environ, config, file, save, shown, delivery, result>>

\* runWorker and runGossipWorker: a job of older settings is dropped, any other is
\* sent with the credentials of this moment, unless the mirror is cooling down.
MutantFresh(j) == TRUE
Fresh(j) == j.revision = config.revision

TakeJob(d) ==
    LET j == Head(jobs[d]) IN
    /\ delivery[d] = NoJob /\ jobs[d] # <<>>
    /\ jobs' = [jobs EXCEPT ![d] = Tail(@)]
    /\ \/ /\ Fresh(j) /\ (d \in config.enabled \/ j.test)
          /\ delivery' = [delivery EXCEPT ![d] = [at |-> "sending", job |-> j, key |-> Key(d)]]
       \/ /\ ~(Fresh(j) /\ (d \in config.enabled \/ j.test)) \/ d = Gossip
          /\ UNCHANGED delivery
    /\ UNCHANGED <<environ, config, file, save, shown, result>>

\* The provider answered, or five seconds are over: the result is shown unless the
\* settings have changed meanwhile.
MutantDescribes(j) == TRUE
Describes(j) == j.revision = config.revision

Delivered(d) ==
    /\ delivery[d] # NoJob
    /\ delivery' = [delivery EXCEPT ![d] = NoJob]
    /\ result' = IF Describes(delivery[d].job) THEN [result EXCEPT ![d] = delivery[d].key] ELSE result
    /\ UNCHANGED <<environ, config, file, save, shown, jobs>>

\* A restart, perhaps with another environment: the file is what is left, and what
\* the administrators' browsers show.
Restart ==
    /\ environ' \in [Destinations -> Environ]
    /\ config' = file /\ save' = NoSave
    /\ shown' = shown \cup {file}
    /\ jobs' = [d \in Destinations |-> <<>>]
    /\ delivery' = [d \in Destinations |-> NoJob]
    /\ result' = [d \in Destinations |-> NoKey]
    /\ UNCHANGED file

NotifyNext ==
    \/ Save \/ \E d \in Destinations : SaveCredentials(d)
    \/ Persist \/ TakeEffect \/ Publish \/ Restart
    \/ \E d \in Destinations : TakeJob(d) \/ Delivered(d)

NotifySpec == NotifyInit /\ [][NotifyNext]_notifyVars

-----------------------------------------------------------------------------
\* "Replacing credentials cannot route an older job to a new recipient": a message
\* goes where its publisher would have sent it, whatever was saved since.
RecipientHolds == \A d \in Destinations : delivery[d] # NoJob => delivery[d].key = delivery[d].job.to

\* The result a destination shows was had with the credentials it has now.
ResultIsCurrent == \A d \in Destinations : result[d] \in {NoKey, Key(d)}

\* No save overwrites settings that its administrator was not shown, not even when
\* the server stopped between the file and the memory of the one before.
NoBlindSave == [][file' # file => save.base = file]_notifyVars

\* A destination that is on can deliver, unless a restart took the environment's
\* credentials away.
EnabledIsReady ==
    \A d \in Destinations : \A s \in {config, file} :
        d \in s.enabled /\ KeyIn(s, d) = NoKey => s.sealed[d] = "environment"
=============================================================================
