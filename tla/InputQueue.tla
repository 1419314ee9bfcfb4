------------------------------- MODULE InputQueue -------------------------------
(***************************************************************************)
(* The lines one player types, from the reader that receives them to the   *)
(* command interpreter: tryExecuteNow, prependAliasedInputs and            *)
(* DrainInputQueues of session/manager.go, executeCommandRaw of             *)
(* session/commands.go and the wait state of game/player_affects.go.        *)
(*                                                                         *)
(* Two goroutines run commands of one session: its reader, when the player *)
(* need not wait and nothing is queued, and the heartbeat, which takes one *)
(* line a pulse. inputMu makes each queue operation one step; the commands *)
(* themselves run outside every lock.                                      *)
(***************************************************************************)
EXTENDS Naturals, Sequences, FiniteSets, SequencesExt

CONSTANTS
    MaxLines,     \* bound: lines the player types
    MaxParts,     \* bound: commands one alias expands to
    MaxQueued,    \* maxQueuedInput, 128 in the code
    MaxWait,      \* bound: pulses a command makes its player wait
    MaxStuns      \* bound: times somebody else makes the player wait

ASSUME InputAssumption ==
    /\ MaxLines \in Nat /\ MaxParts \in Nat /\ MaxQueued \in Nat
    /\ MaxWait \in Nat /\ MaxStuns \in Nat

VARIABLES
    typed,        \* lines read so far; a line is its number
    queue,        \* Session.inputQueue
    overflow,     \* Session.inputOverflow
    mustClose,    \* goroutines that left inputMu with a close to do
    inputOpen,    \* the transport has not been closed
    todo,         \* commands a goroutine took and has not run
    inAlias,      \* the goroutine has run the first command of an alias
    wait,         \* Player.WaitState
    stuns,        \* how often others set it
    ran,          \* history: commands run of each line
    overtaken     \* history: lines in the heartbeat's hands when the reader ran past

inputVars == <<typed, queue, overflow, mustClose, inputOpen, todo, inAlias, wait,
               stuns, ran, overtaken>>

Runners == {"reader", "heartbeat"}
Lines == 1..MaxLines

\* A queued line: cmd = 0 is a line as typed, cmd > 0 the command of that number
\* in the expansion of an alias, which does not expand again.
QueuedInput == [line : Lines, cmd : 0..MaxParts]
Command == [line : Lines, cmd : 1..MaxParts]

InputTypeOK ==
    /\ typed \in 0..MaxLines /\ wait \in 0..MaxWait /\ stuns \in 0..MaxStuns
    /\ queue \in Seq(QueuedInput) /\ Len(queue) <= MaxQueued
    /\ overflow \in BOOLEAN /\ inputOpen \in BOOLEAN
    /\ mustClose \subseteq Runners
    /\ todo \in [Runners -> Seq(Command)] /\ inAlias \in [Runners -> BOOLEAN]
    /\ ran \in [Lines -> 0..MaxParts] /\ overtaken \subseteq Lines

InputInit ==
    /\ typed = 0 /\ queue = <<>> /\ overflow = FALSE /\ mustClose = {}
    /\ inputOpen = TRUE
    /\ todo = [r \in Runners |-> <<>>] /\ inAlias = [r \in Runners |-> FALSE]
    /\ wait = 0 /\ stuns = 0
    /\ ran = [l \in Lines |-> 0] /\ overtaken = {}

-----------------------------------------------------------------------------
\* executeCommandRaw: a typed line runs as one command or as the n of its alias
\* (none when the alias is empty or moderation rejects the line).
MutantExpansionAgain(input, n) ==
    [i \in 1..n |-> [line |-> input.line, cmd |-> i]]
Expansion(input, n) ==
    IF input.cmd > 0 THEN <<input>>
    ELSE [i \in 1..n |-> [line |-> input.line, cmd |-> i]]

LinesIn(s) == {s[i].line : i \in DOMAIN s}

\* reserveQueuedInputLocked: room for n more, or the queue is emptied and latched.
MutantReserves(n) == Len(queue) <= MaxQueued
Reserves(n) == n + Len(queue) <= MaxQueued

Overflow(r) ==
    /\ overflow' = TRUE /\ queue' = <<>>
    /\ mustClose' = mustClose \cup {r}

\* tryExecuteNow: whether the line has to queue.
MutantMustQueue == wait > 0
MustQueue == wait > 0 \/ queue # <<>>

\* A line arrives: handleCommand -> tryExecuteNow. Behind a wait or other queued
\* lines it queues, and nothing of a latched session runs; otherwise its commands
\* start at once in the reader.
TypeLine ==
    /\ inputOpen /\ typed < MaxLines
    /\ todo["reader"] = <<>> /\ "reader" \notin mustClose
    /\ typed' = typed + 1
    /\ LET line == [line |-> typed + 1, cmd |-> 0] IN
       IF overflow
       THEN UNCHANGED <<queue, overflow, mustClose, todo, inAlias, overtaken>>
       ELSE IF MustQueue
       THEN /\ IF Reserves(1)
               THEN queue' = Append(queue, line) /\ UNCHANGED <<overflow, mustClose>>
               ELSE Overflow("reader")
            /\ UNCHANGED <<todo, inAlias, overtaken>>
       ELSE /\ \E n \in 0..MaxParts : todo' = [todo EXCEPT !["reader"] = Expansion(line, n)]
            /\ inAlias' = [inAlias EXCEPT !["reader"] = FALSE]
            /\ overtaken' = overtaken \cup LinesIn(todo["heartbeat"])
            /\ UNCHANGED <<queue, overflow, mustClose>>
    /\ UNCHANGED <<inputOpen, wait, stuns, ran>>

\* DrainInputQueues, first pass: one pulse less to wait and, when that was the
\* last, one line out of the queue. The heartbeat runs it after it let go of m.mu.
DecrementWaitState == IF wait > 0 THEN wait - 1 ELSE 0

Drain ==
    /\ todo["heartbeat"] = <<>> /\ "heartbeat" \notin mustClose
    /\ wait > 0 \/ queue # <<>>
    /\ wait' = DecrementWaitState
    /\ IF wait' = 0 /\ queue # <<>>
       THEN /\ \E n \in 0..MaxParts :
                  todo' = [todo EXCEPT !["heartbeat"] = Expansion(Head(queue), n)]
            /\ inAlias' = [inAlias EXCEPT !["heartbeat"] = FALSE]
            /\ queue' = Tail(queue)
       ELSE UNCHANGED <<todo, inAlias, queue>>
    /\ UNCHANGED <<typed, overflow, mustClose, inputOpen, stuns, ran, overtaken>>

\* The handler of the next command, which may make the player wait.
RunCommand(r) ==
    /\ todo[r] # <<>> /\ (inAlias[r] => wait = 0)
    /\ ran' = [ran EXCEPT ![Head(todo[r]).line] = Head(todo[r]).cmd]
    /\ todo' = [todo EXCEPT ![r] = Tail(@)]
    /\ inAlias' = [inAlias EXCEPT ![r] = TRUE]
    /\ wait' \in {wait} \cup 1..MaxWait
    /\ UNCHANGED <<typed, queue, overflow, mustClose, inputOpen, stuns, overtaken>>

\* A handler that returns an error ends the alias it is part of.
CommandFails(r) ==
    /\ todo[r] # <<>> /\ (inAlias[r] => wait = 0)
    /\ ran' = [ran EXCEPT ![Head(todo[r]).line] = Head(todo[r]).cmd]
    /\ todo' = [todo EXCEPT ![r] = <<>>]
    /\ UNCHANGED <<typed, queue, overflow, mustClose, inputOpen, inAlias, wait, stuns, overtaken>>

\* prependAliasedInputs: a command of the alias made the player wait, so the rest
\* goes ahead of what is queued, all of it or nothing.
MutantPrepended(rest) == queue \o rest
Prepended(rest) == rest \o queue

MutantLatched == FALSE
Latched == overflow

PrependAliased(r) ==
    /\ todo[r] # <<>> /\ inAlias[r] /\ wait > 0
    /\ todo' = [todo EXCEPT ![r] = <<>>]
    /\ IF Latched
       THEN UNCHANGED <<queue, overflow, mustClose>>
       ELSE IF Reserves(Len(todo[r]))
       THEN queue' = Prepended(todo[r]) /\ UNCHANGED <<overflow, mustClose>>
       ELSE Overflow(r)
    /\ UNCHANGED <<typed, inputOpen, inAlias, wait, stuns, ran, overtaken>>

\* Session.Close of the goroutine that overflowed the queue, outside inputMu.
CloseInput(r) ==
    /\ r \in mustClose
    /\ mustClose' = mustClose \ {r} /\ inputOpen' = FALSE
    /\ UNCHANGED <<typed, queue, overflow, todo, inAlias, wait, stuns, ran, overtaken>>

\* A command of somebody else (bash, trip, a spell) makes the player wait.
Stun ==
    /\ stuns < MaxStuns /\ stuns' = stuns + 1
    /\ wait' \in 1..MaxWait
    /\ UNCHANGED <<typed, queue, overflow, mustClose, inputOpen, todo, inAlias, ran, overtaken>>

Runner(r) == RunCommand(r) \/ CommandFails(r) \/ PrependAliased(r) \/ CloseInput(r)

InputNext == TypeLine \/ Drain \/ Stun \/ \E r \in Runners : Runner(r)

\* The heartbeat ticks and both goroutines go on; nobody has to type.
InputFairness == WF_inputVars(Drain) /\ \A r \in Runners : WF_inputVars(Runner(r))

InputSpec == InputInit /\ [][InputNext]_inputVars

-----------------------------------------------------------------------------
Pending(l) == l \in LinesIn(queue) \/ \E r \in Runners : l \in LinesIn(todo[r])

\* What is still to be run of a session, as commands in any order.
Outstanding == ToSet(queue) \cup UNION {ToSet(todo[r]) : r \in Runners}

\* However a line travels between the reader, the queue and the heartbeat, no
\* command of it can be run twice or be in two places, and what is left of an
\* alias comes after what was run of it.
NoCommandTwice ==
    /\ \A c \in Outstanding : IF c.cmd = 0 THEN ran[c.line] = 0 ELSE ran[c.line] < c.cmd
    /\ Len(queue) + Len(todo["reader"]) + Len(todo["heartbeat"])
         = Cardinality(Outstanding)

\* "An overflow discards retained commands and latches admission closed": once
\* latched, nothing is in the queue whoever else was expanding an alias.
OverflowStaysEmpty == overflow => queue = <<>>

\* Lines run in the order they were typed, and an alias as a whole at its line's
\* place, except that the reader may pass a line the heartbeat has taken already.
LinesInOrder ==
    [][\A l \in Lines : ran'[l] # ran[l] =>
         \A m \in Lines : m < l /\ Pending(m) => m \in overtaken]_inputVars

\* A line that was accepted is run or dropped, never kept for good: each alias
\* expands once, the wait runs out and one line is drained a pulse.
LinesRun == \A l \in Lines : Pending(l) ~> ~Pending(l)
=============================================================================
