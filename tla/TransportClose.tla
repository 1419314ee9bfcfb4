------------------------------ MODULE TransportClose ------------------------------
(***************************************************************************)
(* How one login closes the connection it takes a character over from      *)
(* while it holds Manager.playerLifecycleMu, against the goroutines it      *)
(* waits for: reconnect.go, session_player.go, session_pump.go,            *)
(* telnet/listener.go, heartbeat_output.go and the heartbeat of            *)
(* engine/gameloop.go.                                                     *)
(*                                                                         *)
(* All connections log in to one character. SessionLifecycle takes a       *)
(* lifecycle section as one step; here the section of performDupeCheck is  *)
(* split at each point where it lets go of the processor.                  *)
(***************************************************************************)
EXTENDS Naturals, Sequences

CONSTANTS
    Conns,        \* connections; each is used once
    Browsers,     \* those whose transport is a WebSocket
    NoConn

ASSUME ConnAssumption == Browsers \subseteq Conns /\ NoConn \notin Conns

VARIABLES
    lock,         \* playerLifecycleMu: the login holding it over a wait, or NoConn
    holder,       \* the connection registered under the character's name
    rd, wr,       \* reader and writer goroutine of each connection
    old,          \* the connection a login is closing
    tear,         \* transportCleanupOnce and how far its function has got
    closed,       \* send channel closed (SendClosed)
    detached,     \* transportDone closed: linkdead
    superseded,   \* Session.superseded
    sock,         \* sockets the server has not closed
    away,         \* peers that hung up or stopped answering
    notice,       \* the "usurped" text for a connection: where it is
    turn,         \* how far the heartbeat's output turn is
    frames,       \* outputBatch.frames: notices and close barriers, in order
    closing       \* outputBatch.closing: connections with a barrier this turn

vars == <<lock, holder, rd, wr, old, tear, closed, detached, superseded, sock,
          away, notice, turn, frames, closing>>

Frame == [conn : Conns, close : BOOLEAN]

\* Everything keeps its shape, and a connection has one close barrier at most in
\* the batch, however many callers close it.
TransportTypeOK ==
    /\ lock \in Conns \cup {NoConn} /\ holder \in Conns \cup {NoConn}
    /\ rd \in [Conns -> {"login", "notify", "close", "drain", "loop", "teardown", "done"}]
    /\ wr \in [Conns -> {"run", "teardown", "done"}]
    /\ old \in [Conns -> Conns \cup {NoConn}]
    /\ tear \in [Conns -> {"no", "unregister", "done"}]
    /\ \A set \in {closed, detached, superseded, sock, away, closing} : set \subseteq Conns
    /\ notice \in [Conns -> {"none", "staged", "queued", "written", "lost"}]
    /\ turn \in {"idle", "begun", "extract", "swept", "idleout", "commit"}
    /\ frames \in Seq(Frame)
    /\ \A i, j \in 1..Len(frames) : frames[i].close /\ frames[i] = frames[j] => i = j

Init ==
    /\ lock = NoConn /\ holder = NoConn
    /\ rd = [c \in Conns |-> "login"]
    /\ wr = [c \in Conns |-> "run"]
    /\ old = [c \in Conns |-> NoConn]
    /\ tear = [c \in Conns |-> "no"]
    /\ closed = {} /\ detached = {} /\ superseded = {}
    /\ sock = Conns /\ away = {}
    /\ notice = [c \in Conns |-> "none"]
    /\ turn = "idle" /\ frames = <<>> /\ closing = {}

-----------------------------------------------------------------------------
Active == turn # "idle"

\* Mutants: a barrier at each call; no barrier at all.
MutantCloseSendAgain(c) ==
    IF Active
    THEN /\ frames' = Append(frames, [conn |-> c, close |-> TRUE])
         /\ closing' = closing \cup {c} /\ UNCHANGED closed
    ELSE closed' = closed \cup {c} /\ UNCHANGED <<frames, closing>>
MutantCloseSendNow(c) == closed' = closed \cup {c} /\ UNCHANGED <<frames, closing>>

\* Session.CloseSend: during a heartbeat turn only a barrier behind the frames
\* staged so far, once a turn; outside one the channel is closed at once.
CloseSend(c) ==
    IF Active
    THEN /\ frames' = IF c \in closing THEN frames
                      ELSE Append(frames, [conn |-> c, close |-> TRUE])
         /\ closing' = closing \cup {c}
         /\ UNCHANGED closed
    ELSE closed' = closed \cup {c} /\ UNCHANGED <<frames, closing>>

\* Session.Close: left to the writer in a turn that has the close barrier, even
\* after the barrier was delivered.
SocketsAfterClose(c) == IF c \in closing THEN sock ELSE sock \ {c}

-----------------------------------------------------------------------------
(* performDupeCheck: holds the lock from DupeCheck to Drain *)

\* Nobody plays the character: on to the menu and into the world.
DupeCheckFree(c) ==
    /\ rd[c] = "login" /\ lock = NoConn
    /\ holder = NoConn
    /\ holder' = c
    /\ rd' = [rd EXCEPT ![c] = "loop"]
    /\ UNCHANGED <<lock, wr, old, tear, closed, detached, superseded, sock, away,
                   notice, turn, frames, closing>>

Connected(c) == c \notin detached /\ c \notin closed

\* A linkdead connection's pumps have exited: nothing to wait for.
DupeCheckLinkdead(c) ==
    /\ rd[c] = "login" /\ lock = NoConn
    /\ holder # NoConn /\ ~Connected(holder)
    /\ holder' = c
    /\ superseded' = superseded \cup {holder}
    /\ CloseSend(holder)
    /\ rd' = [rd EXCEPT ![c] = "loop"]
    /\ UNCHANGED <<lock, wr, old, tear, detached, sock, away, notice, turn>>

DupeCheckUsurp(c) ==
    /\ rd[c] = "login" /\ lock = NoConn
    /\ holder # NoConn /\ Connected(holder)
    /\ lock' = c
    /\ holder' = c
    /\ old' = [old EXCEPT ![c] = holder]
    /\ superseded' = superseded \cup {holder}
    /\ rd' = [rd EXCEPT ![c] = "notify"]
    /\ UNCHANGED <<wr, tear, closed, detached, sock, away, notice, turn, frames, closing>>

\* old.Send: staged during a turn, else put on the channel. A connection that
\* is already being closed takes no more text.
Notify(c) ==
    LET o == old[c]
        deaf == o \in closed \/ o \in closing
    IN /\ rd[c] = "notify"
       /\ rd' = [rd EXCEPT ![c] = "close"]
       /\ notice' = [notice EXCEPT ![o] = IF deaf THEN "none"
                                          ELSE IF Active THEN "staged" ELSE "queued"]
       /\ frames' = IF Active /\ ~deaf THEN Append(frames, [conn |-> o, close |-> FALSE])
                    ELSE frames
       /\ UNCHANGED <<lock, holder, wr, old, tear, closed, detached, superseded, sock,
                      away, turn, closing>>

\* CloseAfterSend, first half.
CloseOld(c) ==
    /\ rd[c] = "close"
    /\ CloseSend(old[c])
    /\ rd' = [rd EXCEPT ![c] = "drain"]
    /\ UNCHANGED <<lock, holder, wr, old, tear, detached, superseded, sock, away,
                   notice, turn>>

\* CloseAfterSend, second half: drainBeforeCloseFunc or writerDone, then Close.
\* finishDupeCheck follows and the lock is released.
Drain(c) ==
    /\ rd[c] = "drain"
    /\ wr[old[c]] = "done"
    /\ sock' = SocketsAfterClose(old[c])
    /\ old' = [old EXCEPT ![c] = NoConn]
    /\ lock' = NoConn
    /\ rd' = [rd EXCEPT ![c] = "loop"]
    /\ UNCHANGED <<holder, wr, tear, closed, detached, superseded, away, notice,
                   turn, frames, closing>>

-----------------------------------------------------------------------------
(* Reader and writer of a connection *)

\* The reader notices that the socket or the peer is gone, or after its next line
\* that the channel is closed.
LeaveReadLoop(c) ==
    /\ rd[c] = "loop"
    /\ c \in away \/ c \notin sock \/ c \in closed
    /\ rd' = [rd EXCEPT ![c] = "teardown"]
    /\ UNCHANGED <<lock, holder, wr, old, tear, closed, detached, superseded, sock,
                   away, notice, turn, frames, closing>>

\* The writer sends what is queued; a peer that is away may not get it.
WriteNotice(c) ==
    /\ wr[c] = "run"
    /\ notice[c] = "queued"
    /\ notice' = [notice EXCEPT ![c] = IF c \in sock /\ c \notin away THEN "written" ELSE "lost"]
    /\ UNCHANGED <<lock, holder, rd, wr, old, tear, closed, detached, superseded, sock,
                   away, turn, frames, closing>>

\* Mutant: the writer waits for TransportDone alone.
MutantTelnetWriterExit(c) ==
    /\ c \notin Browsers
    /\ wr[c] = "run"
    /\ c \in detached
    /\ wr' = [wr EXCEPT ![c] = "done"]
    /\ UNCHANGED <<lock, holder, rd, old, tear, closed, detached, superseded, sock,
                   away, notice, turn, frames, closing>>

\* writeLoop returns when the channel is closed and drained, or at TransportDone.
TelnetWriterExit(c) ==
    /\ c \notin Browsers
    /\ wr[c] = "run"
    /\ \/ c \in closed /\ notice[c] # "queued"
       \/ c \in detached
    /\ wr' = [wr EXCEPT ![c] = "done"]
    /\ UNCHANGED <<lock, holder, rd, old, tear, closed, detached, superseded, sock,
                   away, notice, turn, frames, closing>>

\* writePump also returns when a ping fails. Its deferred function closes the
\* socket and runs the transport teardown ...
BrowserWriterExit(c) ==
    /\ c \in Browsers
    /\ wr[c] = "run"
    /\ \/ c \in closed /\ notice[c] # "queued"
       \/ c \in detached
       \/ c \in away
    /\ wr' = [wr EXCEPT ![c] = "teardown"]
    /\ sock' = SocketsAfterClose(c)
    /\ UNCHANGED <<lock, holder, rd, old, tear, closed, detached, superseded, away,
                   notice, turn, frames, closing>>

\* ... and only then closes writerDone.
BrowserWriterDone(c) ==
    /\ wr[c] = "teardown"
    /\ tear[c] = "done"
    /\ wr' = [wr EXCEPT ![c] = "done"]
    /\ UNCHANGED <<lock, holder, rd, old, tear, closed, detached, superseded, sock,
                   away, notice, turn, frames, closing>>

\* Somebody has entered the once-only teardown.
TearingDown(c) == rd[c] = "teardown" \/ wr[c] = "teardown"

\* HandleTransportDisconnect keeps a playing character linkdead; one that was
\* idled out is already.
DisconnectRetain(c) ==
    /\ TearingDown(c) /\ tear[c] = "no"
    /\ lock = NoConn
    /\ c \in detached \/ (c \notin closed /\ c \notin superseded)
    /\ detached' = detached \cup {c}
    /\ tear' = [tear EXCEPT ![c] = "done"]
    /\ UNCHANGED <<lock, holder, rd, wr, old, closed, superseded, sock, away, notice,
                   turn, frames, closing>>

DisconnectRelease(c) ==
    /\ TearingDown(c) /\ tear[c] = "no"
    /\ lock = NoConn
    /\ c \notin detached /\ (c \in closed \/ c \in superseded)
    /\ tear' = [tear EXCEPT ![c] = "unregister"]
    /\ UNCHANGED <<lock, holder, rd, wr, old, closed, detached, superseded, sock, away,
                   notice, turn, frames, closing>>

\* UnregisterSession, in a lifecycle section of its own, then CloseSend.
Unregister(c) ==
    /\ tear[c] = "unregister"
    /\ lock = NoConn
    /\ holder' = IF holder = c THEN NoConn ELSE holder
    /\ CloseSend(c)
    /\ tear' = [tear EXCEPT ![c] = "done"]
    /\ UNCHANGED <<lock, rd, wr, old, detached, superseded, sock, away, notice, turn>>

\* The telnet reader joins its writer before its socket is closed.
ReaderDone(c) ==
    /\ rd[c] = "teardown" /\ tear[c] = "done"
    /\ c \in Browsers \/ wr[c] = "done"
    /\ rd' = [rd EXCEPT ![c] = "done"]
    /\ sock' = IF c \in Browsers THEN SocketsAfterClose(c) ELSE sock \ {c}
    /\ UNCHANGED <<lock, holder, wr, old, tear, closed, detached, superseded, away,
                   notice, turn, frames, closing>>

\* The peer hangs up or stops answering, at any time.
PeerGone(c) ==
    /\ rd[c] = "loop"
    /\ c \notin away
    /\ away' = away \cup {c}
    /\ UNCHANGED <<lock, holder, rd, wr, old, tear, closed, detached, superseded, sock,
                   notice, turn, frames, closing>>

\* Manager.Kick takes no lifecycle lock. One more kick of a closed connection
\* does nothing, or in a later turn what DupeCheckLinkdead does to it.
Kick ==
    /\ holder # NoConn
    /\ holder \notin closed
    /\ CloseSend(holder)
    /\ UNCHANGED <<lock, holder, rd, wr, old, tear, detached, superseded, sock, away,
                   notice, turn>>

-----------------------------------------------------------------------------
(* The heartbeat *)

BeginTurn ==
    /\ turn = "idle"
    /\ turn' = "begun"
    /\ UNCHANGED <<lock, holder, rd, wr, old, tear, closed, detached, superseded, sock,
                   away, notice, frames, closing>>

\* ExtractPendingChars finds work, CheckIdling finds a character to void, or
\* the callbacks are over.
TurnGoesOn ==
    /\ \/ turn = "begun" /\ turn' = "extract"
       \/ turn \in {"begun", "swept"} /\ turn' \in {"idleout", "commit"}
    /\ UNCHANGED <<lock, holder, rd, wr, old, tear, closed, detached, superseded, sock,
                   away, notice, frames, closing>>

\* ExtractPendingChars retires a linkdead owner; others go to the menu.
Extract ==
    /\ turn = "extract" /\ lock = NoConn
    /\ turn' = "swept"
    /\ \/ /\ holder # NoConn /\ holder \in detached
          /\ CloseSend(holder)
          /\ holder' = NoConn
       \/ UNCHANGED <<holder, closed, frames, closing>>
    /\ UNCHANGED <<lock, rd, wr, old, tear, detached, superseded, sock, away, notice>>

\* closeIdleDescriptor discards the output and closes at once.
IdleClose ==
    /\ turn = "idleout" /\ lock = NoConn
    /\ turn' = "commit"
    /\ \/ /\ holder # NoConn /\ Connected(holder)
          /\ closed' = closed \cup {holder}
          /\ detached' = detached \cup {holder}
          /\ sock' = sock \ {holder}
       \/ UNCHANGED <<closed, detached, sock>>
    /\ UNCHANGED <<lock, holder, rd, wr, old, tear, superseded, away, notice, frames, closing>>

\* Mutant: the barrier of a channel that is closed already is left in the batch.
MutantCommit ==
    LET f == Head(frames) IN
    /\ turn = "commit"
    /\ frames # <<>>
    /\ frames' = IF f.close /\ f.conn \in closed THEN frames ELSE Tail(frames)
    /\ closed' = IF f.close THEN closed \cup {f.conn} ELSE closed
    /\ notice' = IF f.close THEN notice
                 ELSE [notice EXCEPT ![f.conn] = IF f.conn \in closed THEN "lost" ELSE "queued"]
    /\ UNCHANGED <<lock, holder, rd, wr, old, tear, detached, superseded, sock, away, turn,
                   closing>>

\* EndHeartbeatOutput delivers the frames in order ...
Commit ==
    LET f == Head(frames) IN
    /\ turn = "commit"
    /\ frames # <<>>
    /\ frames' = Tail(frames)
    /\ closed' = IF f.close THEN closed \cup {f.conn} ELSE closed
    /\ notice' = IF f.close THEN notice
                 ELSE [notice EXCEPT ![f.conn] = IF f.conn \in closed THEN "lost" ELSE "queued"]
    /\ UNCHANGED <<lock, holder, rd, wr, old, tear, detached, superseded, sock, away, turn,
                   closing>>

\* ... and the turn is over when none is left.
Committed ==
    /\ turn = "commit"
    /\ frames = <<>>
    /\ turn' = "idle"
    /\ closing' = {}
    /\ UNCHANGED <<lock, holder, rd, wr, old, tear, closed, detached, superseded, sock,
                   away, notice, frames>>

-----------------------------------------------------------------------------
Login(c) ==
    \/ DupeCheckFree(c) \/ DupeCheckLinkdead(c) \/ DupeCheckUsurp(c)
    \/ Notify(c) \/ CloseOld(c) \/ Drain(c)
Reader(c) == LeaveReadLoop(c) \/ ReaderDone(c)
Writer(c) == WriteNotice(c) \/ TelnetWriterExit(c) \/ BrowserWriterExit(c) \/ BrowserWriterDone(c)
Teardown(c) == DisconnectRetain(c) \/ DisconnectRelease(c) \/ Unregister(c)
TurnStep == TurnGoesOn \/ Extract \/ IdleClose \/ Commit \/ Committed

Next ==
    \/ \E c \in Conns : Login(c) \/ Reader(c) \/ Writer(c) \/ Teardown(c) \/ PeerGone(c)
    \/ Kick \/ BeginTurn \/ TurnStep

\* A read ends by itself when the socket is closed, or in a browser's case at
\* its deadline; a playing telnet connection's read has none (readLine).
ReadEnds(c) == c \notin sock \/ (c \in Browsers /\ c \in away \cup closed)

(* Every goroutine and every turn goes on. A connection takes the lifecycle *)
(* lock a bounded number of times, so a waiter gets it if it is always freed *)
(* again: weak fairness is enough. Peers, kicks and new turns are not fair.  *)
Fairness ==
    /\ \A c \in Conns :
        /\ WF_vars(Notify(c) \/ CloseOld(c) \/ Drain(c))
        /\ WF_vars(ReaderDone(c) \/ (ReadEnds(c) /\ LeaveReadLoop(c)))
        /\ WF_vars(Writer(c))
        /\ WF_vars(Teardown(c))
    /\ WF_vars(TurnStep)

Spec == Init /\ [][Next]_vars /\ Fairness

-----------------------------------------------------------------------------
(* Properties *)

HeartbeatWaits == turn \in {"extract", "idleout"}

\* Whoever loses a character to a second login is told so: the notice queued
\* ahead of the close reaches a peer that is still there before its socket is
\* closed, in a heartbeat turn or out of one ("closing the socket first loses
\* those bytes", CloseAfterSend; the FIFO barrier of queueHeartbeatClose).
NoticeBeforeClose ==
    \A c \in Conns : c \notin sock /\ c \notin away => notice[c] \in {"none", "written"}

\* A takeover from a telnet connection ends, unless the heartbeat waits for the
\* lock that the takeover holds with the old connection's close in its batch.
TelnetTakeoverEnds ==
    \A c \in Conns :
        (rd[c] = "drain" /\ old[c] \notin Browsers) ~>
            (rd[c] # "drain" \/ (HeartbeatWaits /\ old[c] \in closing))

\* A heartbeat turn ends, unless a takeover holds the lifecycle lock: kicks,
\* teardowns and idle closes alone never stop the game loop.
TurnEnds == Active ~> (~Active \/ lock # NoConn)

\* Closing a browser's connection ends too: "The transport drain may wait until
\* its write deadline" (reconnect.go:87-88), and no longer.
BrowserTakeoverEnds ==
    \A c \in Conns :
        (rd[c] = "drain" /\ old[c] \in Browsers) ~> (rd[c] # "drain" \/ HeartbeatWaits)

\* The wait for a telnet writer has a deadline: "A client that stops reading
\* cannot block the writer join forever" (telnet/listener.go:452).
DrainIsBounded ==
    \A c \in Conns : (rd[c] = "drain") ~> (rd[c] # "drain")
=============================================================================
