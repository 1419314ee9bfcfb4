-------------------------- MODULE TransportCloseProofs --------------------------
(***************************************************************************)
(* Theorems about TransportClose for any set of connections and browsers:   *)
(* everything keeps its shape, with one close barrier a connection in a     *)
(* batch, and the notice of a takeover goes ahead of the close.             *)
(*                                                                         *)
(* NoticeBeforeClose follows from CloseInv. A notice is under way only       *)
(* while the takeover that sent it holds the lifecycle lock and waits for    *)
(* the writer (UnderWay): that keeps everybody else who could close the      *)
(* socket out of the section that would. In a heartbeat turn the notice is   *)
(* ahead of its connection's barrier in the batch (StagedAhead).             *)
(***************************************************************************)
EXTENDS TransportClose, TLAPS

-----------------------------------------------------------------------------
(* The inductive invariant *)

\* The shape of everything but the batch.
Shapes ==
    /\ lock \in Conns \cup {NoConn} /\ holder \in Conns \cup {NoConn}
    /\ rd \in [Conns -> {"login", "notify", "close", "drain", "loop", "teardown", "done"}]
    /\ wr \in [Conns -> {"run", "teardown", "done"}]
    /\ old \in [Conns -> Conns \cup {NoConn}]
    /\ tear \in [Conns -> {"no", "unregister", "done"}]
    /\ closed \subseteq Conns /\ detached \subseteq Conns /\ superseded \subseteq Conns
    /\ sock \subseteq Conns /\ away \subseteq Conns /\ closing \subseteq Conns
    /\ notice \in [Conns -> {"none", "staged", "queued", "written", "lost"}]
    /\ turn \in {"idle", "begun", "extract", "swept", "idleout", "commit"}
    /\ frames \in Seq(Frame)

\* The lock is held over a wait by the one takeover that is past its check.
Usurping == {"notify", "close", "drain"}
LockHeld ==
    /\ \A c \in Conns : rd[c] \in Usurping => lock = c
    /\ lock # NoConn => rd[lock] \in Usurping /\ old[lock] \in Conns

\* Nobody is registered or superseded before the check, and only who was
\* superseded is sent a notice.
BeforeLogin ==
    /\ holder # NoConn => rd[holder] # "login" /\ holder \notin superseded
    /\ \A c \in superseded : rd[c] # "login"
    /\ \A c \in Conns : c \notin superseded => notice[c] = "none"

\* The takeover that is about to send one finds the old connection as it was.
Unnotified ==
    \A c \in Conns : rd[c] = "notify" =>
        old[c] \notin detached /\ old[c] \in superseded /\ notice[old[c]] = "none"

\* A batch exists in a turn only; who is closing has its barrier there or has been closed.
Barriers ==
    /\ ~Active => frames = <<>> /\ closing = {}
    /\ \A c \in closing : c \in closed \/ \E i \in 1..Len(frames) :
          frames[i].conn = c /\ frames[i].close
    /\ \A i \in 1..Len(frames) : frames[i].close => frames[i].conn \in closing
    /\ \A i, j \in 1..Len(frames) :
          frames[i].close = frames[j].close /\ frames[i].conn = frames[j].conn => i = j

\* A notice in the batch is staged, and one that is staged is there ahead of the
\* barrier of its connection.
StagedAhead ==
    /\ \A i \in 1..Len(frames) : ~frames[i].close => notice[frames[i].conn] = "staged"
    /\ \A c \in Conns : notice[c] = "staged" =>
          \E i \in 1..Len(frames) :
              /\ frames[i].conn = c /\ ~frames[i].close
              /\ \A j \in 1..Len(frames) : frames[j].conn = c /\ frames[j].close => i < j

\* What went before when a writer has gone, a socket is closed, a teardown is over.
GoneFor ==
    /\ \A c \in Conns : wr[c] # "run" => c \in closed \cup detached \cup away
    /\ \A c \in Conns : c \notin sock => c \in closed \cup detached \cup away
    /\ \A c \in Conns : tear[c] = "done" => c \in closed \cup detached \cup closing

\* A notice that has not arrived belongs to the takeover in progress, and all that
\* could close the old connection's socket is still to come.
Pending(c) == notice[c] \in {"staged", "queued"} /\ c \notin away
UnderWay ==
    /\ \A c \in Conns : Pending(c) =>
          /\ lock # NoConn /\ rd[lock] \in {"close", "drain"} /\ old[lock] = c
          /\ c \notin detached /\ tear[c] # "done" /\ wr[c] = "run" /\ c \in sock
          /\ notice[c] = "staged" => c \notin closed
    /\ \A c \in Conns : notice[c] = "lost" => c \in away

CloseInv ==
    /\ Shapes /\ LockHeld /\ BeforeLogin /\ Unnotified
    /\ Barriers /\ StagedAhead /\ GoneFor /\ UnderWay
-----------------------------------------------------------------------------
(* The batch of a heartbeat turn *)

\* What the batch has after one more frame.
LEMMA AppendFacts ==
    ASSUME NEW q \in Seq(Frame), NEW f \in Frame
    PROVE /\ Append(q, f) \in Seq(Frame)
          /\ Len(Append(q, f)) = Len(q) + 1 /\ Len(q) \in Nat
          /\ \A i \in 1..Len(q) : Append(q, f)[i] = q[i]
          /\ Append(q, f)[Len(q) + 1] = f
OBVIOUS

\* Every frame is of a connection.
LEMMA FrameConns ==
    ASSUME NEW q \in Seq(Frame)
    PROVE \A i \in 1..Len(q) : q[i] \in Frame /\ q[i].conn \in Conns
<1>1. \A i \in 1..Len(q) : q[i] \in Frame
      OBVIOUS
<1>2. \A f \in Frame : f.conn \in Conns
      BY DEF Frame
<1> QED BY <1>1, <1>2

\* What it has after its first frame is delivered.
LEMMA TailFacts ==
    ASSUME NEW q \in Seq(Frame), q # <<>>
    PROVE /\ Tail(q) \in Seq(Frame) /\ Head(q) = q[1] /\ q[1] \in Frame
          /\ Len(q) \in Nat \ {0} /\ Len(Tail(q)) = Len(q) - 1
          /\ \A i \in 1..Len(Tail(q)) : Tail(q)[i] = q[i + 1]
OBVIOUS

\* A step that leaves the batch, what is closing and the notices alone, and ends no turn.
LEMMA BatchKept ==
    ASSUME Barriers, StagedAhead, Active => Active', UNCHANGED <<frames, closing, notice>>,
           closed \subseteq closed'
    PROVE Barriers' /\ StagedAhead'
BY DEF Barriers, StagedAhead

\* A notice is staged only while a turn's batch is.
LEMMA StagedInTurn ==
    ASSUME Barriers, StagedAhead
    PROVE \A c \in Conns : notice[c] = "staged" => Active
BY DEF Barriers, StagedAhead

\* CloseSend closes the channel, or puts one barrier behind everything staged so far.
LEMMA CloseSendFacts ==
    ASSUME Shapes, Barriers, StagedAhead, NEW c \in Conns, CloseSend(c), Active => Active', UNCHANGED notice
    PROVE /\ frames' \in Seq(Frame) /\ closed' \subseteq Conns /\ closing' \subseteq Conns
          /\ closed \subseteq closed' /\ closed' \subseteq closed \cup {c}
          /\ closing \subseteq closing' /\ c \in closed' \cup closing'
          /\ Active => closed' = closed
          /\ Barriers' /\ StagedAhead'
<1>1. CASE ~Active
  <2>1. closed' = closed \cup {c} /\ UNCHANGED <<frames, closing>>
        BY <1>1 DEF CloseSend
  <2>2. Barriers' /\ StagedAhead'
        BY <2>1, BatchKept
  <2> QED BY <1>1, <2>1, <2>2 DEF Shapes
<1>2. CASE Active /\ c \in closing
  <2>1. UNCHANGED <<closed, frames, closing>>
        BY <1>2 DEF CloseSend
  <2>2. Barriers' /\ StagedAhead'
        BY <2>1, BatchKept
  <2> QED BY <1>2, <2>1, <2>2 DEF Shapes
<1>3. CASE Active /\ c \notin closing
  <2> DEFINE f == [conn |-> c, close |-> TRUE]
  <2>1. f \in Frame /\ f.conn = c /\ f.close
        BY DEF Frame
  <2>2. frames' = Append(frames, f) /\ closing' = closing \cup {c} /\ closed' = closed
        BY <1>3 DEF CloseSend
  <2> HIDE DEF f
  <2>3. /\ frames' \in Seq(Frame) /\ Len(frames') = Len(frames) + 1 /\ Len(frames) \in Nat
        /\ \A i \in 1..Len(frames) : frames'[i] = frames[i]
        /\ frames'[Len(frames) + 1] = f
        BY <2>1, <2>2, AppendFacts DEF Shapes
  <2>4. \A i \in 1..Len(frames) : frames[i].close => frames[i].conn # c
        BY <1>3 DEF Barriers
  <2>5. \A c_1 \in closing' : c_1 \in closed' \/ \E i \in 1..Len(frames') :
              frames'[i].conn = c_1 /\ frames'[i].close
        BY <2>1, <2>2, <2>3 DEF Barriers
  <2>6. \A i \in 1..Len(frames') : frames'[i].close => frames'[i].conn \in closing'
        BY <2>1, <2>2, <2>3 DEF Barriers
  <2>7. \A i, j \in 1..Len(frames') :
           frames'[i].close = frames'[j].close /\ frames'[i].conn = frames'[j].conn => i = j
    <3> SUFFICES ASSUME NEW i \in 1..Len(frames'), NEW j \in 1..Len(frames'),
                        frames'[i].close = frames'[j].close, frames'[i].conn = frames'[j].conn
                 PROVE i = j
        OBVIOUS
    <3>1. i \in 1..Len(frames) \/ i = Len(frames) + 1
          BY <2>3
    <3>2. j \in 1..Len(frames) \/ j = Len(frames) + 1
          BY <2>3
    <3> QED BY <2>1, <2>3, <2>4, <3>1, <3>2 DEF Barriers
  <2>8. Barriers'
        BY <1>3, <2>5, <2>6, <2>7 DEF Barriers, Active
  <2>9. StagedAhead'
    <3>1. \A i \in 1..Len(frames') : ~frames'[i].close => notice'[frames'[i].conn] = "staged"
          BY <2>1, <2>3 DEF StagedAhead
    <3>2. ASSUME NEW d \in Conns, notice'[d] = "staged"
          PROVE \E i \in 1..Len(frames') :
              /\ frames'[i].conn = d /\ ~frames'[i].close
              /\ \A j \in 1..Len(frames') : frames'[j].conn = d /\ frames'[j].close => i < j
      <4>1. PICK i \in 1..Len(frames) :
              /\ frames[i].conn = d /\ ~frames[i].close
              /\ \A j \in 1..Len(frames) : frames[j].conn = d /\ frames[j].close => i < j
            BY <3>2 DEF StagedAhead
      <4>2. i \in 1..Len(frames') /\ frames'[i] = frames[i]
            BY <2>3
      <4>3. \A j \in 1..Len(frames') : j \in 1..Len(frames) \/ (j = Len(frames) + 1 /\ i < j)
            BY <2>3
      <4> QED BY <2>3, <4>1, <4>2, <4>3
    <3> QED BY <3>1, <3>2 DEF StagedAhead
  <2> QED BY <1>3, <2>2, <2>3, <2>8, <2>9 DEF Shapes
<1> QED BY <1>1, <1>2, <1>3

-----------------------------------------------------------------------------
(* The steps of a takeover *)

\* The name is free: the login takes it.
LEMMA DupeCheckFreeKeeps ==
    ASSUME CloseInv, NEW c \in Conns, DupeCheckFree(c)
    PROVE CloseInv'
<1>1. Barriers' /\ StagedAhead'
      BY BatchKept DEF CloseInv, Active, DupeCheckFree
<1>2. Shapes'
      BY ConnAssumption DEF CloseInv, Shapes, DupeCheckFree
<1>3. LockHeld' /\ BeforeLogin' /\ Unnotified'
      BY ConnAssumption DEF CloseInv, Shapes, LockHeld, Usurping, BeforeLogin, Unnotified, DupeCheckFree
<1>4. GoneFor'
      BY ConnAssumption DEF CloseInv, Shapes, GoneFor, DupeCheckFree
<1>5. UnderWay'
      BY ConnAssumption DEF CloseInv, Shapes, LockHeld, Usurping, BeforeLogin, GoneFor, UnderWay, Pending, DupeCheckFree
<1> QED BY <1>1, <1>2, <1>3, <1>4, <1>5 DEF CloseInv

\* The owner is linkdead: its name is taken and its channel closed.
LEMMA DupeCheckLinkdeadKeeps ==
    ASSUME CloseInv, NEW c \in Conns, DupeCheckLinkdead(c)
    PROVE CloseInv'
<1>1. holder \in Conns /\ CloseSend(holder) /\ UNCHANGED notice /\ (Active => Active')
      BY ConnAssumption DEF Active, CloseInv, Shapes, LockHeld, DupeCheckLinkdead
<1>2. /\ frames' \in Seq(Frame) /\ closed' \subseteq Conns /\ closing' \subseteq Conns
      /\ closed \subseteq closed' /\ closed' \subseteq closed \cup {holder}
      /\ closing \subseteq closing' /\ holder \in closed' \cup closing'
      /\ Active => closed' = closed
      /\ Barriers' /\ StagedAhead'
      BY <1>1, CloseSendFacts DEF CloseInv
<1>3. Shapes'
      BY <1>1, <1>2, ConnAssumption DEF CloseInv, Shapes, DupeCheckLinkdead
<1>4. LockHeld' /\ BeforeLogin' /\ Unnotified'
      BY <1>1, <1>2, ConnAssumption DEF CloseInv, Shapes, LockHeld, Usurping, BeforeLogin, Unnotified, DupeCheckLinkdead
<1>5. GoneFor'
      BY <1>1, <1>2, ConnAssumption DEF CloseInv, Shapes, GoneFor, DupeCheckLinkdead
<1>6. UnderWay'
      BY <1>1, <1>2, ConnAssumption DEF CloseInv, Shapes, LockHeld, Usurping, BeforeLogin, GoneFor, UnderWay, Pending, DupeCheckLinkdead
<1> QED BY <1>2, <1>3, <1>4, <1>5, <1>6 DEF CloseInv

\* The owner is connected: its name is taken, and the lock kept.
LEMMA DupeCheckUsurpKeeps ==
    ASSUME CloseInv, NEW c \in Conns, DupeCheckUsurp(c)
    PROVE CloseInv'
<1>1. Barriers' /\ StagedAhead'
      BY BatchKept DEF CloseInv, Active, DupeCheckUsurp, Connected
<1>2. Shapes'
      BY ConnAssumption DEF CloseInv, Shapes, DupeCheckUsurp, Connected
<1>3. c # holder /\ holder \in Conns /\ holder \notin superseded /\ holder \notin detached
      BY DEF CloseInv, Shapes, BeforeLogin, DupeCheckUsurp, Connected
<1>4. LockHeld'
      BY <1>3, ConnAssumption DEF CloseInv, Shapes, LockHeld, Usurping, DupeCheckUsurp
<1>5. BeforeLogin'
      BY <1>3, ConnAssumption DEF CloseInv, Shapes, BeforeLogin, DupeCheckUsurp
<1>6. Unnotified'
      BY <1>3, ConnAssumption DEF CloseInv, Shapes, LockHeld, Usurping, BeforeLogin, Unnotified, DupeCheckUsurp
<1>7. LockHeld' /\ BeforeLogin' /\ Unnotified'
      BY <1>4, <1>5, <1>6
<1>8. GoneFor'
      BY ConnAssumption DEF CloseInv, Shapes, GoneFor, DupeCheckUsurp, Connected
<1>9. UnderWay'
      BY ConnAssumption DEF CloseInv, Shapes, LockHeld, Usurping, BeforeLogin, GoneFor, UnderWay, Pending, DupeCheckUsurp, Connected
<1> QED BY <1>1, <1>2, <1>7, <1>8, <1>9 DEF CloseInv

\* The notice goes to a connection that is not being closed; in a turn it is staged
\* behind what is there.
LEMMA NotifyKeeps ==
    ASSUME CloseInv, NEW c \in Conns, Notify(c)
    PROVE CloseInv'
<1> DEFINE o == old[c]
           n == IF o \in closed \/ o \in closing THEN "none"
                ELSE IF Active THEN "staged" ELSE "queued"
           f == [conn |-> o, close |-> FALSE]
<1>1. /\ lock = c /\ lock # NoConn /\ o \in Conns /\ rd[c] = "notify"
      /\ old[c] = o /\ o \notin detached /\ o \in superseded /\ notice[o] = "none"
      BY ConnAssumption DEF CloseInv, Shapes, LockHeld, Usurping, Unnotified, Notify
<1>2. /\ rd' = [rd EXCEPT ![c] = "close"] /\ notice' = [notice EXCEPT ![o] = n]
      /\ frames' = IF n = "staged" THEN Append(frames, f) ELSE frames
      /\ UNCHANGED <<lock, holder, wr, old, tear, closed, detached, superseded, sock,
                     away, turn, closing>>
      BY DEF Notify
<1>3. /\ n \in {"none", "staged", "queued"}
      /\ n # "none" => o \notin closed /\ o \notin closing
      /\ n = "staged" => Active
      OBVIOUS
<1>4. f \in Frame /\ f.conn = o /\ ~f.close
      BY <1>1 DEF Frame
<1>5. /\ notice'[o] = n /\ \A d \in Conns : d # o => notice'[d] = notice[d]
      /\ notice' \in [Conns -> {"none", "staged", "queued", "written", "lost"}]
      BY <1>1, <1>2, <1>3 DEF CloseInv, Shapes
<1>6. /\ frames' \in Seq(Frame) /\ Len(frames) \in Nat
      /\ \A i \in 1..Len(frames) : frames'[i] = frames[i] /\ frames[i].conn \in Conns
      /\ n # "staged" => Len(frames') = Len(frames)
      /\ n = "staged" => Len(frames') = Len(frames) + 1 /\ frames'[Len(frames) + 1] = f
  <2>1. frames \in Seq(Frame) /\ Len(frames) \in Nat
        /\ \A i \in 1..Len(frames) : frames[i].conn \in Conns
        BY FrameConns DEF CloseInv, Shapes
  <2> HIDE DEF f, n
  <2>2. CASE n = "staged" BY <1>2, <1>4, <2>1, <2>2, AppendFacts
  <2>3. CASE n # "staged" BY <1>2, <2>1, <2>3
  <2> QED BY <2>2, <2>3
<1> HIDE DEF o, n, f
<1>7. Shapes'
      BY <1>2, <1>5, <1>6 DEF CloseInv, Shapes
<1>8. LockHeld' /\ Unnotified'
      BY <1>1, <1>2 DEF CloseInv, Shapes, LockHeld, Usurping, Unnotified
<1>9. BeforeLogin'
      BY <1>1, <1>2, <1>5 DEF CloseInv, Shapes, BeforeLogin
<1>10. Barriers'
  <2>1. \A i \in 1..Len(frames) : ~frames[i].close => frames[i].conn # o
        BY <1>1 DEF CloseInv, StagedAhead
  <2>2. \A d \in closing' : d \in closed' \/ \E i \in 1..Len(frames') :
           frames'[i].conn = d /\ frames'[i].close
    <3> SUFFICES ASSUME NEW d \in closing, d \notin closed
                 PROVE \E i \in 1..Len(frames') : frames'[i].conn = d /\ frames'[i].close
        BY <1>2
    <3>1. PICK i \in 1..Len(frames) : frames[i].conn = d /\ frames[i].close
          BY DEF CloseInv, Barriers
    <3>2. i \in 1..Len(frames')
          BY <1>3, <1>6
    <3> QED BY <1>6, <3>1, <3>2
  <2>3. \A i \in 1..Len(frames') : i \in 1..Len(frames) \/ (n = "staged" /\ i = Len(frames) + 1)
        BY <1>6
  <2>4. \A i \in 1..Len(frames') : frames'[i].close => frames'[i].conn \in closing'
        BY <1>2, <1>4, <1>6, <2>3 DEF CloseInv, Barriers
  <2>5. ASSUME NEW i \in 1..Len(frames'), NEW j \in 1..Len(frames'),
               frames'[i].close = frames'[j].close, frames'[i].conn = frames'[j].conn
        PROVE i = j
        BY <1>4, <1>6, <2>1, <2>3, <2>5 DEF CloseInv, Barriers
  <2> QED BY <1>2, <1>3, <2>2, <2>4, <2>5 DEF CloseInv, Barriers, Active
<1>11. StagedAhead'
  <2>1. \A i \in 1..Len(frames') : i \in 1..Len(frames) \/ (n = "staged" /\ i = Len(frames) + 1)
        BY <1>6
  <2>2. \A i \in 1..Len(frames') : ~frames'[i].close => notice'[frames'[i].conn] = "staged"
        BY <1>1, <1>4, <1>5, <1>6, <2>1 DEF CloseInv, StagedAhead
  <2>3. ASSUME NEW d \in Conns, notice'[d] = "staged"
        PROVE \E i \in 1..Len(frames') :
              /\ frames'[i].conn = d /\ ~frames'[i].close
              /\ \A j \in 1..Len(frames') : frames'[j].conn = d /\ frames'[j].close => i < j
    <3>1. CASE d = o
      <4>1. n = "staged" /\ o \notin closing
            BY <1>3, <1>5, <2>3, <3>1
      <4>2. \A j \in 1..Len(frames') : ~(frames'[j].conn = o /\ frames'[j].close)
            BY <1>4, <1>6, <2>1, <4>1 DEF CloseInv, Barriers
      <4>3. Len(frames) + 1 \in 1..Len(frames') /\ frames'[Len(frames) + 1] = f
            BY <1>6, <4>1
      <4> QED BY <1>4, <3>1, <4>2, <4>3
    <3>2. CASE d # o
      <4>1. PICK i \in 1..Len(frames) :
              /\ frames[i].conn = d /\ ~frames[i].close
              /\ \A j \in 1..Len(frames) : frames[j].conn = d /\ frames[j].close => i < j
            BY <1>5, <2>3, <3>2 DEF CloseInv, StagedAhead
      <4>2. i \in 1..Len(frames') /\ frames'[i] = frames[i]
            BY <1>3, <1>6
      <4> QED BY <1>4, <1>6, <2>1, <3>2, <4>1, <4>2
    <3> QED BY <3>1, <3>2
  <2> QED BY <2>2, <2>3 DEF StagedAhead
<1>12. GoneFor'
      BY <1>2 DEF CloseInv, GoneFor
<1>13. UnderWay'
      BY <1>1, <1>2, <1>3, <1>5 DEF CloseInv, Shapes, GoneFor, UnderWay, Pending
<1> QED BY <1>7, <1>8, <1>9, <1>10, <1>11, <1>12, <1>13 DEF CloseInv

\* The close goes behind the notice.
LEMMA CloseOldKeeps ==
    ASSUME CloseInv, NEW c \in Conns, CloseOld(c)
    PROVE CloseInv'
<1>1. old[c] \in Conns /\ CloseSend(old[c]) /\ UNCHANGED notice /\ (Active => Active')
      BY ConnAssumption DEF Active, CloseInv, Shapes, LockHeld, Usurping, CloseOld
<1>2. /\ frames' \in Seq(Frame) /\ closed' \subseteq Conns /\ closing' \subseteq Conns
      /\ closed \subseteq closed' /\ closed' \subseteq closed \cup {old[c]}
      /\ closing \subseteq closing' /\ old[c] \in closed' \cup closing'
      /\ Active => closed' = closed
      /\ Barriers' /\ StagedAhead'
      BY <1>1, CloseSendFacts DEF CloseInv
<1>3. Shapes'
      BY <1>1, <1>2, ConnAssumption DEF CloseInv, Shapes, CloseOld
<1>4. LockHeld' /\ BeforeLogin' /\ Unnotified'
      BY <1>1, <1>2, ConnAssumption DEF CloseInv, Shapes, LockHeld, Usurping, BeforeLogin, Unnotified, CloseOld
<1>5. GoneFor'
      BY <1>1, <1>2, ConnAssumption DEF CloseInv, Shapes, GoneFor, CloseOld
<1>6. \A d \in Conns : notice[d] = "staged" => Active
      BY StagedInTurn DEF CloseInv
<1>7. UnderWay'
      BY <1>1, <1>2, <1>6, ConnAssumption DEF CloseInv, Shapes, LockHeld, Usurping, BeforeLogin, GoneFor, UnderWay, Pending, CloseOld
<1> QED BY <1>2, <1>3, <1>4, <1>5, <1>7 DEF CloseInv

\* The writer has gone: the socket is closed and the lock released.
LEMMA DrainKeeps ==
    ASSUME CloseInv, NEW c \in Conns, Drain(c)
    PROVE CloseInv'
<1>1. Barriers' /\ StagedAhead'
      BY BatchKept DEF CloseInv, Active, Drain, SocketsAfterClose
<1>2. Shapes'
      BY ConnAssumption DEF CloseInv, Shapes, Drain, SocketsAfterClose
<1>3. LockHeld' /\ BeforeLogin' /\ Unnotified'
      BY ConnAssumption DEF CloseInv, Shapes, LockHeld, Usurping, BeforeLogin, Unnotified, Drain, SocketsAfterClose
<1>4. GoneFor'
      BY ConnAssumption DEF CloseInv, Shapes, GoneFor, Drain, SocketsAfterClose
<1>5. UnderWay'
      BY ConnAssumption DEF CloseInv, Shapes, LockHeld, Usurping, BeforeLogin, GoneFor, UnderWay, Pending, Drain, SocketsAfterClose
<1> QED BY <1>1, <1>2, <1>3, <1>4, <1>5 DEF CloseInv

-----------------------------------------------------------------------------
(* The goroutines of a connection *)

\* The reader leaves its loop.
LEMMA LeaveReadLoopKeeps ==
    ASSUME CloseInv, NEW c \in Conns, LeaveReadLoop(c)
    PROVE CloseInv'
<1>1. Barriers' /\ StagedAhead'
      BY BatchKept DEF CloseInv, Active, LeaveReadLoop
<1>2. Shapes'
      BY ConnAssumption DEF CloseInv, Shapes, LeaveReadLoop
<1>3. LockHeld' /\ BeforeLogin' /\ Unnotified'
      BY ConnAssumption DEF CloseInv, Shapes, LockHeld, Usurping, BeforeLogin, Unnotified, LeaveReadLoop
<1>4. GoneFor'
      BY ConnAssumption DEF CloseInv, Shapes, GoneFor, LeaveReadLoop
<1>5. UnderWay'
      BY ConnAssumption DEF CloseInv, Shapes, LockHeld, Usurping, BeforeLogin, GoneFor, UnderWay, Pending, LeaveReadLoop
<1> QED BY <1>1, <1>2, <1>3, <1>4, <1>5 DEF CloseInv

\* The writer sends the notice.
LEMMA WriteNoticeKeeps ==
    ASSUME CloseInv, NEW c \in Conns, WriteNotice(c)
    PROVE CloseInv'
<1>1. Barriers' /\ StagedAhead'
  <2>1. notice[c] = "queued" /\ UNCHANGED <<frames, closing, turn, closed>>
        /\ \E n \in {"written", "lost"} : notice' = [notice EXCEPT ![c] = n]
        BY DEF WriteNotice
  <2>2. \A d \in Conns : notice'[d] = "staged" <=> notice[d] = "staged"
        BY <2>1 DEF CloseInv, Shapes
  <2>3. \A i \in 1..Len(frames) : frames[i].conn \in Conns
        BY FrameConns DEF CloseInv, Shapes
  <2>4. Barriers'
        BY <2>1 DEF CloseInv, Barriers, Active
  <2>5. \A i \in 1..Len(frames') : ~frames'[i].close => notice'[frames'[i].conn] = "staged"
        BY <2>1, <2>2, <2>3 DEF CloseInv, StagedAhead
  <2>6. StagedAhead'
        BY <2>1, <2>2, <2>5 DEF CloseInv, StagedAhead
  <2> QED BY <2>4, <2>6
<1>2. Shapes'
      BY ConnAssumption DEF CloseInv, Shapes, WriteNotice
<1>3. LockHeld' /\ BeforeLogin' /\ Unnotified'
      BY ConnAssumption DEF CloseInv, Shapes, LockHeld, Usurping, BeforeLogin, Unnotified, WriteNotice
<1>4. GoneFor'
      BY ConnAssumption DEF CloseInv, Shapes, GoneFor, WriteNotice
<1>5. UnderWay'
      BY ConnAssumption DEF CloseInv, Shapes, LockHeld, Usurping, BeforeLogin, GoneFor, UnderWay, Pending, WriteNotice
<1> QED BY <1>1, <1>2, <1>3, <1>4, <1>5 DEF CloseInv

\* A telnet writer ends.
LEMMA TelnetWriterExitKeeps ==
    ASSUME CloseInv, NEW c \in Conns, TelnetWriterExit(c)
    PROVE CloseInv'
<1>1. Barriers' /\ StagedAhead'
      BY BatchKept DEF CloseInv, Active, TelnetWriterExit
<1>2. Shapes'
      BY ConnAssumption DEF CloseInv, Shapes, TelnetWriterExit
<1>3. LockHeld' /\ BeforeLogin' /\ Unnotified'
      BY ConnAssumption DEF CloseInv, Shapes, LockHeld, Usurping, BeforeLogin, Unnotified, TelnetWriterExit
<1>4. GoneFor'
      BY ConnAssumption DEF CloseInv, Shapes, GoneFor, TelnetWriterExit
<1>5. UnderWay'
      BY ConnAssumption DEF CloseInv, Shapes, LockHeld, Usurping, BeforeLogin, GoneFor, UnderWay, Pending, TelnetWriterExit
<1> QED BY <1>1, <1>2, <1>3, <1>4, <1>5 DEF CloseInv

\* A browser's writer ends and closes its socket.
LEMMA BrowserWriterExitKeeps ==
    ASSUME CloseInv, NEW c \in Conns, BrowserWriterExit(c)
    PROVE CloseInv'
<1>1. Barriers' /\ StagedAhead'
      BY BatchKept DEF CloseInv, Active, BrowserWriterExit, SocketsAfterClose
<1>2. Shapes'
      BY ConnAssumption DEF CloseInv, Shapes, BrowserWriterExit, SocketsAfterClose
<1>3. LockHeld' /\ BeforeLogin' /\ Unnotified'
      BY ConnAssumption DEF CloseInv, Shapes, LockHeld, Usurping, BeforeLogin, Unnotified, BrowserWriterExit, SocketsAfterClose
<1>4. GoneFor'
      BY ConnAssumption DEF CloseInv, Shapes, GoneFor, BrowserWriterExit, SocketsAfterClose
<1>5. UnderWay'
      BY ConnAssumption DEF CloseInv, Shapes, LockHeld, Usurping, BeforeLogin, GoneFor, UnderWay, Pending, BrowserWriterExit, SocketsAfterClose
<1> QED BY <1>1, <1>2, <1>3, <1>4, <1>5 DEF CloseInv

\* Its teardown is over.
LEMMA BrowserWriterDoneKeeps ==
    ASSUME CloseInv, NEW c \in Conns, BrowserWriterDone(c)
    PROVE CloseInv'
<1>1. Barriers' /\ StagedAhead'
      BY BatchKept DEF CloseInv, Active, BrowserWriterDone
<1>2. Shapes'
      BY ConnAssumption DEF CloseInv, Shapes, BrowserWriterDone
<1>3. LockHeld' /\ BeforeLogin' /\ Unnotified'
      BY ConnAssumption DEF CloseInv, Shapes, LockHeld, Usurping, BeforeLogin, Unnotified, BrowserWriterDone
<1>4. GoneFor'
      BY ConnAssumption DEF CloseInv, Shapes, GoneFor, BrowserWriterDone
<1>5. UnderWay'
      BY ConnAssumption DEF CloseInv, Shapes, LockHeld, Usurping, BeforeLogin, GoneFor, UnderWay, Pending, BrowserWriterDone
<1> QED BY <1>1, <1>2, <1>3, <1>4, <1>5 DEF CloseInv

\* The teardown keeps a character in the game.
LEMMA DisconnectRetainKeeps ==
    ASSUME CloseInv, NEW c \in Conns, DisconnectRetain(c)
    PROVE CloseInv'
<1>1. Barriers' /\ StagedAhead'
      BY BatchKept DEF CloseInv, Active, DisconnectRetain
<1>2. Shapes'
      BY ConnAssumption DEF CloseInv, Shapes, DisconnectRetain
<1>3. LockHeld' /\ BeforeLogin' /\ Unnotified'
      BY ConnAssumption DEF CloseInv, Shapes, LockHeld, Usurping, BeforeLogin, Unnotified, DisconnectRetain
<1>4. GoneFor'
      BY ConnAssumption DEF CloseInv, Shapes, GoneFor, DisconnectRetain
<1>5. UnderWay'
      BY ConnAssumption DEF CloseInv, Shapes, LockHeld, Usurping, BeforeLogin, GoneFor, UnderWay, Pending, DisconnectRetain
<1> QED BY <1>1, <1>2, <1>3, <1>4, <1>5 DEF CloseInv

\* The teardown finds a connection that is being closed.
LEMMA DisconnectReleaseKeeps ==
    ASSUME CloseInv, NEW c \in Conns, DisconnectRelease(c)
    PROVE CloseInv'
<1>1. Barriers' /\ StagedAhead'
      BY BatchKept DEF CloseInv, Active, DisconnectRelease
<1>2. Shapes'
      BY ConnAssumption DEF CloseInv, Shapes, DisconnectRelease
<1>3. LockHeld' /\ BeforeLogin' /\ Unnotified'
      BY ConnAssumption DEF CloseInv, Shapes, LockHeld, Usurping, BeforeLogin, Unnotified, DisconnectRelease
<1>4. GoneFor'
      BY ConnAssumption DEF CloseInv, Shapes, GoneFor, DisconnectRelease
<1>5. UnderWay'
      BY ConnAssumption DEF CloseInv, Shapes, LockHeld, Usurping, BeforeLogin, GoneFor, UnderWay, Pending, DisconnectRelease
<1> QED BY <1>1, <1>2, <1>3, <1>4, <1>5 DEF CloseInv

\* It takes such a connection out of the registry.
LEMMA UnregisterKeeps ==
    ASSUME CloseInv, NEW c \in Conns, Unregister(c)
    PROVE CloseInv'
<1>1. c \in Conns /\ CloseSend(c) /\ UNCHANGED notice /\ (Active => Active')
      BY ConnAssumption DEF Active, CloseInv, Shapes, LockHeld, Unregister
<1>2. /\ frames' \in Seq(Frame) /\ closed' \subseteq Conns /\ closing' \subseteq Conns
      /\ closed \subseteq closed' /\ closed' \subseteq closed \cup {c}
      /\ closing \subseteq closing' /\ c \in closed' \cup closing'
      /\ Active => closed' = closed
      /\ Barriers' /\ StagedAhead'
      BY <1>1, CloseSendFacts DEF CloseInv
<1>3. Shapes'
      BY <1>1, <1>2, ConnAssumption DEF CloseInv, Shapes, Unregister
<1>4. LockHeld' /\ BeforeLogin' /\ Unnotified'
      BY <1>1, <1>2, ConnAssumption DEF CloseInv, Shapes, LockHeld, Usurping, BeforeLogin, Unnotified, Unregister
<1>5. GoneFor'
      BY <1>1, <1>2, ConnAssumption DEF CloseInv, Shapes, GoneFor, Unregister
<1>6. UnderWay'
      BY <1>1, <1>2, ConnAssumption DEF CloseInv, Shapes, LockHeld, Usurping, BeforeLogin, GoneFor, UnderWay, Pending, Unregister
<1> QED BY <1>2, <1>3, <1>4, <1>5, <1>6 DEF CloseInv

\* The reader ends and its socket is closed.
LEMMA ReaderDoneKeeps ==
    ASSUME CloseInv, NEW c \in Conns, ReaderDone(c)
    PROVE CloseInv'
<1>1. Barriers' /\ StagedAhead'
      BY BatchKept DEF CloseInv, Active, ReaderDone, SocketsAfterClose
<1>2. Shapes'
      BY ConnAssumption DEF CloseInv, Shapes, ReaderDone, SocketsAfterClose
<1>3. LockHeld' /\ BeforeLogin' /\ Unnotified'
      BY ConnAssumption DEF CloseInv, Shapes, LockHeld, Usurping, BeforeLogin, Unnotified, ReaderDone, SocketsAfterClose
<1>4. GoneFor'
      BY ConnAssumption DEF CloseInv, Shapes, GoneFor, ReaderDone, SocketsAfterClose
<1>5. UnderWay'
      BY ConnAssumption DEF CloseInv, Shapes, LockHeld, Usurping, BeforeLogin, GoneFor, UnderWay, Pending, ReaderDone, SocketsAfterClose
<1> QED BY <1>1, <1>2, <1>3, <1>4, <1>5 DEF CloseInv

\* The peer goes away.
LEMMA PeerGoneKeeps ==
    ASSUME CloseInv, NEW c \in Conns, PeerGone(c)
    PROVE CloseInv'
<1>1. Barriers' /\ StagedAhead'
      BY BatchKept DEF CloseInv, Active, PeerGone
<1>2. Shapes'
      BY ConnAssumption DEF CloseInv, Shapes, PeerGone
<1>3. LockHeld' /\ BeforeLogin' /\ Unnotified'
      BY ConnAssumption DEF CloseInv, Shapes, LockHeld, Usurping, BeforeLogin, Unnotified, PeerGone
<1>4. GoneFor'
      BY ConnAssumption DEF CloseInv, Shapes, GoneFor, PeerGone
<1>5. UnderWay'
      BY ConnAssumption DEF CloseInv, Shapes, LockHeld, Usurping, BeforeLogin, GoneFor, UnderWay, Pending, PeerGone
<1> QED BY <1>1, <1>2, <1>3, <1>4, <1>5 DEF CloseInv

\* An administrator closes a connection.
LEMMA KickKeeps ==
    ASSUME CloseInv, Kick
    PROVE CloseInv'
<1>1. holder \in Conns /\ CloseSend(holder) /\ UNCHANGED notice /\ (Active => Active')
      BY ConnAssumption DEF Active, CloseInv, Shapes, LockHeld, Kick
<1>2. /\ frames' \in Seq(Frame) /\ closed' \subseteq Conns /\ closing' \subseteq Conns
      /\ closed \subseteq closed' /\ closed' \subseteq closed \cup {holder}
      /\ closing \subseteq closing' /\ holder \in closed' \cup closing'
      /\ Active => closed' = closed
      /\ Barriers' /\ StagedAhead'
      BY <1>1, CloseSendFacts DEF CloseInv
<1>3. Shapes'
      BY <1>1, <1>2, ConnAssumption DEF CloseInv, Shapes, Kick
<1>4. LockHeld' /\ BeforeLogin' /\ Unnotified'
      BY <1>1, <1>2, ConnAssumption DEF CloseInv, Shapes, LockHeld, Usurping, BeforeLogin, Unnotified, Kick
<1>5. GoneFor'
      BY <1>1, <1>2, ConnAssumption DEF CloseInv, Shapes, GoneFor, Kick
<1>6. UnderWay'
      BY <1>1, <1>2, ConnAssumption DEF CloseInv, Shapes, LockHeld, Usurping, BeforeLogin, GoneFor, UnderWay, Pending, Kick
<1> QED BY <1>2, <1>3, <1>4, <1>5, <1>6 DEF CloseInv

-----------------------------------------------------------------------------
(* The heartbeat *)

\* A turn begins with no batch.
LEMMA BeginTurnKeeps ==
    ASSUME CloseInv, BeginTurn
    PROVE CloseInv'
<1>1. Barriers' /\ StagedAhead'
      BY BatchKept DEF CloseInv, Active, BeginTurn
<1>2. Shapes'
      BY ConnAssumption DEF CloseInv, Shapes, BeginTurn
<1>3. LockHeld' /\ BeforeLogin' /\ Unnotified'
      BY ConnAssumption DEF CloseInv, Shapes, LockHeld, Usurping, BeforeLogin, Unnotified, BeginTurn
<1>4. GoneFor'
      BY ConnAssumption DEF CloseInv, Shapes, GoneFor, BeginTurn
<1>5. UnderWay'
      BY ConnAssumption DEF CloseInv, Shapes, LockHeld, Usurping, BeforeLogin, GoneFor, UnderWay, Pending, BeginTurn
<1> QED BY <1>1, <1>2, <1>3, <1>4, <1>5 DEF CloseInv

\* A turn goes on.
LEMMA TurnGoesOnKeeps ==
    ASSUME CloseInv, TurnGoesOn
    PROVE CloseInv'
<1>1. Barriers' /\ StagedAhead'
      BY BatchKept DEF CloseInv, Active, TurnGoesOn
<1>2. Shapes'
      BY ConnAssumption DEF CloseInv, Shapes, TurnGoesOn
<1>3. LockHeld' /\ BeforeLogin' /\ Unnotified'
      BY ConnAssumption DEF CloseInv, Shapes, LockHeld, Usurping, BeforeLogin, Unnotified, TurnGoesOn
<1>4. GoneFor'
      BY ConnAssumption DEF CloseInv, Shapes, GoneFor, TurnGoesOn
<1>5. UnderWay'
      BY ConnAssumption DEF CloseInv, Shapes, LockHeld, Usurping, BeforeLogin, GoneFor, UnderWay, Pending, TurnGoesOn
<1> QED BY <1>1, <1>2, <1>3, <1>4, <1>5 DEF CloseInv

\* The extraction sweep retires a linkdead owner.
LEMMA ExtractKeeps ==
    ASSUME CloseInv, Extract
    PROVE CloseInv'
<1>1. /\ lock = NoConn /\ Active /\ Active'
      /\ turn' = "swept" /\ holder' \in {holder, NoConn}
      /\ UNCHANGED <<lock, rd, wr, old, tear, detached, superseded, sock, away, notice>>
      BY DEF Extract, Active
<1>2. CASE UNCHANGED <<closed, frames, closing>>
  <2>1. Barriers' /\ StagedAhead'
        BY <1>1, <1>2, BatchKept DEF CloseInv
  <2>2. Shapes'
        BY <1>1, <1>2 DEF CloseInv, Shapes
  <2>3. LockHeld' /\ BeforeLogin' /\ Unnotified'
        BY <1>1 DEF CloseInv, LockHeld, BeforeLogin, Unnotified
  <2>4. GoneFor' /\ UnderWay'
        BY <1>1, <1>2 DEF CloseInv, GoneFor, UnderWay, Pending
  <2> QED BY <2>1, <2>2, <2>3, <2>4 DEF CloseInv
<1>3. CASE holder \in Conns /\ CloseSend(holder)
  <2>1. /\ frames' \in Seq(Frame) /\ closing' \subseteq Conns
        /\ closing \subseteq closing' /\ closed' = closed
        /\ Barriers' /\ StagedAhead'
        BY <1>1, <1>3, CloseSendFacts DEF CloseInv
  <2>2. Shapes'
        BY <1>1, <2>1 DEF CloseInv, Shapes
  <2>3. LockHeld' /\ BeforeLogin' /\ Unnotified'
        BY <1>1 DEF CloseInv, LockHeld, BeforeLogin, Unnotified
  <2>4. GoneFor' /\ UnderWay'
        BY <1>1, <2>1 DEF CloseInv, GoneFor, UnderWay, Pending
  <2> QED BY <2>1, <2>2, <2>3, <2>4 DEF CloseInv
<1> QED BY <1>2, <1>3 DEF CloseInv, Shapes, Extract

\* The idle sweep closes who is not being taken over.
LEMMA IdleCloseKeeps ==
    ASSUME CloseInv, IdleClose
    PROVE CloseInv'
<1>1. Barriers' /\ StagedAhead'
      BY BatchKept DEF CloseInv, Active, IdleClose, Connected
<1>2. Shapes'
      BY ConnAssumption DEF CloseInv, Shapes, IdleClose, Connected
<1>3. LockHeld' /\ BeforeLogin' /\ Unnotified'
      BY ConnAssumption DEF CloseInv, Shapes, LockHeld, Usurping, BeforeLogin, Unnotified, IdleClose, Connected
<1>4. GoneFor'
      BY ConnAssumption DEF CloseInv, Shapes, GoneFor, IdleClose, Connected
<1>5. UnderWay'
      BY ConnAssumption DEF CloseInv, Shapes, LockHeld, Usurping, BeforeLogin, GoneFor, UnderWay, Pending, IdleClose, Connected
<1> QED BY <1>1, <1>2, <1>3, <1>4, <1>5 DEF CloseInv

\* The first frame is delivered: a close, or a notice whose channel is still open.
LEMMA CommitKeeps ==
    ASSUME CloseInv, Commit
    PROVE CloseInv'
<1> DEFINE f == Head(frames)
<1>1. /\ frames \in Seq(Frame) /\ frames # <<>> /\ frames' = Tail(frames)
      /\ turn = "commit" /\ Active /\ Active'
      /\ UNCHANGED <<lock, holder, rd, wr, old, tear, detached, superseded, sock, away, turn,
                     closing>>
      BY DEF CloseInv, Shapes, Commit, Active
<1>2. /\ frames' \in Seq(Frame) /\ f = frames[1] /\ f \in Frame
      /\ Len(frames) \in Nat \ {0} /\ Len(frames') = Len(frames) - 1
      /\ \A i \in 1..Len(frames') : frames'[i] = frames[i + 1]
      BY <1>1, TailFacts
<1>3. f.conn \in Conns /\ f.close \in BOOLEAN
      BY <1>2 DEF Frame
<1>4. CASE f.close
  <2>1. closed' = closed \cup {f.conn} /\ notice' = notice
        BY <1>4 DEF Commit
  <2> HIDE DEF f
  <2>2. ~(notice[f.conn] = "staged")
    <3> SUFFICES ASSUME notice[f.conn] = "staged" PROVE FALSE
        OBVIOUS
    <3>1. PICK i \in 1..Len(frames) :
            \A j \in 1..Len(frames) : frames[j].conn = f.conn /\ frames[j].close => i < j
          BY <1>3 DEF CloseInv, StagedAhead
    <3> QED BY <1>2, <1>4, <3>1
  <2>3. Barriers'
    <3>1. ASSUME NEW c \in closing', c \notin closed'
          PROVE \E i \in 1..Len(frames') : frames'[i].conn = c /\ frames'[i].close
      <4>1. PICK i \in 1..Len(frames) : frames[i].conn = c /\ frames[i].close
            BY <1>1, <2>1, <3>1 DEF CloseInv, Barriers
      <4>2. i # 1
            BY <1>2, <2>1, <3>1, <4>1
      <4>3. i - 1 \in 1..Len(frames') /\ frames'[i - 1] = frames[i]
            BY <1>2, <4>2
      <4> QED BY <4>1, <4>3
    <3>2. \A i \in 1..Len(frames') : frames'[i].close => frames'[i].conn \in closing'
          BY <1>1, <1>2 DEF CloseInv, Barriers
    <3>3. ASSUME NEW i \in 1..Len(frames'), NEW j \in 1..Len(frames'),
                 frames'[i].close = frames'[j].close, frames'[i].conn = frames'[j].conn
          PROVE i = j
      <4>1. i + 1 \in 1..Len(frames) /\ j + 1 \in 1..Len(frames)
            BY <1>2
      <4>2. i + 1 = j + 1
            BY <1>2, <3>3, <4>1 DEF CloseInv, Barriers
      <4> QED BY <4>2
    <3> QED BY <1>1, <3>1, <3>2, <3>3 DEF Barriers
  <2>4. StagedAhead'
    <3>1. \A i \in 1..Len(frames') : ~frames'[i].close => notice'[frames'[i].conn] = "staged"
          BY <1>2, <2>1 DEF CloseInv, StagedAhead
    <3>2. ASSUME NEW c \in Conns, notice'[c] = "staged"
          PROVE \E i \in 1..Len(frames') :
              /\ frames'[i].conn = c /\ ~frames'[i].close
              /\ \A j \in 1..Len(frames') : frames'[j].conn = c /\ frames'[j].close => i < j
      <4>1. PICK i \in 1..Len(frames) :
              /\ frames[i].conn = c /\ ~frames[i].close
              /\ \A j \in 1..Len(frames) : frames[j].conn = c /\ frames[j].close => i < j
            BY <2>1, <3>2 DEF CloseInv, StagedAhead
      <4>2. i # 1
            BY <1>2, <1>4, <4>1
      <4>3. i - 1 \in 1..Len(frames') /\ frames'[i - 1] = frames[i]
            BY <1>2, <4>2
      <4>4. \A j \in 1..Len(frames') : frames'[j].conn = c /\ frames'[j].close => i - 1 < j
            BY <1>2, <4>1
      <4> QED BY <4>1, <4>3, <4>4
    <3> QED BY <3>1, <3>2 DEF StagedAhead
  <2>5. Shapes'
        BY <1>1, <1>2, <1>3, <2>1 DEF CloseInv, Shapes
  <2>6. LockHeld' /\ BeforeLogin' /\ Unnotified'
        BY <1>1, <2>1 DEF CloseInv, LockHeld, BeforeLogin, Unnotified
  <2>7. GoneFor' /\ UnderWay'
        BY <1>1, <2>1, <2>2 DEF CloseInv, GoneFor, UnderWay, Pending
  <2> QED BY <2>3, <2>4, <2>5, <2>6, <2>7 DEF CloseInv
<1>5. CASE ~f.close
  <2>1. PICK n \in {"lost", "queued"} :
          /\ notice' = [notice EXCEPT ![f.conn] = n]
          /\ n = "lost" <=> f.conn \in closed
        BY <1>5 DEF Commit
  <2>2. closed' = closed
        BY <1>5 DEF Commit
  <2> HIDE DEF f
  <2>3. notice[f.conn] = "staged" /\ f.conn \in superseded
    <3>1. notice[f.conn] = "staged"
          BY <1>2, <1>5 DEF CloseInv, StagedAhead
    <3> QED BY <1>3, <3>1 DEF CloseInv, BeforeLogin
  <2>4. /\ notice'[f.conn] = n /\ \A c \in Conns : c # f.conn => notice'[c] = notice[c]
        /\ notice' \in [Conns -> {"none", "staged", "queued", "written", "lost"}]
        BY <1>3, <2>1 DEF CloseInv, Shapes
  <2>5. n = "lost" => f.conn \in away
        BY <1>3, <2>1, <2>3 DEF CloseInv, UnderWay, Pending
  <2>6. Barriers'
    <3>1. ASSUME NEW c \in closing', c \notin closed'
          PROVE \E i \in 1..Len(frames') : frames'[i].conn = c /\ frames'[i].close
      <4>1. PICK i \in 1..Len(frames) : frames[i].conn = c /\ frames[i].close
            BY <1>1, <2>2, <3>1 DEF CloseInv, Barriers
      <4>2. i # 1
            BY <1>2, <1>5, <4>1
      <4>3. i - 1 \in 1..Len(frames') /\ frames'[i - 1] = frames[i]
            BY <1>2, <4>2
      <4> QED BY <4>1, <4>3
    <3>2. \A i \in 1..Len(frames') : frames'[i].close => frames'[i].conn \in closing'
          BY <1>1, <1>2 DEF CloseInv, Barriers
    <3>3. ASSUME NEW i \in 1..Len(frames'), NEW j \in 1..Len(frames'),
                 frames'[i].close = frames'[j].close, frames'[i].conn = frames'[j].conn
          PROVE i = j
      <4>1. i + 1 \in 1..Len(frames) /\ j + 1 \in 1..Len(frames)
            BY <1>2
      <4>2. i + 1 = j + 1
            BY <1>2, <3>3, <4>1 DEF CloseInv, Barriers
      <4> QED BY <4>2
    <3> QED BY <1>1, <3>1, <3>2, <3>3 DEF Barriers
  <2>7. StagedAhead'
    <3>1. ASSUME NEW i \in 1..Len(frames'), ~frames'[i].close
          PROVE notice'[frames'[i].conn] = "staged"
      <4>1. i + 1 \in 1..Len(frames) /\ 1 \in 1..Len(frames) /\ frames'[i] = frames[i + 1]
            /\ frames[i + 1] \in Frame /\ i + 1 # 1
            BY <1>1, <1>2
      <4>2. frames[i + 1].conn \in Conns
            BY <4>1 DEF Frame
      <4>3. frames[i + 1].close = f.close
            BY <1>3, <1>5, <3>1, <4>1 DEF Frame
      <4>4. frames[i + 1].conn # f.conn
            BY <1>2, <4>1, <4>3 DEF CloseInv, Barriers
      <4> QED BY <2>4, <3>1, <4>1, <4>2, <4>4 DEF CloseInv, StagedAhead
    <3>2. ASSUME NEW c \in Conns, notice'[c] = "staged"
          PROVE \E i \in 1..Len(frames') :
              /\ frames'[i].conn = c /\ ~frames'[i].close
              /\ \A j \in 1..Len(frames') : frames'[j].conn = c /\ frames'[j].close => i < j
      <4>0. c # f.conn /\ notice[c] = "staged"
            BY <2>4, <3>2
      <4>1. PICK i \in 1..Len(frames) :
              /\ frames[i].conn = c /\ ~frames[i].close
              /\ \A j \in 1..Len(frames) : frames[j].conn = c /\ frames[j].close => i < j
            BY <4>0 DEF CloseInv, StagedAhead
      <4>2. i # 1
            BY <1>2, <4>0, <4>1
      <4>3. i - 1 \in 1..Len(frames') /\ frames'[i - 1] = frames[i]
            BY <1>2, <4>2
      <4>4. \A j \in 1..Len(frames') : frames'[j].conn = c /\ frames'[j].close => i - 1 < j
            BY <1>2, <4>1
      <4> QED BY <4>1, <4>3, <4>4
    <3> QED BY <3>1, <3>2 DEF StagedAhead
  <2>8. Shapes'
        BY <1>1, <1>2, <2>2, <2>4 DEF CloseInv, Shapes
  <2>9. LockHeld' /\ BeforeLogin'
        BY <1>1, <1>3, <2>3, <2>4 DEF CloseInv, LockHeld, BeforeLogin
  <2>10. Unnotified'
        BY <1>1, <1>3, <2>3, <2>4, ConnAssumption DEF CloseInv, Shapes, LockHeld, Usurping, Unnotified
  <2>11. GoneFor' /\ UnderWay'
        BY <1>1, <1>3, <2>2, <2>3, <2>4, <2>5 DEF CloseInv, GoneFor, UnderWay, Pending
  <2> QED BY <2>6, <2>7, <2>8, <2>9, <2>10, <2>11 DEF CloseInv
<1> QED BY <1>3, <1>4, <1>5

\* The batch is delivered.
LEMMA CommittedKeeps ==
    ASSUME CloseInv, Committed
    PROVE CloseInv'
<1>1. Barriers' /\ StagedAhead'
  <2>1. frames = <<>> /\ frames' = <<>> /\ closing' = {} /\ notice' = notice /\ Len(frames) = 0
        BY DEF Committed
  <2> QED BY <2>1 DEF CloseInv, Barriers, StagedAhead
<1>2. Shapes'
      BY ConnAssumption DEF CloseInv, Shapes, Committed
<1>3. LockHeld' /\ BeforeLogin' /\ Unnotified'
      BY ConnAssumption DEF CloseInv, Shapes, LockHeld, Usurping, BeforeLogin, Unnotified, Committed
<1>4. closing \subseteq closed
      BY DEF CloseInv, Barriers, Committed
<1>5. GoneFor'
      BY <1>4 DEF CloseInv, Shapes, GoneFor, Committed
<1>6. UnderWay'
      BY ConnAssumption DEF CloseInv, Shapes, LockHeld, Usurping, BeforeLogin, GoneFor, UnderWay, Pending, Committed
<1> QED BY <1>1, <1>2, <1>3, <1>5, <1>6 DEF CloseInv

-----------------------------------------------------------------------------
(* The theorems *)

\* The server starts with no connection logged in and nothing staged.
LEMMA CloseInvInit == Init => CloseInv
<1> SUFFICES ASSUME Init PROVE CloseInv
    OBVIOUS
<1>1. frames = <<>> /\ frames \in Seq(Frame) /\ Len(frames) = 0
      BY DEF Init
<1>2. Shapes /\ LockHeld /\ BeforeLogin /\ Unnotified
      BY ConnAssumption DEF Init, Shapes, LockHeld, Usurping, BeforeLogin, Unnotified
<1>3. Barriers /\ StagedAhead
      BY <1>1 DEF Init, Barriers, StagedAhead, Active
<1>4. GoneFor /\ UnderWay
      BY DEF Init, GoneFor, UnderWay, Pending
<1> QED BY <1>2, <1>3, <1>4 DEF CloseInv

\* Each step of Next has its lemma above.
LEMMA CloseInvNext == CloseInv /\ [Next]_vars => CloseInv'
<1> SUFFICES ASSUME CloseInv, [Next]_vars PROVE CloseInv'
    OBVIOUS
<1>1. ASSUME NEW c \in Conns, Login(c) PROVE CloseInv'
      BY <1>1, DupeCheckFreeKeeps, DupeCheckLinkdeadKeeps, DupeCheckUsurpKeeps, NotifyKeeps,
         CloseOldKeeps, DrainKeeps DEF Login
<1>2. ASSUME NEW c \in Conns, Reader(c) \/ Writer(c) PROVE CloseInv'
      BY <1>2, LeaveReadLoopKeeps, ReaderDoneKeeps, WriteNoticeKeeps, TelnetWriterExitKeeps,
         BrowserWriterExitKeeps, BrowserWriterDoneKeeps DEF Reader, Writer
<1>3. ASSUME NEW c \in Conns, Teardown(c) PROVE CloseInv'
      BY <1>3, DisconnectRetainKeeps, DisconnectReleaseKeeps, UnregisterKeeps DEF Teardown
<1>4. CASE TurnStep
      BY <1>4, TurnGoesOnKeeps, ExtractKeeps, IdleCloseKeeps, CommitKeeps, CommittedKeeps
         DEF TurnStep
<1>5. CASE UNCHANGED vars
  <2>1. Barriers' /\ StagedAhead'
        BY <1>5, BatchKept DEF CloseInv, vars, Active
  <2>2. Shapes' /\ LockHeld' /\ BeforeLogin' /\ Unnotified'
        BY <1>5 DEF CloseInv, vars, Shapes, LockHeld, BeforeLogin, Unnotified
  <2>3. GoneFor' /\ UnderWay'
        BY <1>5 DEF CloseInv, vars, GoneFor, UnderWay, Pending
  <2> QED BY <2>1, <2>2, <2>3 DEF CloseInv
<1> QED BY <1>1, <1>2, <1>3, <1>4, <1>5, PeerGoneKeeps, KickKeeps, BeginTurnKeeps DEF Next

\* The two together make CloseInv an invariant.
LEMMA Closing == Spec => []CloseInv
BY CloseInvInit, CloseInvNext, PTL DEF Spec

\* The connections, the teardown, the lock and the batch keep their shape, and however
\* many callers close a connection in a turn the batch has one barrier for it.
THEOREM TransportTypes == Spec => []TransportTypeOK
<1>1. CloseInv => TransportTypeOK
  <2> SUFFICES ASSUME CloseInv PROVE TransportTypeOK
      OBVIOUS
  <2>1. \A i, j \in 1..Len(frames) : frames[i].close /\ frames[i] = frames[j] => i = j
        BY DEF CloseInv, Barriers
  <2> QED BY <2>1 DEF CloseInv, Shapes, TransportTypeOK
<1> QED BY <1>1, Closing, PTL

\* Whoever is taken over from is told before the server closes the socket.
THEOREM NoticeFirst == Spec => []NoticeBeforeClose
<1>1. CloseInv => NoticeBeforeClose
      BY DEF CloseInv, Shapes, UnderWay, Pending, NoticeBeforeClose
<1> QED BY <1>1, Closing, PTL
=============================================================================
