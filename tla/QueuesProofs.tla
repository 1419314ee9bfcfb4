------------------------------ MODULE QueuesProofs ------------------------------
(***************************************************************************)
(* Theorems about the two queues the heartbeat drains, for any number of    *)
(* lines, of commands in an alias and of places in the queue, of players,   *)
(* mobs and plans: a latched input queue stays empty and never exceeds its  *)
(* bound, lines run in the order they were typed, except one that the       *)
(* reader passed while the heartbeat had it in hand, no command runs twice; *)
(* a player that is busy has its event, and an event is in one place.       *)
(*                                                                         *)
(* The order follows from Ordered, which says of every two lines still to   *)
(* run, wherever they are, which one is first or that it was overtaken.     *)
(* That nothing runs twice follows from Once, the same for the commands of  *)
(* one line: in hand before queued, ascending, none of them run yet. Of     *)
(* events EInv says that the source of one is the player whose slot names   *)
(* it and that none is cancelled before it was created, and Apart that no   *)
(* two places have the same one.                                            *)
(***************************************************************************)
EXTENDS MCQueues, FiniteSetTheorems, TLAPS

-----------------------------------------------------------------------------
(* The order of typed lines *)

Items == [line : Lines, cmd : Nat]
InputShapes(ty, q, td, ov) ==
    /\ ty \in Nat /\ ov \subseteq Lines
    /\ q \in Seq(Items) /\ td \in [Runners -> Seq(Items)]
    /\ \A l \in LinesIn(q) : l <= ty
    /\ \A r \in Runners : \A l \in LinesIn(td[r]) : l <= ty

\* One goroutine works at one line at a time.
OneLine(s) == \A k, l \in LinesIn(s) : k = l

Before(k, l, ov) == k <= l \/ l \in ov
Sorted(s, ov) == \A i, j \in 1..Len(s) : i < j => Before(s[i].line, s[j].line, ov)
HeartbeatFirst(q, td, ov) ==
    \A k \in LinesIn(td["heartbeat"]), l \in LinesIn(q) : Before(k, l, ov)

\* A line the reader runs itself is the last one typed; all others were passed.
ReaderPassed(ty, q, td, ov) ==
    \A k \in LinesIn(td["reader"]) :
        /\ k = ty
        /\ \A l \in LinesIn(q) \cup LinesIn(td["heartbeat"]) : l \in ov /\ l < k

\* ty lines typed, q queued, td in the goroutines' hands, ov overtaken.
OrderOf(ty, q, td, ov) ==
    /\ InputShapes(ty, q, td, ov) /\ Sorted(q, ov)
    /\ HeartbeatFirst(q, td, ov) /\ ReaderPassed(ty, q, td, ov)
    /\ \A r \in Runners : OneLine(td[r])

Ordered == OrderOf(typed, queue, todo, overtaken) /\ ran = [l \in Lines |-> ran[l]]

-----------------------------------------------------------------------------
(* The lines of a sequence *)

\* The lines of a sequence, by place.
LEMMA LinesAt ==
    ASSUME NEW s \in Seq(Items), NEW l
    PROVE l \in LinesIn(s) <=> \E i \in 1..Len(s) : s[i].line = l
<1>1. DOMAIN s = 1..Len(s)
      OBVIOUS
<1> QED BY <1>1 DEF LinesIn

\* A sequence that is two others, one behind the other, has the lines of both.
LEMMA LinesOfBoth ==
    ASSUME NEW s \in Seq(Items), NEW t \in Seq(Items), NEW u \in Seq(Items),
           Len(u) = Len(s) + Len(t),
           \A i \in 1..Len(s) : u[i] = s[i],
           \A i \in 1..Len(t) : u[Len(s) + i] = t[i]
    PROVE LinesIn(u) = LinesIn(s) \cup LinesIn(t)
<1>1. Len(s) \in Nat /\ Len(t) \in Nat
      OBVIOUS
<1>2. ASSUME NEW l, l \in LinesIn(u) PROVE l \in LinesIn(s) \cup LinesIn(t)
  <2>1. PICK i \in 1..Len(u) : u[i].line = l BY <1>2, LinesAt
  <2>2. CASE i \in 1..Len(s) BY <2>1, <2>2, LinesAt
  <2>3. CASE i \notin 1..Len(s)
    <3>1. i - Len(s) \in 1..Len(t) /\ i = Len(s) + (i - Len(s)) BY <1>1, <2>3
    <3>2. t[i - Len(s)].line = l BY <2>1, <3>1
    <3> QED BY <3>1, <3>2, LinesAt
  <2> QED BY <2>2, <2>3
<1>3. ASSUME NEW l, l \in LinesIn(s) PROVE l \in LinesIn(u)
  <2>1. PICK i \in 1..Len(s) : s[i].line = l BY <1>3, LinesAt
  <2>2. i \in 1..(Len(s) + Len(t)) BY <1>1
  <2>3. u[i] = s[i] OBVIOUS
  <2>4. u[i].line = l BY <2>1, <2>3
  <2> QED BY <2>2, <2>4, LinesAt
<1>4. ASSUME NEW l, l \in LinesIn(t) PROVE l \in LinesIn(u)
  <2>1. PICK i \in 1..Len(t) : t[i].line = l BY <1>4, LinesAt
  <2>2. Len(s) + i \in 1..(Len(s) + Len(t)) BY <1>1
  <2>3. u[Len(s) + i] = t[i] OBVIOUS
  <2>4. u[Len(s) + i].line = l BY <2>1, <2>3
  <2> QED BY <2>2, <2>4, LinesAt
<1> QED BY <1>2, <1>3, <1>4

\* What the operations on sequences do to the lines in them.
LEMMA LinesFacts ==
    /\ LinesIn(<<>>) = {} /\ <<>> \in Seq(Items)
    /\ \A s \in Seq(Items) : LinesIn(s) \subseteq Lines
    /\ \A s \in Seq(Items), x \in Items :
          Append(s, x) \in Seq(Items) /\ LinesIn(Append(s, x)) = LinesIn(s) \cup {x.line}
    /\ \A s, t \in Seq(Items) : s \o t \in Seq(Items) /\ LinesIn(s \o t) = LinesIn(s) \cup LinesIn(t)
    /\ \A s \in Seq(Items) : s # <<>> =>
          /\ Head(s) \in Items /\ Tail(s) \in Seq(Items)
          /\ LinesIn(s) = {Head(s).line} \cup LinesIn(Tail(s))
<1>1. LinesIn(<<>>) = {} /\ <<>> \in Seq(Items)
      BY DEF LinesIn
<1>2. ASSUME NEW x \in Items PROVE <<x>> \in Seq(Items) /\ Len(<<x>>) = 1 /\ LinesIn(<<x>>) = {x.line}
      BY DEF LinesIn
<1>3. ASSUME NEW s \in Seq(Items) PROVE LinesIn(s) \subseteq Lines
  <2>1. \A i \in 1..Len(s) : s[i] \in Items OBVIOUS
  <2>2. \A l : l \in LinesIn(s) => \E i \in 1..Len(s) : s[i].line = l BY LinesAt
  <2>3. \A x \in Items : x.line \in Lines BY DEF Items
  <2> QED BY <2>1, <2>2, <2>3
<1>4. ASSUME NEW s \in Seq(Items), NEW x \in Items
      PROVE Append(s, x) \in Seq(Items) /\ LinesIn(Append(s, x)) = LinesIn(s) \cup {x.line}
  <2> DEFINE t == <<x>> u == Append(s, x)
  <2>1. /\ u \in Seq(Items) /\ Len(u) = Len(s) + 1
        /\ \A i \in 1..Len(s) : u[i] = s[i]
        /\ u[Len(s) + 1] = x
        OBVIOUS
  <2>2. t \in Seq(Items) /\ Len(t) = 1 /\ t[1] = x /\ LinesIn(t) = {x.line}
        BY <1>2
  <2> HIDE DEF t, u
  <2>3. Len(u) = Len(s) + Len(t) /\ \A i \in 1..Len(t) : u[Len(s) + i] = t[i]
        BY <2>1, <2>2
  <2>4. LinesIn(u) = LinesIn(s) \cup LinesIn(t)
        BY <2>1, <2>2, <2>3, LinesOfBoth
  <2> QED BY <2>1, <2>2, <2>4 DEF u
<1>5. ASSUME NEW s \in Seq(Items), NEW t \in Seq(Items)
      PROVE s \o t \in Seq(Items) /\ LinesIn(s \o t) = LinesIn(s) \cup LinesIn(t)
  <2>1. /\ s \o t \in Seq(Items) /\ Len(s \o t) = Len(s) + Len(t)
        /\ \A i \in 1..Len(s) : (s \o t)[i] = s[i]
        /\ \A i \in 1..Len(t) : (s \o t)[Len(s) + i] = t[i]
        OBVIOUS
  <2> QED BY <2>1, LinesOfBoth
<1>6. ASSUME NEW s \in Seq(Items), s # <<>>
      PROVE /\ Head(s) \in Items /\ Tail(s) \in Seq(Items)
            /\ LinesIn(s) = {Head(s).line} \cup LinesIn(Tail(s))
  <2> DEFINE h == <<Head(s)>> t == Tail(s)
  <2>1. /\ Head(s) = s[1] /\ Head(s) \in Items /\ t \in Seq(Items)
        /\ Len(s) \in Nat \ {0} /\ Len(t) = Len(s) - 1
        /\ \A i \in 1..(Len(s) - 1) : t[i] = s[i + 1]
        BY <1>6
  <2>2. h \in Seq(Items) /\ Len(h) = 1 /\ h[1] = s[1] /\ LinesIn(h) = {Head(s).line}
        BY <1>2, <2>1
  <2> HIDE DEF h, t
  <2>3. Len(s) = Len(h) + Len(t) /\ (\A i \in 1..Len(h) : s[i] = h[i])
        /\ \A i \in 1..Len(t) : s[Len(h) + i] = t[i]
        BY <2>1, <2>2
  <2>4. LinesIn(s) = LinesIn(h) \cup LinesIn(t)
        BY <2>1, <2>2, <2>3, LinesOfBoth
  <2> QED BY <2>1, <2>2, <2>4 DEF t
<1> QED BY <1>1, <1>3, <1>4, <1>5, <1>6

\* What a typed or a queued line expands to is of that line.
LEMMA ExpansionFacts ==
    ASSUME NEW x \in Items, NEW n \in 0..MaxParts
    PROVE Expansion(x, n) \in Seq(Items) /\ LinesIn(Expansion(x, n)) \subseteq {x.line}
<1>1. CASE x.cmd > 0
      BY <1>1 DEF Expansion, LinesIn
<1>2. CASE ~(x.cmd > 0)
  <2> DEFINE e == [i \in 1..n |-> [line |-> x.line, cmd |-> i]]
  <2>1. n \in Nat BY InputAssumption
  <2>2. \A i \in 1..n : [line |-> x.line, cmd |-> i] \in Items
        BY <2>1 DEF Items
  <2>3. e \in Seq(Items) BY <2>1, <2>2
  <2>4. \A i \in DOMAIN e : e[i].line = x.line OBVIOUS
  <2> HIDE DEF e
  <2>5. LinesIn(e) \subseteq {x.line} BY <2>4 DEF LinesIn
  <2> QED BY <1>2, <2>3, <2>5 DEF Expansion, e
<1> QED BY <1>1, <1>2

\* Two sorted sequences, the lines of the first before those of the second.
LEMMA SortedJoin ==
    ASSUME NEW ov, NEW s \in Seq(Items), NEW t \in Seq(Items), NEW u \in Seq(Items),
           Len(u) = Len(s) + Len(t),
           \A i \in 1..Len(s) : u[i] = s[i],
           \A i \in 1..Len(t) : u[Len(s) + i] = t[i],
           Sorted(s, ov), Sorted(t, ov),
           \A k \in LinesIn(s), l \in LinesIn(t) : Before(k, l, ov)
    PROVE Sorted(u, ov)
<1>1. Len(s) \in Nat /\ Len(t) \in Nat
      OBVIOUS
<1>2. SUFFICES ASSUME NEW i \in 1..Len(u), NEW j \in 1..Len(u), i < j
               PROVE Before(u[i].line, u[j].line, ov)
      BY DEF Sorted
<1>3. CASE j \in 1..Len(s)
  <2>1. i \in Nat /\ 1 <= i /\ i < j BY <1>1, <1>2
  <2>2. j \in Nat /\ j <= Len(s) BY <1>1, <1>3
  <2>3. i \in 1..Len(s) BY <1>1, <2>1, <2>2
  <2>4. u[i] = s[i] /\ u[j] = s[j] BY <1>3, <2>3
  <2>5. Before(s[i].line, s[j].line, ov) BY <1>2, <1>3, <2>3 DEF Sorted
  <2> QED BY <2>4, <2>5
<1>4. CASE i \notin 1..Len(s)
  <2>0. i \in Nat /\ j \in Nat /\ Len(s) < i /\ i < j /\ j <= Len(s) + Len(t)
        BY <1>1, <1>2, <1>4
  <2>1. /\ i - Len(s) \in 1..Len(t) /\ i = Len(s) + (i - Len(s))
        /\ j - Len(s) \in 1..Len(t) /\ j = Len(s) + (j - Len(s))
        /\ i - Len(s) < j - Len(s)
        BY <1>1, <2>0
  <2>2. u[Len(s) + (i - Len(s))] = t[i - Len(s)] /\ u[Len(s) + (j - Len(s))] = t[j - Len(s)]
        BY <2>1
  <2>3. u[i] = t[i - Len(s)] /\ u[j] = t[j - Len(s)]
        BY <2>1, <2>2
  <2>4. Before(t[i - Len(s)].line, t[j - Len(s)].line, ov)
        BY <2>1 DEF Sorted
  <2> QED BY <2>3, <2>4
<1>5. CASE i \in 1..Len(s) /\ j \notin 1..Len(s)
  <2>1. j - Len(s) \in 1..Len(t) /\ j = Len(s) + (j - Len(s))
        BY <1>1, <1>5
  <2>2. u[j] = t[j - Len(s)] /\ u[i] = s[i]
        BY <1>5, <2>1
  <2>3. u[i].line \in LinesIn(s) /\ u[j].line \in LinesIn(t)
        BY <1>5, <2>1, <2>2, LinesAt
  <2> QED BY <2>3
<1> QED BY <1>3, <1>4, <1>5

\* In particular one behind the other.
LEMMA SortedConcat ==
    ASSUME NEW ov, NEW s \in Seq(Items), NEW t \in Seq(Items),
           Sorted(s, ov), Sorted(t, ov),
           \A k \in LinesIn(s), l \in LinesIn(t) : Before(k, l, ov)
    PROVE Sorted(s \o t, ov)
<1> DEFINE u == s \o t
<1>1. /\ u \in Seq(Items) /\ Len(u) = Len(s) + Len(t)
      /\ \A i \in 1..Len(s) : u[i] = s[i]
      /\ \A i \in 1..Len(t) : u[Len(s) + i] = t[i]
      OBVIOUS
<1> HIDE DEF u
<1>2. Sorted(u, ov)
      BY <1>1, SortedJoin
<1> QED BY <1>2 DEF u

\* One line behind a sequence.
LEMMA SortedAppend ==
    ASSUME NEW ov, NEW s \in Seq(Items), NEW x \in Items, Sorted(s, ov),
           \A k \in LinesIn(s) : Before(k, x.line, ov)
    PROVE Sorted(Append(s, x), ov)
<1> DEFINE t == <<x>> u == Append(s, x)
<1>1. /\ u \in Seq(Items) /\ Len(u) = Len(s) + 1
      /\ \A i \in 1..Len(s) : u[i] = s[i]
      /\ u[Len(s) + 1] = x
      OBVIOUS
<1>2. t \in Seq(Items) /\ Len(t) = 1 /\ t[1] = x /\ LinesIn(t) = {x.line}
      BY DEF LinesIn
<1> HIDE DEF t, u
<1>3. \A i \in 1..Len(t) : u[Len(s) + i] = t[i]
      BY <1>1, <1>2
<1>4. Sorted(t, ov)
      BY <1>2 DEF Sorted
<1>5. \A k \in LinesIn(s), l \in LinesIn(t) : Before(k, l, ov)
      BY <1>2
<1>6. Sorted(u, ov)
      BY <1>1, <1>2, <1>3, <1>4, <1>5, SortedJoin
<1> QED BY <1>6 DEF u

\* A sequence of one line, or none, is sorted; and so is the rest of a sorted one,
\* after a head that is before it.
LEMMA SortedFacts ==
    ASSUME NEW ov PROVE
    /\ Sorted(<<>>, ov)
    /\ \A s \in Seq(Items) : (\A k, l \in LinesIn(s) : Before(k, l, ov)) => Sorted(s, ov)
    /\ \A s \in Seq(Items) : s # <<>> /\ Sorted(s, ov) =>
          Sorted(Tail(s), ov) /\ \A l \in LinesIn(Tail(s)) : Before(Head(s).line, l, ov)
<1>1. Sorted(<<>>, ov)
      BY DEF Sorted
<1>2. ASSUME NEW s \in Seq(Items), \A k, l \in LinesIn(s) : Before(k, l, ov) PROVE Sorted(s, ov)
  <2>1. \A i \in 1..Len(s) : s[i].line \in LinesIn(s) BY LinesAt
  <2> QED BY <1>2, <2>1 DEF Sorted
<1>3. ASSUME NEW s \in Seq(Items), s # <<>>, Sorted(s, ov)
      PROVE Sorted(Tail(s), ov) /\ \A l \in LinesIn(Tail(s)) : Before(Head(s).line, l, ov)
  <2> DEFINE t == Tail(s)
  <2>1. /\ Head(s) = s[1] /\ t \in Seq(Items) /\ Len(s) \in Nat \ {0} /\ Len(t) = Len(s) - 1
        /\ \A i \in 1..(Len(s) - 1) : t[i] = s[i + 1]
        BY <1>3
  <2> HIDE DEF t
  <2>2. \A i \in 1..Len(t) : i + 1 \in 1..Len(s) /\ t[i] = s[i + 1] /\ 1 < i + 1
        BY <2>1
  <2>3. Sorted(t, ov)
    <3> SUFFICES ASSUME NEW i \in 1..Len(t), NEW j \in 1..Len(t), i < j
                 PROVE Before(t[i].line, t[j].line, ov)
        BY DEF Sorted
    <3>1. i + 1 < j + 1 /\ i + 1 \in 1..Len(s) /\ j + 1 \in 1..Len(s)
          BY <2>1
    <3> QED BY <1>3, <2>2, <3>1 DEF Sorted
  <2>4. \A l \in LinesIn(t) : Before(Head(s).line, l, ov)
    <3> SUFFICES ASSUME NEW l \in LinesIn(t) PROVE Before(Head(s).line, l, ov)
        OBVIOUS
    <3>1. PICK i \in 1..Len(t) : t[i].line = l BY <2>1, LinesAt
    <3>2. 1 \in 1..Len(s) BY <2>1
    <3> QED BY <1>3, <2>1, <2>2, <3>1, <3>2 DEF Sorted
  <2> QED BY <2>3, <2>4 DEF t
<1> QED BY <1>1, <1>2, <1>3

-----------------------------------------------------------------------------
(* The order of the lines *)

\* At the start there are none.
LEMMA OrderedInit == InputInit => Ordered
<1> SUFFICES ASSUME InputInit PROVE Ordered
    OBVIOUS
<1>1. InputShapes(typed, queue, todo, overtaken)
      BY LinesFacts DEF InputInit, InputShapes, Runners
<1> QED BY <1>1, LinesFacts, SortedFacts
        DEF InputInit, Ordered, OrderOf, OrderOf, HeartbeatFirst, ReaderPassed, OneLine, Runners

\* A goroutine that goes on with its line, or ends it.
LEMMA WorkKeeps ==
    ASSUME Ordered, UNCHANGED <<typed, queue, overtaken>>,
           todo' \in [Runners -> Seq(Items)],
           \A r \in Runners : LinesIn(todo'[r]) \subseteq LinesIn(todo[r]),
           ran' = [l \in Lines |-> ran'[l]]
    PROVE Ordered'
<1>1. InputShapes(typed', queue', todo', overtaken')
      BY DEF Ordered, OrderOf, InputShapes
<1>2. Sorted(queue', overtaken')
      BY DEF Ordered, OrderOf, Sorted, Before
<1>3. "reader" \in Runners /\ "heartbeat" \in Runners
      BY DEF Runners
<1>4. HeartbeatFirst(queue', todo', overtaken')
      BY <1>3 DEF Ordered, OrderOf, HeartbeatFirst, Before
<1>5. ReaderPassed(typed', queue', todo', overtaken')
      BY <1>3 DEF Ordered, OrderOf, ReaderPassed
<1>6. \A r \in Runners : OneLine(todo'[r])
      BY DEF Ordered, OrderOf, OneLine
<1> QED BY <1>1, <1>2, <1>4, <1>5, <1>6 DEF Ordered, OrderOf

\* The facts of a state with a fresh line in the reader's hands.
LEMMA FreshLine ==
    ASSUME Ordered, typed < MaxLines
    PROVE /\ typed + 1 \in Lines /\ [line |-> typed + 1, cmd |-> 0] \in Items
          /\ \A l \in LinesIn(queue) : l < typed + 1 /\ l \in Lines
          /\ \A r \in Runners : LinesIn(todo[r]) \subseteq Lines
          /\ \A r \in Runners : \A l \in LinesIn(todo[r]) : l < typed + 1
<1>1. typed + 1 \in Lines /\ [line |-> typed + 1, cmd |-> 0] \in Items
      BY InputAssumption DEF Ordered, OrderOf, InputShapes, Lines, Items
<1>2. LinesIn(queue) \subseteq Lines /\ \A r \in Runners : LinesIn(todo[r]) \subseteq Lines
      BY LinesFacts DEF Ordered, OrderOf, InputShapes
<1>3. Lines \subseteq Nat
      BY InputAssumption DEF Lines
<1>4. \A l \in LinesIn(queue) : l < typed + 1
      BY <1>2, <1>3 DEF Ordered, OrderOf, InputShapes
<1>5. \A r \in Runners : \A l \in LinesIn(todo[r]) : l < typed + 1
      BY <1>2, <1>3 DEF Ordered, OrderOf, InputShapes
<1> QED BY <1>1, <1>2, <1>4, <1>5

\* The line is refused or dropped with the whole queue.
LEMMA RefuseKeeps ==
    ASSUME Ordered, typed < MaxLines, typed' = typed + 1, todo["reader"] = <<>>,
           queue' = queue \/ queue' = <<>>, UNCHANGED <<todo, overtaken, ran>>
    PROVE Ordered'
<1>1. queue' \in Seq(Items) /\ LinesIn(queue') \subseteq LinesIn(queue)
      BY LinesFacts DEF Ordered, OrderOf, InputShapes
<1>2. typed' \in Nat /\ \A l \in Nat : l <= typed => l <= typed'
      BY DEF Ordered, OrderOf, InputShapes
<1>3. Lines \subseteq Nat /\ LinesIn(queue) \subseteq Lines
      /\ \A r \in Runners : LinesIn(todo[r]) \subseteq Lines
      BY LinesFacts, InputAssumption DEF Ordered, OrderOf, InputShapes, Lines
<1>4. InputShapes(typed', queue', todo', overtaken')
      BY <1>1, <1>2, <1>3 DEF Ordered, OrderOf, InputShapes
<1>5. Sorted(queue', overtaken')
      BY SortedFacts DEF Ordered, OrderOf, Sorted, Before
<1>6. HeartbeatFirst(queue', todo', overtaken')
      BY <1>1 DEF Ordered, OrderOf, HeartbeatFirst, Before
<1>7. ReaderPassed(typed', queue', todo', overtaken')
      BY LinesFacts DEF ReaderPassed
<1>8. \A r \in Runners : OneLine(todo'[r])
      BY DEF Ordered, OrderOf, OneLine
<1> QED BY <1>4, <1>5, <1>6, <1>7, <1>8 DEF Ordered, OrderOf

\* The line goes behind all others.
LEMMA QueueLineKeeps ==
    ASSUME Ordered, typed < MaxLines, typed' = typed + 1, todo["reader"] = <<>>,
           queue' = Append(queue, [line |-> typed + 1, cmd |-> 0]),
           UNCHANGED <<todo, overtaken, ran>>
    PROVE Ordered'
<1> DEFINE x == [line |-> typed + 1, cmd |-> 0]
<1>1. /\ typed + 1 \in Lines /\ x \in Items /\ x.line = typed + 1
      /\ \A l \in LinesIn(queue) : l < typed + 1 /\ l \in Lines
      /\ \A r \in Runners : LinesIn(todo[r]) \subseteq Lines
      /\ \A r \in Runners : \A l \in LinesIn(todo[r]) : l < typed + 1
      BY FreshLine
<1>2. Lines \subseteq Nat
      BY InputAssumption DEF Lines
<1>3. OrderOf(typed, queue, todo, overtaken) /\ queue \in Seq(Items)
      BY DEF Ordered, OrderOf, InputShapes
<1>4. queue' = Append(queue, x)
      OBVIOUS
<1> HIDE DEF x
<1>5. queue' \in Seq(Items) /\ LinesIn(queue') = LinesIn(queue) \cup {typed + 1}
      BY <1>1, <1>3, <1>4, LinesFacts
<1>6. \A l \in Nat : l < typed + 1 => l <= typed + 1
      BY <1>1, <1>2
<1>7. \A k \in LinesIn(queue) : Before(k, x.line, overtaken)
      BY <1>1, <1>2, <1>6 DEF Before
<1>8. Sorted(queue', overtaken')
      BY <1>1, <1>3, <1>4, <1>7, SortedAppend DEF OrderOf
<1>9. \A r \in Runners : \A l \in LinesIn(todo[r]) : l <= typed + 1
      BY <1>1, <1>2, <1>6
<1>10. InputShapes(typed', queue', todo', overtaken')
  <2>1. \A l \in LinesIn(queue) : l <= typed + 1
        BY <1>1, <1>2, <1>6
  <2>0. typed + 1 \in Nat
        BY <1>1, <1>2
  <2>2. typed' = typed + 1 /\ typed + 1 <= typed + 1
        BY <2>0
  <2>3. \A l \in LinesIn(queue') : l <= typed'
        BY <1>5, <2>1, <2>2
  <2> QED BY <1>1, <1>2, <1>3, <1>5, <1>9, <2>2, <2>3 DEF OrderOf, InputShapes
<1>11. HeartbeatFirst(queue', todo', overtaken')
      BY <1>3, <1>5, <1>9 DEF OrderOf, HeartbeatFirst, Before, Runners
<1>12. ReaderPassed(typed', queue', todo', overtaken')
      BY LinesFacts DEF ReaderPassed
<1>13. \A r \in Runners : OneLine(todo'[r])
      BY <1>3 DEF OrderOf
<1> QED BY <1>8, <1>10, <1>11, <1>12, <1>13 DEF Ordered, OrderOf

\* The reader runs it at once: nothing is queued, and what the heartbeat has is passed.
LEMMA RunLineKeeps ==
    ASSUME Ordered, typed < MaxLines, typed' = typed + 1, queue = <<>>, queue' = <<>>,
           NEW n \in 0..MaxParts,
           todo' = [todo EXCEPT !["reader"] = Expansion([line |-> typed + 1, cmd |-> 0], n)],
           overtaken' = overtaken \cup LinesIn(todo["heartbeat"]), UNCHANGED ran
    PROVE Ordered'
<1> DEFINE x == [line |-> typed + 1, cmd |-> 0]
           e == Expansion(x, n)
<1>1. "reader" \in Runners /\ "heartbeat" \in Runners /\ "reader" # "heartbeat"
      BY DEF Runners
<1>2. e \in Seq(Items) /\ LinesIn(e) \subseteq {typed + 1}
      BY FreshLine, ExpansionFacts
<1> HIDE DEF e
<1>3. todo' \in [Runners -> Seq(Items)] /\ todo'["reader"] = e
      /\ todo'["heartbeat"] = todo["heartbeat"]
      BY <1>1, <1>2 DEF e, Ordered, OrderOf, InputShapes
<1>4. \A r \in Runners : r = "reader" \/ r = "heartbeat"
      BY DEF Runners
<1>5. typed' \in Nat /\ Lines \subseteq Nat /\ \A l \in Nat : l < typed + 1 => l <= typed'
      BY InputAssumption DEF Ordered, OrderOf, InputShapes, Lines
<1>6. LinesIn(queue') = {} /\ queue' \in Seq(Items)
      BY LinesFacts
<1>7. overtaken' \subseteq Lines
      BY <1>1, FreshLine DEF Ordered, OrderOf, InputShapes
<1>8. \A r \in Runners : \A l \in LinesIn(todo'[r]) : l <= typed'
  <2>1. \A l \in LinesIn(e) : l <= typed'
        BY <1>2, <1>5
  <2>2. \A l \in LinesIn(todo["heartbeat"]) : l < typed + 1 /\ l \in Lines
        BY <1>1, FreshLine
  <2>3. \A l \in LinesIn(todo["heartbeat"]) : l <= typed'
        BY <1>5, <2>2
  <2> QED BY <1>3, <1>4, <2>1, <2>3
<1>9. InputShapes(typed', queue', todo', overtaken')
      BY <1>3, <1>5, <1>6, <1>7, <1>8 DEF Ordered, OrderOf, InputShapes
<1>10. ReaderPassed(typed', queue', todo', overtaken')
      BY <1>1, <1>2, <1>3, <1>6, FreshLine DEF ReaderPassed
<1>11. Sorted(queue', overtaken') /\ HeartbeatFirst(queue', todo', overtaken')
      BY <1>6 DEF Sorted, HeartbeatFirst
<1>12. \A r \in Runners : OneLine(todo'[r])
      BY <1>2, <1>3, <1>4 DEF Ordered, OrderOf, OneLine
<1> QED BY <1>9, <1>10, <1>11, <1>12 DEF Ordered, OrderOf

\* Whatever becomes of a line that arrives.
LEMMA TypeLineKeeps ==
    ASSUME Ordered, TypeLine
    PROVE Ordered'
<1>1. typed < MaxLines /\ typed' = typed + 1 /\ todo["reader"] = <<>> /\ UNCHANGED ran
      BY DEF TypeLine
<1>2. CASE overflow
      BY <1>1, <1>2, RefuseKeeps DEF TypeLine
<1>3. CASE ~overflow /\ MustQueue
      BY <1>1, <1>3, RefuseKeeps, QueueLineKeeps DEF TypeLine, Overflow
<1>4. CASE ~overflow /\ ~MustQueue
  <2>1. queue = <<>> BY <1>4 DEF MustQueue
  <2> QED BY <1>1, <1>4, <2>1, RunLineKeeps DEF TypeLine
<1> QED BY <1>2, <1>3, <1>4

\* The heartbeat takes the first of the queue.
LEMMA DrainKeeps ==
    ASSUME Ordered, Drain
    PROVE Ordered'
<1>1. todo["heartbeat"] = <<>> /\ UNCHANGED <<typed, overtaken, ran>>
      BY DEF Drain
<1>2. CASE UNCHANGED <<todo, queue>>
      BY <1>1, <1>2, WorkKeeps DEF Ordered, OrderOf, InputShapes
<1>3. ASSUME NEW n \in 0..MaxParts, queue # <<>>, queue' = Tail(queue),
             todo' = [todo EXCEPT !["heartbeat"] = Expansion(Head(queue), n)]
      PROVE Ordered'
  <2> DEFINE h == Head(queue) t == Tail(queue) e == Expansion(h, n)
  <2>1. h \in Items /\ t \in Seq(Items) /\ LinesIn(queue) = {h.line} \cup LinesIn(t)
        BY <1>3, LinesFacts DEF Ordered, OrderOf, InputShapes
  <2>2. e \in Seq(Items) /\ LinesIn(e) \subseteq {h.line}
        BY <2>1, ExpansionFacts
  <2>3. Sorted(t, overtaken) /\ \A l \in LinesIn(t) : Before(h.line, l, overtaken)
        BY <1>3, SortedFacts DEF Ordered, OrderOf, InputShapes
  <2> HIDE DEF h, t, e
  <2>4. "reader" \in Runners /\ "heartbeat" \in Runners /\ "reader" # "heartbeat"
        /\ \A r \in Runners : r = "reader" \/ r = "heartbeat"
        BY DEF Runners
  <2>5. queue' = t /\ todo' \in [Runners -> Seq(Items)] /\ todo'["heartbeat"] = e
        /\ todo'["reader"] = todo["reader"]
        BY <1>3, <2>2, <2>4 DEF h, t, e, Ordered, OrderOf, InputShapes
  <2>6. InputShapes(typed', queue', todo', overtaken')
        BY <1>1, <2>1, <2>2, <2>4, <2>5 DEF Ordered, OrderOf, InputShapes
  <2>7. Sorted(queue', overtaken') /\ HeartbeatFirst(queue', todo', overtaken')
        BY <1>1, <2>2, <2>3, <2>5 DEF Sorted, HeartbeatFirst, Before
  <2>8. ReaderPassed(typed', queue', todo', overtaken')
        BY <1>1, <2>1, <2>2, <2>5 DEF Ordered, OrderOf, ReaderPassed
  <2>9. \A r \in Runners : OneLine(todo'[r])
    <3>1. OneLine(e) BY <2>2 DEF OneLine
    <3>2. OneLine(todo["reader"]) BY <2>4 DEF Ordered, OrderOf
    <3> QED BY <2>4, <2>5, <3>1, <3>2
  <2> QED BY <2>6, <2>7, <2>8, <2>9, <1>1 DEF Ordered, OrderOf
<1> QED BY <1>2, <1>3 DEF Drain

\* A command of a goroutine's line.
LEMMA RunKeeps ==
    ASSUME Ordered, NEW r \in Runners, RunCommand(r) \/ CommandFails(r)
    PROVE Ordered'
<1> DEFINE t == todo[r]
<1>1. /\ t # <<>> /\ UNCHANGED <<typed, queue, overtaken>>
      /\ ran' = [ran EXCEPT ![Head(todo[r]).line] = Head(todo[r]).cmd]
      /\ \E u \in {Tail(t), <<>>} : todo' = [todo EXCEPT ![r] = u]
      BY DEF RunCommand, CommandFails
<1>2. t \in Seq(Items) /\ todo \in [Runners -> Seq(Items)]
      BY DEF Ordered, OrderOf, InputShapes
<1>3. /\ Tail(t) \in Seq(Items) /\ <<>> \in Seq(Items)
      /\ LinesIn(Tail(t)) \subseteq LinesIn(t) /\ LinesIn(<<>>) \subseteq LinesIn(t)
      BY <1>1, <1>2, LinesFacts
<1>4. PICK u \in {Tail(t), <<>>} : todo' = [todo EXCEPT ![r] = u]
      BY <1>1
<1>5. u \in Seq(Items) /\ LinesIn(u) \subseteq LinesIn(t)
      BY <1>3
<1>6. /\ todo' \in [Runners -> Seq(Items)]
      /\ \A q \in Runners : LinesIn(todo'[q]) \subseteq LinesIn(todo[q])
      BY <1>2, <1>4, <1>5
<1>7. ran' = [l \in Lines |-> ran'[l]]
      BY <1>1 DEF Ordered
<1> QED BY <1>1, <1>6, <1>7, WorkKeeps

\* The rest of an alias goes ahead of the queue, where its line belongs: the
\* heartbeat's line is before all that are queued, and those the reader finds there
\* it has passed.
LEMMA PrependKeeps ==
    ASSUME Ordered, NEW r \in Runners, PrependAliased(r)
    PROVE Ordered'
<1> DEFINE t == todo[r]
<1>1. /\ UNCHANGED <<typed, overtaken, ran>> /\ todo' = [todo EXCEPT ![r] = <<>>]
      /\ queue' = queue \/ queue' = <<>> \/ queue' = t \o queue
      BY DEF PrependAliased, Overflow, Prepended
<1>2. t \in Seq(Items) /\ queue \in Seq(Items) /\ todo \in [Runners -> Seq(Items)]
      /\ OrderOf(typed, queue, todo, overtaken) /\ typed \in Nat
      BY DEF Ordered, OrderOf, InputShapes
<1>3. /\ \A q \in Runners : todo'[q] = IF q = r THEN <<>> ELSE todo[q]
      /\ todo' \in [Runners -> Seq(Items)]
      BY <1>1, <1>2, LinesFacts
<1>4. "reader" \in Runners /\ "heartbeat" \in Runners /\ "reader" # "heartbeat"
      /\ (r = "reader" \/ r = "heartbeat")
      BY DEF Runners
<1>5. /\ queue' \in Seq(Items) /\ LinesIn(queue') \subseteq LinesIn(t) \cup LinesIn(queue)
      /\ LinesIn(<<>>) = {}
  <2>1. t \o queue \in Seq(Items) /\ LinesIn(t \o queue) = LinesIn(t) \cup LinesIn(queue)
    <3> HIDE DEF t
    <3> QED BY <1>2, LinesFacts
  <2>2. <<>> \in Seq(Items) /\ LinesIn(<<>>) = {}
        BY LinesFacts
  <2> HIDE DEF t
  <2> QED BY <1>1, <1>2, <2>1, <2>2
<1> HIDE DEF t
<1>6. InputShapes(typed', queue', todo', overtaken')
  <2>1. \A l \in LinesIn(t) \cup LinesIn(queue) : l <= typed
        BY <1>2 DEF t, OrderOf, InputShapes
  <2> QED BY <1>1, <1>2, <1>3, <1>5, <2>1 DEF OrderOf, InputShapes
<1>7. \A k \in LinesIn(t), l \in LinesIn(queue) : Before(k, l, overtaken)
      BY <1>2, <1>4 DEF t, OrderOf, HeartbeatFirst, ReaderPassed, Before
<1>8. Sorted(queue', overtaken')
  <2>1. OneLine(t) /\ LinesIn(t) \subseteq Lines /\ Lines \subseteq Nat
        BY <1>2, LinesFacts, InputAssumption DEF t, OrderOf, Lines
  <2>2. \A k, l \in LinesIn(t) : Before(k, l, overtaken)
    <3> SUFFICES ASSUME NEW k \in LinesIn(t), NEW l \in LinesIn(t) PROVE k <= l
        BY DEF Before
    <3>1. k = l BY <2>1 DEF OneLine
    <3>2. k \in Nat BY <2>1
    <3> QED BY <3>1, <3>2
  <2>3. Sorted(t, overtaken) /\ Sorted(<<>>, overtaken) /\ Sorted(queue, overtaken)
        BY <1>2, <2>2, SortedFacts DEF OrderOf
  <2>4. Sorted(t \o queue, overtaken)
        BY <1>2, <1>7, <2>3, SortedConcat
  <2> QED BY <1>1, <2>3, <2>4 DEF t
<1>9. HeartbeatFirst(queue', todo', overtaken')
  <2> SUFFICES ASSUME NEW k \in LinesIn(todo'["heartbeat"]), NEW l \in LinesIn(queue')
               PROVE Before(k, l, overtaken)
      BY <1>1 DEF HeartbeatFirst
  <2>1. r = "reader" /\ k \in LinesIn(todo["heartbeat"])
        BY <1>3, <1>4, <1>5
  <2>2. CASE l \in LinesIn(queue)
        BY <1>2, <2>1, <2>2 DEF OrderOf, HeartbeatFirst
  <2>3. CASE l \in LinesIn(t)
    <3>1. k < l BY <1>2, <2>1, <2>3 DEF t, OrderOf, ReaderPassed
    <3>2. k \in Nat /\ l \in Nat
          BY <1>2, <1>4, <2>1, <2>3, LinesFacts, InputAssumption DEF Lines
    <3> QED BY <3>1, <3>2 DEF Before
  <2> QED BY <1>5, <2>2, <2>3
<1>10. ReaderPassed(typed', queue', todo', overtaken')
  <2> SUFFICES ASSUME NEW k \in LinesIn(todo'["reader"])
               PROVE k = typed /\ \A l \in LinesIn(queue') \cup LinesIn(todo'["heartbeat"]) :
                         l \in overtaken /\ l < k
      BY <1>1 DEF ReaderPassed
  <2>1. r = "heartbeat" /\ k \in LinesIn(todo["reader"]) /\ LinesIn(todo'["heartbeat"]) = {}
        BY <1>3, <1>4, <1>5
  <2> QED BY <1>2, <1>5, <2>1 DEF t, OrderOf, ReaderPassed
<1>11. \A q \in Runners : OneLine(todo'[q])
      BY <1>2, <1>3, <1>5 DEF OrderOf, OneLine
<1> QED BY <1>1, <1>6, <1>8, <1>9, <1>10, <1>11 DEF Ordered, OrderOf

\* Every step keeps the order.
LEMMA OrderedNext == Ordered /\ [InputNext]_inputVars => Ordered'
<1> SUFFICES ASSUME Ordered, [InputNext]_inputVars PROVE Ordered'
    OBVIOUS
<1>1. CASE UNCHANGED <<typed, queue, todo, overtaken, ran>>
      BY <1>1 DEF Ordered
<1>2. CASE Stun \/ (\E r \in Runners : CloseInput(r)) \/ UNCHANGED inputVars
      BY <1>1, <1>2 DEF Stun, CloseInput, inputVars
<1> QED BY <1>2, TypeLineKeeps, DrainKeeps, RunKeeps, PrependKeeps DEF InputNext, Runner

-----------------------------------------------------------------------------
(* No command twice *)

\* Two commands of one line, the first of them first; a line as typed is the only
\* thing there is of it.
Precedes(x, y) == x.line = y.line => 0 < x.cmd /\ x.cmd < y.cmd
Ascending(s) == \A i, j \in 1..Len(s) : i < j => Precedes(s[i], s[j])

\* Not run yet, given what ran of each line.
Unrun(c, done) == IF c.cmd = 0 THEN done[c.line] = 0 ELSE done[c.line] < c.cmd

\* Of each line what is left comes in ascending order: what its goroutine has in hand,
\* then what is queued; and nothing of it has run.
OnceOf(ty, q, td, done) ==
    /\ done \in [Lines -> Nat] /\ \A l \in Lines : l > ty => done[l] = 0
    /\ Ascending(q) /\ \A r \in Runners : Ascending(td[r])
    /\ \A r \in Runners : \A x \in ToSet(td[r]) : x.cmd > 0
    /\ \A x \in ToSet(td["heartbeat"]), y \in ToSet(q) : Precedes(x, y)
    /\ \A c \in ToSet(q) : Unrun(c, done)
    /\ \A r \in Runners : \A c \in ToSet(td[r]) : Unrun(c, done)

Once == OnceOf(typed, queue, todo, ran)

\* What the operations on sequences do to the items in them.
LEMMA ItemFacts ==
    /\ ToSet(<<>>) = {}
    /\ \A s \in Seq(Items) : \A x \in ToSet(s) : x \in Items /\ x.line \in LinesIn(s)
    /\ \A s \in Seq(Items), x \in Items : ToSet(Append(s, x)) = ToSet(s) \cup {x}
    /\ \A s, t \in Seq(Items) : ToSet(s \o t) = ToSet(s) \cup ToSet(t)
    /\ \A s \in Seq(Items) : s # <<>> => ToSet(s) = {Head(s)} \cup ToSet(Tail(s))
<1>1. ToSet(<<>>) = {}
      BY DEF ToSet
<1>2. ASSUME NEW s \in Seq(Items), NEW x \in ToSet(s) PROVE x \in Items /\ x.line \in LinesIn(s)
  <2>1. DOMAIN s = 1..Len(s) OBVIOUS
  <2>2. PICK i \in 1..Len(s) : s[i] = x BY <2>1 DEF ToSet
  <2>3. s[i] \in Items OBVIOUS
  <2> QED BY <2>2, <2>3, LinesAt
<1>3. \A s \in Seq(Items) : \A x : x \in ToSet(s) <=> \E i \in 1..Len(s) : s[i] = x
  <2> TAKE s \in Seq(Items)
  <2>1. DOMAIN s = 1..Len(s) OBVIOUS
  <2> QED BY <2>1 DEF ToSet
<1>4. ASSUME NEW s \in Seq(Items), NEW t \in Seq(Items), NEW u \in Seq(Items),
             Len(u) = Len(s) + Len(t),
             \A i \in 1..Len(s) : u[i] = s[i],
             \A i \in 1..Len(t) : u[Len(s) + i] = t[i]
      PROVE ToSet(u) = ToSet(s) \cup ToSet(t)
  <2>0. Len(s) \in Nat /\ Len(t) \in Nat OBVIOUS
  <2>1. ASSUME NEW x \in ToSet(u) PROVE x \in ToSet(s) \cup ToSet(t)
    <3>1. PICK i \in 1..Len(u) : u[i] = x BY <1>3, <2>1
    <3>2. CASE i \in 1..Len(s) BY <1>3, <1>4, <3>1, <3>2
    <3>3. CASE i \notin 1..Len(s)
      <4>1. i - Len(s) \in 1..Len(t) /\ i = Len(s) + (i - Len(s)) BY <1>4, <2>0, <3>3
      <4>2. t[i - Len(s)] = x BY <1>4, <3>1, <4>1
      <4> QED BY <1>3, <4>1, <4>2
    <3> QED BY <3>2, <3>3
  <2>2. ASSUME NEW x \in ToSet(s) PROVE x \in ToSet(u)
    <3>1. PICK i \in 1..Len(s) : s[i] = x BY <1>3, <2>2
    <3>2. i \in 1..Len(u) BY <1>4, <2>0
    <3> QED BY <1>3, <1>4, <3>1, <3>2
  <2>3. ASSUME NEW x \in ToSet(t) PROVE x \in ToSet(u)
    <3>1. PICK i \in 1..Len(t) : t[i] = x BY <1>3, <2>3
    <3>2. Len(s) + i \in 1..Len(u) BY <1>4, <2>0
    <3>3. u[Len(s) + i] = x BY <1>4, <3>1
    <3> QED BY <1>3, <3>2, <3>3
  <2> QED BY <2>1, <2>2, <2>3
<1>5. ASSUME NEW s \in Seq(Items), NEW t \in Seq(Items)
      PROVE ToSet(s \o t) = ToSet(s) \cup ToSet(t)
  <2>1. /\ s \o t \in Seq(Items) /\ Len(s \o t) = Len(s) + Len(t)
        /\ \A i \in 1..Len(s) : (s \o t)[i] = s[i]
        /\ \A i \in 1..Len(t) : (s \o t)[Len(s) + i] = t[i]
        OBVIOUS
  <2> QED BY <1>4, <2>1
<1>6. ASSUME NEW x \in Items PROVE <<x>> \in Seq(Items) /\ Len(<<x>>) = 1 /\ <<x>>[1] = x /\ ToSet(<<x>>) = {x}
  <2>1. <<x>> \in Seq(Items) /\ Len(<<x>>) = 1 /\ <<x>>[1] = x OBVIOUS
  <2>2. ToSet(<<x>>) = {x} BY DEF ToSet
  <2> QED BY <2>1, <2>2
<1>7. ASSUME NEW s \in Seq(Items), NEW x \in Items
      PROVE ToSet(Append(s, x)) = ToSet(s) \cup {x}
  <2> DEFINE t == <<x>> u == Append(s, x)
  <2>1. /\ u \in Seq(Items) /\ Len(u) = Len(s) + 1
        /\ \A i \in 1..Len(s) : u[i] = s[i]
        /\ u[Len(s) + 1] = x
        OBVIOUS
  <2>2. t \in Seq(Items) /\ Len(t) = 1 /\ t[1] = x /\ ToSet(t) = {x}
        BY <1>6
  <2> HIDE DEF t, u
  <2>3. Len(u) = Len(s) + Len(t) /\ \A i \in 1..Len(t) : u[Len(s) + i] = t[i]
        BY <2>1, <2>2
  <2>4. ToSet(u) = ToSet(s) \cup ToSet(t)
        BY <1>4, <2>1, <2>2, <2>3
  <2> QED BY <2>2, <2>4 DEF u
<1>8. ASSUME NEW s \in Seq(Items), s # <<>>
      PROVE ToSet(s) = {Head(s)} \cup ToSet(Tail(s))
  <2> DEFINE h == <<Head(s)>> t == Tail(s)
  <2>1. /\ Head(s) = s[1] /\ Head(s) \in Items /\ t \in Seq(Items)
        /\ Len(s) \in Nat \ {0} /\ Len(t) = Len(s) - 1
        /\ \A i \in 1..(Len(s) - 1) : t[i] = s[i + 1]
        BY <1>8
  <2>2. h \in Seq(Items) /\ Len(h) = 1 /\ h[1] = s[1] /\ ToSet(h) = {Head(s)}
        BY <1>6, <2>1
  <2> HIDE DEF h, t
  <2>3. Len(s) = Len(h) + Len(t) /\ (\A i \in 1..Len(h) : s[i] = h[i])
        /\ \A i \in 1..Len(t) : s[Len(h) + i] = t[i]
        BY <2>1, <2>2
  <2>4. ToSet(s) = ToSet(h) \cup ToSet(t)
        BY <1>4, <2>1, <2>2, <2>3
  <2> QED BY <2>2, <2>4 DEF t
<1> QED BY <1>1, <1>2, <1>5, <1>7, <1>8

\* What the operations on sequences do to ascending ones.
LEMMA AscendingFacts ==
    /\ Ascending(<<>>) /\ \A x \in Items : Ascending(<<x>>)
    /\ \A s, t \in Seq(Items) :
          Ascending(s) /\ Ascending(t) /\ (\A x \in ToSet(s), y \in ToSet(t) : Precedes(x, y))
             => Ascending(s \o t)
    /\ \A s \in Seq(Items), z \in Items :
          Ascending(s) /\ (\A x \in ToSet(s) : Precedes(x, z)) => Ascending(Append(s, z))
    /\ \A s \in Seq(Items) : s # <<>> /\ Ascending(s) =>
          Ascending(Tail(s)) /\ \A y \in ToSet(Tail(s)) : Precedes(Head(s), y)
<1>0. \A s \in Seq(Items) : \A x : x \in ToSet(s) <=> \E i \in 1..Len(s) : s[i] = x
  <2> TAKE s \in Seq(Items)
  <2>1. DOMAIN s = 1..Len(s) OBVIOUS
  <2> QED BY <2>1 DEF ToSet
<1>1. Ascending(<<>>) /\ \A x \in Items : Ascending(<<x>>)
      BY DEF Ascending
<1>2. ASSUME NEW s \in Seq(Items), NEW t \in Seq(Items), Ascending(s), Ascending(t),
             \A x \in ToSet(s), y \in ToSet(t) : Precedes(x, y)
      PROVE Ascending(s \o t)
  <2> DEFINE u == s \o t
  <2>1. /\ Len(u) = Len(s) + Len(t) /\ Len(s) \in Nat /\ Len(t) \in Nat
        /\ \A i \in 1..Len(s) : u[i] = s[i]
        /\ \A i \in 1..Len(t) : u[Len(s) + i] = t[i]
        OBVIOUS
  <2> HIDE DEF u
  <2>2. \A i \in 1..Len(u) : i \notin 1..Len(s) =>
           i - Len(s) \in 1..Len(t) /\ u[i] = t[i - Len(s)] /\ i > Len(s)
    <3> SUFFICES ASSUME NEW i \in 1..Len(u), i \notin 1..Len(s)
                 PROVE i - Len(s) \in 1..Len(t) /\ u[i] = t[i - Len(s)] /\ i > Len(s)
        OBVIOUS
    <3>1. i - Len(s) \in 1..Len(t) /\ i = Len(s) + (i - Len(s)) /\ i > Len(s)
          BY <2>1
    <3> QED BY <2>1, <3>1
  <2> SUFFICES ASSUME NEW i \in 1..Len(u), NEW j \in 1..Len(u), i < j PROVE Precedes(u[i], u[j])
      BY DEF Ascending, u
  <2>3. CASE j \in 1..Len(s)
    <3>1. i \in 1..Len(s) BY <2>1, <2>3
    <3>2. Precedes(s[i], s[j]) BY <1>2, <2>3, <3>1 DEF Ascending
    <3> QED BY <2>1, <2>3, <3>1, <3>2
  <2>4. CASE i \notin 1..Len(s)
    <3>1. /\ i - Len(s) \in 1..Len(t) /\ u[i] = t[i - Len(s)] /\ i > Len(s)
          BY <2>2, <2>4
    <3>2. j \notin 1..Len(s) BY <2>1, <3>1
    <3>3. j - Len(s) \in 1..Len(t) /\ u[j] = t[j - Len(s)] BY <2>2, <3>2
    <3>4. i - Len(s) < j - Len(s) BY <2>1
    <3>5. Precedes(t[i - Len(s)], t[j - Len(s)]) BY <1>2, <3>1, <3>3, <3>4 DEF Ascending
    <3> QED BY <3>1, <3>3, <3>5
  <2>5. CASE i \in 1..Len(s) /\ j \notin 1..Len(s)
    <3>1. u[i] = s[i] /\ s[i] \in ToSet(s) BY <1>0, <2>1, <2>5
    <3>2. j - Len(s) \in 1..Len(t) /\ u[j] = t[j - Len(s)] BY <2>2, <2>5
    <3>3. t[j - Len(s)] \in ToSet(t) BY <1>0, <3>2
    <3> QED BY <1>2, <3>1, <3>2, <3>3
  <2> QED BY <2>3, <2>4, <2>5
<1>3. ASSUME NEW s \in Seq(Items), NEW z \in Items, Ascending(s), \A x \in ToSet(s) : Precedes(x, z)
      PROVE Ascending(Append(s, z))
  <2> DEFINE u == Append(s, z)
  <2>1. /\ Len(u) = Len(s) + 1 /\ Len(s) \in Nat
        /\ \A i \in 1..Len(s) : u[i] = s[i]
        /\ u[Len(s) + 1] = z
        OBVIOUS
  <2> HIDE DEF u
  <2> SUFFICES ASSUME NEW i \in 1..Len(u), NEW j \in 1..Len(u), i < j PROVE Precedes(u[i], u[j])
      BY DEF Ascending, u
  <2>2. i \in 1..Len(s) BY <2>1
  <2>3. CASE j \in 1..Len(s)
    <3>1. Precedes(s[i], s[j]) BY <1>3, <2>2, <2>3 DEF Ascending
    <3> QED BY <2>1, <2>2, <2>3, <3>1
  <2>4. CASE j \notin 1..Len(s)
    <3>1. u[j] = z BY <2>1, <2>4
    <3>2. u[i] = s[i] /\ s[i] \in ToSet(s) BY <1>0, <2>1, <2>2
    <3> QED BY <1>3, <3>1, <3>2
  <2> QED BY <2>3, <2>4
<1>4. ASSUME NEW s \in Seq(Items), s # <<>>, Ascending(s)
      PROVE Ascending(Tail(s)) /\ \A y \in ToSet(Tail(s)) : Precedes(Head(s), y)
  <2> DEFINE t == Tail(s)
  <2>1. /\ Head(s) = s[1] /\ t \in Seq(Items) /\ Len(s) \in Nat \ {0} /\ Len(t) = Len(s) - 1
        /\ \A i \in 1..(Len(s) - 1) : t[i] = s[i + 1]
        BY <1>4
  <2> HIDE DEF t
  <2>2. \A i \in 1..Len(t) : i + 1 \in 1..Len(s) /\ t[i] = s[i + 1] /\ 1 < i + 1
        BY <2>1
  <2>3. Ascending(t)
    <3> SUFFICES ASSUME NEW i \in 1..Len(t), NEW j \in 1..Len(t), i < j
                 PROVE Precedes(t[i], t[j])
        BY DEF Ascending
    <3>1. i + 1 < j + 1
          BY <2>1
    <3>2. Precedes(s[i + 1], s[j + 1])
          BY <1>4, <2>2, <3>1 DEF Ascending
    <3> QED BY <2>2, <3>2
  <2>4. ASSUME NEW y \in ToSet(t) PROVE Precedes(Head(s), y)
    <3>1. PICK i \in 1..Len(t) : t[i] = y BY <1>0, <2>1, <2>4
    <3>2. 1 \in 1..Len(s) BY <2>1
    <3>3. Precedes(s[1], s[i + 1]) BY <1>4, <2>2, <3>2 DEF Ascending
    <3> QED BY <2>1, <2>2, <3>1, <3>3
  <2> QED BY <2>3, <2>4 DEF t
<1> QED BY <1>1, <1>2, <1>3, <1>4

\* The commands of a line ascend, from the first if the line is as typed.
LEMMA ExpansionAscends ==
    ASSUME NEW x \in Items, NEW n \in 0..MaxParts
    PROVE /\ Ascending(Expansion(x, n))
          /\ \A c \in ToSet(Expansion(x, n)) :
                c.line = x.line /\ c.cmd > 0 /\ (c = x \/ x.cmd = 0)
<1>1. CASE x.cmd > 0
  <2>1. Expansion(x, n) = <<x>> BY <1>1 DEF Expansion
  <2>2. ToSet(<<x>>) = {x} BY DEF ToSet
  <2> QED BY <1>1, <2>1, <2>2, AscendingFacts
<1>2. CASE ~(x.cmd > 0)
  <2> DEFINE e == [i \in 1..n |-> [line |-> x.line, cmd |-> i]]
  <2>1. n \in Nat /\ x.cmd = 0
        BY <1>2, InputAssumption DEF Items
  <2>2. e \in Seq(Items) /\ Len(e) = n /\ DOMAIN e = 1..n
    <3>1. \A i \in 1..n : [line |-> x.line, cmd |-> i] \in Items BY <2>1 DEF Items
    <3> QED BY <2>1, <3>1
  <2>3. \A i \in 1..n : e[i].line = x.line /\ e[i].cmd = i
        OBVIOUS
  <2> HIDE DEF e
  <2>4. Ascending(e)
        BY <2>1, <2>2, <2>3 DEF Ascending, Precedes
  <2>5. \A c \in ToSet(e) : c.line = x.line /\ c.cmd > 0
        BY <2>1, <2>2, <2>3 DEF ToSet
  <2>6. Expansion(x, n) = e
        BY <1>2 DEF Expansion, e
  <2> QED BY <2>1, <2>4, <2>5, <2>6
<1> QED BY <1>1, <1>2

\* At the start nothing is to run.
LEMMA OnceInit == InputInit => Once
<1> SUFFICES ASSUME InputInit PROVE Once
    OBVIOUS
<1>1. \A r \in Runners : todo[r] = <<>>
      BY DEF InputInit
<1>2. "heartbeat" \in Runners
      BY DEF Runners
<1> QED BY <1>1, <1>2, ItemFacts, AscendingFacts DEF InputInit, Once, OnceOf

\* Something is taken away, or the order of the goroutines changes nothing.
LEMMA LessKeepsOnce ==
    ASSUME Once, NEW ty, NEW q, NEW td, NEW done,
           done \in [Lines -> Nat], \A l \in Lines : l > ty => done[l] = 0,
           Ascending(q), ToSet(q) \subseteq ToSet(queue),
           \A r \in Runners : Ascending(td[r]) /\ ToSet(td[r]) \subseteq ToSet(todo[r]),
           \A c \in ToSet(q) : Unrun(c, done),
           \A r \in Runners : \A c \in ToSet(td[r]) : Unrun(c, done)
    PROVE OnceOf(ty, q, td, done)
<1>1. "heartbeat" \in Runners
      BY DEF Runners
<1> QED BY <1>1 DEF Once, OnceOf

\* A line that arrives: all that is left is of earlier ones.
LEMMA TypeLineOnce ==
    ASSUME Ordered, Once, TypeLine
    PROVE Once'
<1> DEFINE x == [line |-> typed + 1, cmd |-> 0]
<1>1. /\ typed < MaxLines /\ typed' = typed + 1 /\ todo["reader"] = <<>> /\ ran' = ran
      BY DEF TypeLine
<1>2. /\ x \in Items /\ x.line = typed + 1 /\ x.cmd = 0 /\ typed + 1 \in Lines
      /\ \A l \in LinesIn(queue) : l < typed + 1
      /\ \A r \in Runners : \A l \in LinesIn(todo[r]) : l < typed + 1
      BY <1>1, FreshLine
<1>3. typed \in Nat /\ Lines \subseteq Nat
      /\ queue \in Seq(Items) /\ todo \in [Runners -> Seq(Items)]
      BY InputAssumption DEF Ordered, OrderOf, InputShapes, Lines
<1>4. \A c \in ToSet(queue) : c \in Items /\ c.line # typed + 1
      BY <1>2, <1>3, ItemFacts
<1>5. \A r \in Runners : \A c \in ToSet(todo[r]) : c \in Items /\ c.line # typed + 1
  <2> TAKE r \in Runners
  <2>1. todo[r] \in Seq(Items) BY <1>3
  <2> QED BY <1>2, <1>3, <2>1, ItemFacts
<1>6. /\ ran \in [Lines -> Nat] /\ ran[typed + 1] = 0
      /\ \A l \in Lines : l > typed + 1 => ran[l] = 0
  <2>1. typed + 1 > typed BY <1>3
  <2>2. \A l \in Lines : l > typed + 1 => l > typed BY <1>3
  <2> QED BY <1>2, <2>1, <2>2 DEF Once, OnceOf
<1>7. "reader" \in Runners /\ "heartbeat" \in Runners /\ "reader" # "heartbeat"
      /\ \A r \in Runners : r = "reader" \/ r = "heartbeat"
      BY DEF Runners
<1> HIDE DEF x
<1>8. CASE UNCHANGED todo /\ (queue' = queue \/ queue' = <<>>)
  <2>1. Ascending(queue') /\ ToSet(queue') \subseteq ToSet(queue)
        BY <1>8, ItemFacts, AscendingFacts DEF Once, OnceOf
  <2>2. OnceOf(typed', queue', todo', ran')
    <3>1. \A c \in ToSet(queue') : Unrun(c, ran) BY <2>1 DEF Once, OnceOf
    <3>2. \A r \in Runners : /\ Ascending(todo[r])
                             /\ \A c \in ToSet(todo[r]) : Unrun(c, ran)
          BY DEF Once, OnceOf
    <3> QED BY <1>1, <1>6, <1>8, <2>1, <3>1, <3>2, LessKeepsOnce
  <2> QED BY <2>2 DEF Once
<1>9. CASE UNCHANGED todo /\ queue' = Append(queue, x)
  <2>1. ToSet(queue') = ToSet(queue) \cup {x}
        BY <1>2, <1>3, <1>9, ItemFacts
  <2>2. Ascending(queue')
    <3>1. \A c \in ToSet(queue) : Precedes(c, x) BY <1>2, <1>4 DEF Precedes
    <3>2. Ascending(queue) BY DEF Once, OnceOf
    <3> QED BY <1>2, <1>3, <1>9, <3>1, <3>2, AscendingFacts
  <2>3. \A c \in ToSet(todo["heartbeat"]), y \in ToSet(queue') : Precedes(c, y)
    <3>1. \A c \in ToSet(todo["heartbeat"]) : Precedes(c, x) BY <1>2, <1>5, <1>7 DEF Precedes
    <3> QED BY <2>1, <3>1 DEF Once, OnceOf
  <2>4. \A c \in ToSet(queue') : Unrun(c, ran)
    <3>1. Unrun(x, ran) BY <1>2, <1>6 DEF Unrun
    <3> QED BY <2>1, <3>1 DEF Once, OnceOf
  <2> QED BY <1>1, <1>6, <1>9, <2>2, <2>3, <2>4 DEF Once, OnceOf
<1>10. ASSUME NEW n \in 0..MaxParts, queue = <<>>, queue' = queue,
              todo' = [todo EXCEPT !["reader"] = Expansion(x, n)]
       PROVE Once'
  <2> DEFINE e == Expansion(x, n)
  <2>1. Ascending(e) /\ \A c \in ToSet(e) : c.line = typed + 1 /\ c.cmd > 0
        BY <1>2, ExpansionAscends
  <2>2. todo'["reader"] = e /\ todo'["heartbeat"] = todo["heartbeat"]
        BY <1>3, <1>7, <1>10
  <2> HIDE DEF e
  <2>3. \A c \in ToSet(e) : Unrun(c, ran)
        BY <1>6, <2>1 DEF Unrun
  <2>4. \A r \in Runners : Ascending(todo'[r]) /\ \A c \in ToSet(todo'[r]) : c.cmd > 0 /\ Unrun(c, ran)
        BY <1>7, <2>1, <2>2, <2>3 DEF Once, OnceOf
  <2>5. \A c \in ToSet(todo'["heartbeat"]), y \in ToSet(queue') : Precedes(c, y)
        BY <1>10, <2>2 DEF Once, OnceOf
  <2>6. Ascending(queue') /\ \A c \in ToSet(queue') : Unrun(c, ran)
        BY <1>10 DEF Once, OnceOf
  <2> QED BY <1>1, <1>6, <2>4, <2>5, <2>6 DEF Once, OnceOf
<1>11. CASE overflow
       BY <1>8, <1>11 DEF TypeLine
<1>12. CASE ~overflow /\ MustQueue
       BY <1>8, <1>9, <1>12 DEF TypeLine, Overflow, x
<1>13. CASE ~overflow /\ ~MustQueue
  <2>1. queue = <<>> /\ queue' = queue
        BY <1>13 DEF TypeLine, MustQueue
  <2>2. \E n \in 0..MaxParts : todo' = [todo EXCEPT !["reader"] = Expansion(x, n)]
        BY <1>13 DEF TypeLine, x
  <2> QED BY <1>10, <2>1, <2>2
<1> QED BY <1>11, <1>12, <1>13

\* The heartbeat takes the first of the queue: a line as typed, of which there is
\* nothing else, or a command of an alias, whose successors stay behind it.
LEMMA DrainOnce ==
    ASSUME Ordered, Once, Drain
    PROVE Once'
<1>1. todo["heartbeat"] = <<>> /\ typed' = typed /\ ran' = ran
      BY DEF Drain
<1>2. CASE UNCHANGED <<todo, queue>>
      BY <1>1, <1>2 DEF Once
<1>3. ASSUME NEW n \in 0..MaxParts, queue # <<>>, queue' = Tail(queue),
             todo' = [todo EXCEPT !["heartbeat"] = Expansion(Head(queue), n)]
      PROVE Once'
  <2> DEFINE h == Head(queue) t == Tail(queue) e == Expansion(h, n)
  <2>1. /\ h \in Items /\ t \in Seq(Items) /\ ToSet(queue) = {h} \cup ToSet(t)
        /\ todo \in [Runners -> Seq(Items)]
        BY <1>3, LinesFacts, ItemFacts DEF Ordered, OrderOf, InputShapes
  <2>2. Ascending(t) /\ \A y \in ToSet(t) : Precedes(h, y) /\ y \in Items
    <3>1. queue \in Seq(Items) /\ Ascending(queue)
          BY DEF Ordered, OrderOf, InputShapes, Once, OnceOf
    <3> QED BY <1>3, <2>1, <3>1, AscendingFacts, ItemFacts
  <2>3. Ascending(e) /\ \A c \in ToSet(e) : c.line = h.line /\ c.cmd > 0 /\ (c = h \/ h.cmd = 0)
        BY <2>1, ExpansionAscends
  <2>4. "reader" \in Runners /\ "heartbeat" \in Runners /\ "reader" # "heartbeat"
        /\ \A r \in Runners : r = "reader" \/ r = "heartbeat"
        BY DEF Runners
  <2>5. todo'["heartbeat"] = e /\ todo'["reader"] = todo["reader"] /\ queue' = t
        BY <1>3, <2>1, <2>4
  <2> HIDE DEF h, t, e
  <2>6. Unrun(h, ran) /\ \A c \in ToSet(t) : Unrun(c, ran)
        BY <2>1 DEF Once, OnceOf
  <2>7. \A c \in ToSet(e) : Unrun(c, ran)
        BY <2>3, <2>6 DEF Unrun
  <2>8. \A r \in Runners : Ascending(todo'[r]) /\ \A c \in ToSet(todo'[r]) : c.cmd > 0 /\ Unrun(c, ran)
        BY <2>3, <2>4, <2>5, <2>7 DEF Once, OnceOf
  <2>9. \A c \in ToSet(e), y \in ToSet(t) : Precedes(c, y)
    <3> SUFFICES ASSUME NEW c \in ToSet(e), NEW y \in ToSet(t) PROVE Precedes(c, y)
        OBVIOUS
    <3>1. CASE c = h
          BY <2>2, <3>1
    <3>2. CASE h.cmd = 0
      <4>1. h.line # y.line BY <2>2, <3>2 DEF Precedes
      <4> QED BY <2>3, <4>1 DEF Precedes
    <3> QED BY <2>3, <3>1, <3>2
  <2> QED BY <1>1, <2>2, <2>5, <2>6, <2>8, <2>9 DEF Once, OnceOf
<1> QED BY <1>2, <1>3 DEF Drain

\* A command runs: what is left of its line comes after it.
LEMMA RunOnce ==
    ASSUME Ordered, Once, NEW r \in Runners, RunCommand(r) \/ CommandFails(r)
    PROVE Once'
<1> DEFINE t == todo[r] h == Head(t)
<1>1. /\ t # <<>> /\ UNCHANGED <<typed, queue>>
      /\ ran' = [ran EXCEPT ![h.line] = h.cmd]
      /\ \E u \in {Tail(t), <<>>} : todo' = [todo EXCEPT ![r] = u]
      BY DEF RunCommand, CommandFails
<1>2. /\ t \in Seq(Items) /\ todo \in [Runners -> Seq(Items)] /\ queue \in Seq(Items)
      /\ OrderOf(typed, queue, todo, overtaken) /\ typed \in Nat
      BY DEF Ordered, OrderOf, InputShapes
<1>3. PICK u \in {Tail(t), <<>>} : todo' = [todo EXCEPT ![r] = u]
      BY <1>1
<1>4. /\ h \in Items /\ h.line \in LinesIn(t) /\ ToSet(t) = {h} \cup ToSet(Tail(t))
      /\ LinesIn(t) \subseteq Lines
      BY <1>1, <1>2, ItemFacts, LinesFacts
<1>5. /\ Ascending(t) /\ Ascending(Tail(t)) /\ \A y \in ToSet(Tail(t)) : Precedes(h, y)
      BY <1>1, <1>2, AscendingFacts DEF Once, OnceOf
<1>6. /\ Ascending(u) /\ ToSet(u) \subseteq ToSet(t) /\ \A y \in ToSet(u) : Precedes(h, y)
      BY <1>4, <1>5, ItemFacts, AscendingFacts
<1> HIDE DEF h
<1>7. \A c \in ToSet(queue) : c \in Items /\ (c.line = h.line => h.cmd < c.cmd)
  <2> SUFFICES ASSUME NEW c \in ToSet(queue) PROVE c \in Items /\ (c.line = h.line => h.cmd < c.cmd)
      OBVIOUS
  <2>1. c \in Items /\ c.line \in LinesIn(queue)
        BY <1>2, ItemFacts
  <2>2. CASE r = "heartbeat"
        BY <1>4, <2>1, <2>2 DEF Once, OnceOf, Precedes
  <2>3. CASE r = "reader"
    <3>1. c.line < h.line BY <1>2, <1>4, <2>1, <2>3 DEF OrderOf, ReaderPassed
    <3>2. c.line \in Nat BY <1>2, <2>1, LinesFacts, InputAssumption DEF Lines
    <3> QED BY <2>1, <3>1, <3>2
  <2> QED BY <2>2, <2>3 DEF Runners
<1>8. ASSUME NEW q \in Runners, q # r, NEW c \in ToSet(todo[q]) PROVE c \in Items /\ c.line # h.line
  <2>1. todo[q] \in Seq(Items) BY <1>2
  <2>2. c \in Items /\ c.line \in LinesIn(todo[q])
        BY <1>8, <2>1, ItemFacts
  <2>3. c.line \in Nat /\ h.line \in Nat
        BY <1>2, <1>4, <2>1, <2>2, LinesFacts, InputAssumption DEF Lines
  <2>4. CASE r = "reader"
    <3>1. q = "heartbeat" BY <1>8, <2>4 DEF Runners
    <3>2. c.line < h.line BY <1>2, <1>4, <2>2, <2>4, <3>1 DEF OrderOf, ReaderPassed
    <3> QED BY <2>2, <2>3, <3>2
  <2>5. CASE r = "heartbeat"
    <3>1. q = "reader" BY <1>8, <2>5 DEF Runners
    <3>2. h.line < c.line BY <1>2, <1>4, <2>2, <2>5, <3>1 DEF OrderOf, ReaderPassed
    <3> QED BY <2>2, <2>3, <3>2
  <2> QED BY <2>4, <2>5 DEF Runners
<1>9. ran \in [Lines -> Nat] /\ ran' \in [Lines -> Nat] /\ ran'[h.line] = h.cmd
      /\ \A l \in Lines : l # h.line => ran'[l] = ran[l]
      BY <1>1, <1>4 DEF Once, OnceOf, Items
<1>10. \A l \in Lines : l > typed => ran'[l] = 0
  <2>1. h.line <= typed
        BY <1>2, <1>4 DEF OrderOf, InputShapes
  <2>2. \A l \in Lines : l > typed => l # h.line
        BY <1>2, <1>4, <2>1, InputAssumption DEF Lines
  <2> QED BY <1>9, <2>2 DEF Once, OnceOf
<1>11. ASSUME NEW c \in Items, Unrun(c, ran), c.line = h.line => h.cmd < c.cmd
       PROVE Unrun(c, ran')
       BY <1>4, <1>9, <1>11 DEF Unrun, Items
<1>12. \A c \in ToSet(queue) : Unrun(c, ran')
       BY <1>7, <1>11 DEF Once, OnceOf
<1>13. \A q \in Runners : /\ Ascending(todo'[q]) /\ ToSet(todo'[q]) \subseteq ToSet(todo[q])
                          /\ \A c \in ToSet(todo'[q]) : Unrun(c, ran')
  <2> TAKE q \in Runners
  <2>1. CASE q = r
    <3>1. todo'[q] = u BY <1>2, <1>3, <2>1
    <3>2. \A c \in ToSet(u) : c \in Items /\ Unrun(c, ran) /\ (c.line = h.line => h.cmd < c.cmd)
          BY <1>2, <1>6, ItemFacts DEF Once, OnceOf, Precedes
    <3> QED BY <1>6, <1>11, <2>1, <3>1, <3>2
  <2>2. CASE q # r
    <3>1. todo'[q] = todo[q] BY <1>2, <1>3, <2>2
    <3>2. \A c \in ToSet(todo[q]) : Unrun(c, ran) BY DEF Once, OnceOf
    <3> QED BY <1>8, <1>11, <2>2, <3>1, <3>2 DEF Once, OnceOf
  <2> QED BY <2>1, <2>2
<1>14. Ascending(queue)
       BY DEF Once, OnceOf
<1>15. OnceOf(typed, queue, todo', ran')
       BY <1>9, <1>10, <1>12, <1>13, <1>14, LessKeepsOnce
<1> QED BY <1>1, <1>15 DEF Once

\* The rest of an alias goes ahead of the queue. What is queued of the same line, if
\* the heartbeat took only a part of it, comes after it.
LEMMA PrependOnce ==
    ASSUME Ordered, Once, NEW r \in Runners, PrependAliased(r)
    PROVE Once'
<1> DEFINE t == todo[r]
<1>1. /\ UNCHANGED <<typed, ran>> /\ todo' = [todo EXCEPT ![r] = <<>>]
      /\ queue' = queue \/ queue' = <<>> \/ queue' = t \o queue
      BY DEF PrependAliased, Overflow, Prepended
<1>2. /\ t \in Seq(Items) /\ queue \in Seq(Items) /\ todo \in [Runners -> Seq(Items)]
      /\ OrderOf(typed, queue, todo, overtaken)
      BY DEF Ordered, OrderOf, InputShapes
<1>3. \A q \in Runners : todo'[q] = IF q = r THEN <<>> ELSE todo[q]
      BY <1>1, <1>2
<1>4. "reader" \in Runners /\ "heartbeat" \in Runners /\ (r = "reader" \/ r = "heartbeat")
      BY DEF Runners
<1>5. /\ Ascending(t) /\ Ascending(queue)
      /\ \A c \in ToSet(t) \cup ToSet(queue) : Unrun(c, ran)
      BY DEF Once, OnceOf
<1>6. \A x \in ToSet(t), y \in ToSet(queue) : Precedes(x, y)
  <2> SUFFICES ASSUME NEW x \in ToSet(t), NEW y \in ToSet(queue) PROVE Precedes(x, y)
      OBVIOUS
  <2>1. CASE r = "heartbeat"
        BY <2>1 DEF Once, OnceOf
  <2>2. CASE r = "reader"
    <3>1. x.line \in LinesIn(t) /\ y.line \in LinesIn(queue) BY <1>2, ItemFacts
    <3>2. y.line < x.line BY <1>2, <2>2, <3>1 DEF OrderOf, ReaderPassed
    <3>3. y.line \in Nat BY <1>2, <3>1, LinesFacts, InputAssumption DEF Lines
    <3> QED BY <3>2, <3>3 DEF Precedes
  <2> QED BY <1>4, <2>1, <2>2
<1> HIDE DEF t
<1>7. Ascending(t \o queue) /\ ToSet(t \o queue) = ToSet(t) \cup ToSet(queue)
      BY <1>2, <1>5, <1>6, AscendingFacts, ItemFacts
<1>8. Ascending(queue') /\ ToSet(queue') \subseteq ToSet(t) \cup ToSet(queue)
  <2>1. Ascending(<<>>) /\ ToSet(<<>>) = {} BY AscendingFacts, ItemFacts
  <2> QED BY <1>1, <1>5, <1>7, <2>1
<1>9. \A q \in Runners : /\ Ascending(todo'[q])
                         /\ \A c \in ToSet(todo'[q]) : c.cmd > 0 /\ Unrun(c, ran)
      BY <1>3, ItemFacts, AscendingFacts DEF Once, OnceOf
<1>10. \A x \in ToSet(todo'["heartbeat"]), y \in ToSet(queue') : Precedes(x, y)
  <2> SUFFICES ASSUME NEW x \in ToSet(todo'["heartbeat"]), NEW y \in ToSet(queue')
               PROVE Precedes(x, y)
      OBVIOUS
  <2>1. r = "reader" /\ x \in ToSet(todo["heartbeat"])
        BY <1>3, <1>4, ItemFacts
  <2>2. CASE y \in ToSet(queue)
        BY <2>1, <2>2 DEF Once, OnceOf
  <2>3. CASE y \in ToSet(t)
    <3>1. todo["heartbeat"] \in Seq(Items) BY <1>2, <1>4
    <3>2. x.line \in LinesIn(todo["heartbeat"]) /\ y.line \in LinesIn(t)
          BY <1>2, <2>1, <2>3, <3>1, ItemFacts
    <3>3. x.line < y.line BY <1>2, <2>1, <3>2 DEF t, OrderOf, ReaderPassed
    <3>4. x.line \in Nat BY <3>1, <3>2, LinesFacts, InputAssumption DEF Lines
    <3> QED BY <3>3, <3>4 DEF Precedes
  <2> QED BY <1>8, <2>2, <2>3
<1> QED BY <1>1, <1>5, <1>8, <1>9, <1>10 DEF Once, OnceOf

\* Every step keeps it.
LEMMA OnceNext == Ordered /\ Once /\ [InputNext]_inputVars => Once'
<1> SUFFICES ASSUME Ordered, Once, [InputNext]_inputVars PROVE Once'
    OBVIOUS
<1>1. CASE Stun \/ (\E r \in Runners : CloseInput(r)) \/ UNCHANGED inputVars
      BY <1>1 DEF Stun, CloseInput, inputVars, Once
<1> QED BY <1>1, TypeLineOnce, DrainOnce, RunOnce, PrependOnce DEF InputNext, Runner

\* Nothing in an ascending sequence is there twice.
LEMMA AscendingCounts ==
    ASSUME NEW s \in Seq(Items), Ascending(s)
    PROVE IsFiniteSet(ToSet(s)) /\ Cardinality(ToSet(s)) = Len(s)
<1> DEFINE n == Len(s)
           f == [i \in 1..n |-> s[i]]
<1>1. n \in Nat /\ DOMAIN s = 1..n /\ \A i \in 1..n : s[i] \in Items
      OBVIOUS
<1>2. \A x \in Items : x.cmd \in Nat
      BY DEF Items
<1>3. \A i, j \in 1..n : i < j => s[i] # s[j]
      BY <1>1, <1>2 DEF Ascending, Precedes
<1>4. \A i, j \in 1..n : s[i] = s[j] => i = j
  <2> SUFFICES ASSUME NEW i \in 1..n, NEW j \in 1..n, s[i] = s[j], i # j PROVE FALSE
      OBVIOUS
  <2>1. i < j \/ j < i BY <1>1
  <2> QED BY <1>3, <2>1
<1>5. ToSet(s) = {s[i] : i \in 1..n}
      BY <1>1 DEF ToSet
<1> HIDE DEF n
<1>6. f \in [1..n -> ToSet(s)] /\ (\A i, j \in 1..n : f[i] = f[j] => i = j)
      /\ \A x \in ToSet(s) : \E i \in 1..n : f[i] = x
      BY <1>4, <1>5
<1>7. f \in Bijection(1..n, ToSet(s))
      BY <1>6 DEF Bijection, Injection, Surjection, IsInjective
<1>8. ExistsBijection(1..n, ToSet(s))
      BY <1>7 DEF ExistsBijection
<1> QED BY <1>1, <1>8, FS_CountingElements, FS_NatBijection DEF n

\* Sets with nothing in common are counted together.
LEMMA DisjointCounts ==
    ASSUME NEW S, NEW T, IsFiniteSet(S), IsFiniteSet(T), S \cap T = {}
    PROVE IsFiniteSet(S \cup T) /\ Cardinality(S \cup T) = Cardinality(S) + Cardinality(T)
<1>1. Cardinality(S) \in Nat /\ Cardinality(T) \in Nat
      BY FS_CardinalityType
<1>2. Cardinality(S \cap T) = 0
      BY FS_EmptySet
<1>3. IsFiniteSet(S \cup T)
      /\ Cardinality(S \cup T) = Cardinality(S) + Cardinality(T) - Cardinality(S \cap T)
      BY FS_Union
<1> QED BY <1>1, <1>2, <1>3

\* Then every command is in one place, and has not run.
LEMMA OncePlaces == Ordered /\ Once => NoCommandTwice
<1> SUFFICES ASSUME Ordered, Once PROVE NoCommandTwice
    OBVIOUS
<1> DEFINE q == ToSet(queue) h == ToSet(todo["heartbeat"]) t == ToSet(todo["reader"])
<1>1. "reader" \in Runners /\ "heartbeat" \in Runners
      /\ \A r \in Runners : r = "reader" \/ r = "heartbeat"
      BY DEF Runners
<1>2. Outstanding = q \cup (h \cup t)
      BY <1>1 DEF Outstanding
<1>3. /\ queue \in Seq(Items) /\ todo["heartbeat"] \in Seq(Items) /\ todo["reader"] \in Seq(Items)
      BY <1>1 DEF Ordered, OrderOf, InputShapes
<1>4. /\ IsFiniteSet(q) /\ Cardinality(q) = Len(queue)
      /\ IsFiniteSet(h) /\ Cardinality(h) = Len(todo["heartbeat"])
      /\ IsFiniteSet(t) /\ Cardinality(t) = Len(todo["reader"])
      BY <1>1, <1>3, AscendingCounts DEF Once, OnceOf
<1>5. q \cap h = {}
  <2> SUFFICES ASSUME NEW x \in q, x \in h PROVE FALSE
      OBVIOUS
  <2>1. Precedes(x, x) BY DEF Once, OnceOf
  <2>2. x \in Items BY <1>3, ItemFacts
  <2>3. x.cmd \in Nat BY <2>2 DEF Items
  <2> QED BY <2>1, <2>3 DEF Precedes
<1>6. (q \cup h) \cap t = {}
  <2> SUFFICES ASSUME NEW x \in q \cup h, x \in t PROVE FALSE
      OBVIOUS
  <2>1. x.line \in LinesIn(queue) \cup LinesIn(todo["heartbeat"])
        /\ x.line \in LinesIn(todo["reader"])
        BY <1>3, ItemFacts
  <2>2. x.line < x.line BY <2>1 DEF Ordered, OrderOf, ReaderPassed
  <2>3. x.line \in Nat BY <1>3, <2>1, LinesFacts, InputAssumption DEF Lines
  <2> QED BY <2>2, <2>3
<1>7. \A c \in Outstanding : Unrun(c, ran)
      BY <1>1, <1>2 DEF Once, OnceOf
<1> HIDE DEF q, h, t
<1>8. /\ IsFiniteSet(q \cup h) /\ Cardinality(q \cup h) = Cardinality(q) + Cardinality(h)
      BY <1>4, <1>5, DisjointCounts
<1>9. Cardinality((q \cup h) \cup t) = Cardinality(q) + Cardinality(h) + Cardinality(t)
      BY <1>4, <1>6, <1>8, DisjointCounts
<1>10. Len(queue) + Len(todo["reader"]) + Len(todo["heartbeat"]) = Cardinality(Outstanding)
  <2>1. Outstanding = (q \cup h) \cup t
        BY <1>2
  <2> DEFINE k == Len(queue) m == Len(todo["reader"]) n == Len(todo["heartbeat"])
  <2>2. k \in Nat /\ m \in Nat /\ n \in Nat
        BY <1>3
  <2>3. Cardinality(q) = k /\ Cardinality(h) = n /\ Cardinality(t) = m
        BY <1>4
  <2> HIDE DEF k, m, n
  <2>4. Cardinality(Outstanding) = k + n + m
        BY <1>9, <2>1, <2>3
  <2>5. k + m + n = k + n + m
        BY <2>2
  <2> QED BY <2>4, <2>5 DEF k, m, n
<1> QED BY <1>7, <1>10 DEF NoCommandTwice, Unrun

-----------------------------------------------------------------------------
(* The theorems *)

\* What runs next is before everything that is pending, or has been passed.
LEMMA RunsInOrder ==
    ASSUME Ordered, [InputNext]_inputVars, NEW l \in Lines, ran'[l] # ran[l],
           NEW m \in Lines, m < l, Pending(m)
    PROVE m \in overtaken
<1>1. PICK r \in Runners : RunCommand(r) \/ CommandFails(r)
      BY DEF InputNext, Runner, TypeLine, Drain, Stun, PrependAliased, CloseInput, inputVars
<1>2. todo[r] # <<>> /\ ran' = [ran EXCEPT ![Head(todo[r]).line] = Head(todo[r]).cmd]
      BY <1>1 DEF RunCommand, CommandFails
<1>3. OrderOf(typed, queue, todo, overtaken) /\ todo[r] \in Seq(Items)
      BY DEF Ordered, OrderOf, InputShapes
<1>4. l = Head(todo[r]).line /\ l \in LinesIn(todo[r])
  <2>1. l = Head(todo[r]).line
        BY <1>2 DEF Ordered
  <2> QED BY <1>2, <1>3, <2>1, LinesFacts
<1>5. l \in Nat /\ m \in Nat
      BY InputAssumption DEF Lines
<1>6. CASE m \in LinesIn(todo[r])
  <2>1. OneLine(todo[r]) BY <1>3 DEF OrderOf
  <2>2. m = l BY <1>4, <1>6, <2>1 DEF OneLine
  <2>3. ~(l < l) BY <1>5
  <2>4. m < l OBVIOUS
  <2> QED BY <2>2, <2>3, <2>4
<1>7. CASE r = "reader" /\ m \notin LinesIn(todo[r])
      BY <1>3, <1>4, <1>7 DEF OrderOf, ReaderPassed, Pending, Runners
<1>8. CASE r = "heartbeat" /\ m \notin LinesIn(todo[r])
  <2>1. CASE m \in LinesIn(queue)
        BY <1>3, <1>4, <1>5, <1>8, <2>1 DEF OrderOf, HeartbeatFirst, Before
  <2>2. CASE m \in LinesIn(todo["reader"])
    <3>1. l < m BY <1>3, <1>4, <1>8, <2>2 DEF OrderOf, ReaderPassed
    <3> QED BY <1>5, <3>1
  <2> QED BY <1>8, <2>1, <2>2 DEF Pending, Runners
<1> QED BY <1>6, <1>7, <1>8 DEF Runners

\* Lines run in the order they were typed, and an alias as a whole at its line's
\* place, except that the reader may pass a line the heartbeat has taken already.
THEOREM TypedOrder == InputSpec => LinesInOrder
<1>1. Ordered /\ [InputNext]_inputVars =>
         [\A l \in Lines : ran'[l] # ran[l] =>
             \A m \in Lines : m < l /\ Pending(m) => m \in overtaken]_inputVars
      BY RunsInOrder
<1> QED BY <1>1, OrderedInit, OrderedNext, PTL DEF InputSpec, LinesInOrder

\* "An overflow discards retained commands and latches admission closed": once
\* latched, the queue stays empty.
THEOREM LatchedForGood == InputSpec => []OverflowStaysEmpty
<1>1. InputInit => OverflowStaysEmpty
      BY DEF InputInit, OverflowStaysEmpty
<1>2. OverflowStaysEmpty /\ [InputNext]_inputVars => OverflowStaysEmpty'
  <2> SUFFICES ASSUME OverflowStaysEmpty, [InputNext]_inputVars, overflow'
               PROVE queue' = <<>>
      BY DEF OverflowStaysEmpty
  <2>1. CASE TypeLine
        BY <2>1 DEF TypeLine, Overflow, OverflowStaysEmpty
  <2>2. CASE Drain
        BY <2>2 DEF Drain, OverflowStaysEmpty
  <2>3. ASSUME NEW r \in Runners, Runner(r) PROVE queue' = <<>>
        BY <2>3 DEF Runner, RunCommand, CommandFails, PrependAliased, CloseInput, Overflow,
                   Latched, OverflowStaysEmpty
  <2>4. CASE Stun \/ UNCHANGED inputVars
        BY <2>4 DEF Stun, inputVars, OverflowStaysEmpty
  <2> QED BY <2>1, <2>2, <2>3, <2>4 DEF InputNext
<1> QED BY <1>1, <1>2, PTL DEF InputSpec

\* However a line travels between the reader, the queue and the heartbeat, no
\* command of it can be run twice or be in two places, and what is left of an
\* alias comes after what was run of it.
THEOREM RunAtMostOnce == InputSpec => []NoCommandTwice
<1>1. InputInit => Ordered /\ Once
      BY OrderedInit, OnceInit
<1>2. (Ordered /\ Once) /\ [InputNext]_inputVars => (Ordered /\ Once)'
      BY OrderedNext, OnceNext
<1> QED BY <1>1, <1>2, OncePlaces, PTL DEF InputSpec

-----------------------------------------------------------------------------
(* Events: who is busy has one coming *)

\* The events of a set are well formed: all the proof needs of their type.
Formed(S) ==
    \A e \in S : /\ e = [id |-> e.id, source |-> e.source, left |-> e.left]
                 /\ e.id \in 1..nextID /\ e.source \in Ambushers

Shapes ==
    /\ nextID \in Nat /\ cancelledIDs \subseteq 0..nextID
    /\ due = [c \in Clocks |-> due[c]]
    /\ slot \in [Ambushers -> Nat] /\ robbed \subseteq Ambushers
    /\ Formed(Events)

Waits(p) == \E e \in Events : e.id = slot[p] /\ e.id \notin cancelledIDs /\ e.source = p

EInv == Shapes /\ \A p \in Ambushers : slot[p] # 0 => p \in robbed \/ Waits(p)

\* What is in the heap or in a pass is an event.
LEMMA EventsAre ==
    ASSUME NEW e
    PROVE e \in Events <=> e \in heap \/ e \in due["ticker"] \/ e \in due["heartbeat"]
BY DEF Events, Clocks

\* An empty queue and empty slots satisfy EInv.
LEMMA EInvInit == EventInit => EInv
BY EventAssumption DEF EventInit, EInv, Shapes, Formed, Waits, Events, Clocks

\* A plan: the new event is the player's own, and its number is beyond all
\* that are cancelled.
LEMMA PlanKeeps ==
    ASSUME EInv, NEW p \in Ambushers, PlanAmbush(p)
    PROVE EInv'
<1> DEFINE new == [id |-> nextID + 1, source |-> p, left |-> Delay]
<1>1. heap' = heap \cup {new} /\ nextID' = nextID + 1 /\ due' = due
      /\ slot' = [slot EXCEPT ![p] = nextID + 1] /\ robbed' = robbed \ {p}
      /\ cancelledIDs' = cancelledIDs
      BY DEF PlanAmbush, Create
<1>2. Events' = Events \cup {new}
      BY <1>1 DEF Events, Clocks
<1>3. Shapes'
  <2>1. 1..nextID \subseteq 1..nextID' /\ nextID + 1 \in 1..nextID'
        BY <1>1 DEF EInv, Shapes
  <2>3. Formed(Events)' BY <1>2, <2>1 DEF EInv, Shapes, Formed
  <2>2. nextID' \in Nat /\ cancelledIDs' \subseteq 0..nextID'
        BY <1>1 DEF EInv, Shapes
  <2> QED BY <1>1, <2>2, <2>3 DEF EInv, Shapes
<1>4. ASSUME NEW q \in Ambushers, slot'[q] # 0
      PROVE q \in robbed' \/ Waits(q)'
  <2>1. CASE q = p
    <3>1. slot'[q] = nextID + 1 BY <1>1, <2>1 DEF EInv, Shapes
    <3>2. nextID + 1 \notin cancelledIDs' BY <1>1 DEF EInv, Shapes
    <3>3. new \in Events' BY <1>2
    <3> QED BY <2>1, <3>1, <3>2, <3>3 DEF Waits
  <2>2. CASE q # p
    <3>1. slot'[q] = slot[q] BY <1>1, <2>2 DEF EInv, Shapes
    <3> QED BY <1>1, <1>2, <1>4, <2>2, <3>1 DEF EInv, Waits
  <2> QED BY <2>1, <2>2
<1> QED BY <1>3, <1>4 DEF EInv

\* The death of a mob: who loses an event by it is robbed.
LEMMA DeathKeeps ==
    ASSUME EInv, NEW m \in MobIds, MobDies(m)
    PROVE EInv'
<1>1. /\ UNCHANGED <<nextID, heap, due, slot>>
      /\ cancelledIDs' = cancelledIDs \cup Ids(CancelBySource(m))
      /\ robbed' = robbed \cup {p \in Ambushers : \E e \in CancelBySource(m) : slot[p] = e.id}
      BY DEF MobDies
<1>2. Events' = Events
      BY <1>1 DEF Events
<1>3. Ids(CancelBySource(m)) \subseteq 0..nextID
      BY DEF Ids, CancelBySource, EInv, Shapes, Formed, Events
<1>4. Shapes'
      BY <1>1, <1>2, <1>3 DEF EInv, Shapes, Formed
<1>5. ASSUME NEW p \in Ambushers, slot'[p] # 0
      PROVE p \in robbed' \/ Waits(p)'
  <2>1. slot[p] \in Ids(CancelBySource(m)) => p \in robbed'
        BY <1>1 DEF Ids
  <2> QED BY <1>1, <1>2, <1>5, <2>1 DEF EInv, Waits
<1> QED BY <1>4, <1>5 DEF EInv

\* A pass: due events go to its clock, the others stay with one pass less to wait.
LEMMA ProcessKeeps ==
    ASSUME EInv, NEW c \in Clocks, Process(c)
    PROVE EInv'
<1>1. /\ UNCHANGED <<nextID, cancelledIDs, slot, robbed>>
      /\ due[c] = {} /\ due' = [due EXCEPT ![c] = Popped] /\ heap' = Advanced
      BY DEF Process
<1>2. \A e \in heap : e \in Popped \/ [e EXCEPT !.left = @ - 1] \in Advanced
      BY DEF Popped, Advanced
<1>3. due' = [b \in Clocks |-> IF b = c THEN Popped ELSE due[b]]
      BY <1>1 DEF EInv, Shapes
<1>4. ASSUME NEW e \in Events
      PROVE \E f \in Events' : f.id = e.id /\ f.source = e.source
  <2>1. CASE e \in heap
    <3>1. CASE e \in Popped BY <1>3, <3>1 DEF Events
    <3>2. CASE [e EXCEPT !.left = @ - 1] \in Advanced
      <4>1. e = [id |-> e.id, source |-> e.source, left |-> e.left]
            BY DEF EInv, Shapes, Formed
      <4> QED BY <1>1, <3>2, <4>1 DEF Events
    <3> QED BY <1>2, <2>1, <3>1, <3>2
  <2>2. CASE e \notin heap
    <3>1. PICK b \in Clocks : e \in due[b] BY <2>2 DEF Events
    <3>2. e \in due'[b] BY <1>1, <1>3, <3>1
    <3> QED BY <3>2 DEF Events
  <2> QED BY <2>1, <2>2
<1>5. ASSUME NEW f \in Events'
      PROVE \E e \in Events : /\ f = [id |-> e.id, source |-> e.source, left |-> f.left]
                              /\ f.id = e.id /\ f.source = e.source
  <2>0. \A e \in Events : e = [id |-> e.id, source |-> e.source, left |-> e.left]
        BY DEF EInv, Shapes, Formed
  <2>1. CASE f \in heap'
    <3>1. PICK e \in heap : f = [e EXCEPT !.left = @ - 1] BY <1>1, <2>1 DEF Advanced
    <3>2. e \in Events BY DEF Events
    <3> QED BY <2>0, <3>1, <3>2
  <2>2. CASE f \notin heap'
    <3>1. PICK b \in Clocks : f \in due'[b] BY <2>2 DEF Events
    <3>2. f \in Events BY <1>3, <3>1 DEF Events, Popped
    <3> QED BY <2>0, <3>2
  <2> QED BY <2>1, <2>2
<1>6. Formed(Events)'
      BY <1>1, <1>5 DEF EInv, Shapes, Formed
<1>7. Shapes'
      BY <1>1, <1>3, <1>6 DEF EInv, Shapes
<1>8. \A p \in Ambushers : Waits(p) => Waits(p)'
      BY <1>1, <1>4 DEF Waits
<1> QED BY <1>1, <1>7, <1>8 DEF EInv

\* One popped event: the slot that names it is cleared, and no other needs it.
LEMMA RunDueKeeps ==
    ASSUME EInv, NEW c \in Clocks, RunDue(c)
    PROVE EInv'
<1>1. PICK e \in due[c] :
          /\ due' = [due EXCEPT ![c] = @ \ {e}]
          /\ slot' = IF e.id \in cancelledIDs THEN slot ELSE Resolved(e)
          /\ UNCHANGED <<nextID, heap, cancelledIDs, robbed>>
      BY DEF RunDue
<1>2. due' = [b \in Clocks |-> IF b = c THEN due[c] \ {e} ELSE due[b]]
      BY <1>1 DEF EInv, Shapes
<1>3. Events' \subseteq Events /\ e \in Events
      BY <1>1, <1>2 DEF Events
<1>4. \A f \in Events : f = e \/ f \in Events'
      BY <1>1, <1>2 DEF Events
<1>5. e.source \in Ambushers
      BY <1>3 DEF EInv, Shapes, Formed
<1>6. slot' \in [Ambushers -> Nat] /\ \A p \in Ambushers : slot'[p] # 0 => slot'[p] = slot[p]
      BY <1>1, <1>5 DEF Resolved, EInv, Shapes
<1>7. Shapes'
      BY <1>1, <1>2, <1>3, <1>6 DEF EInv, Shapes, Formed
<1>8. ASSUME NEW p \in Ambushers, slot'[p] # 0
      PROVE p \in robbed' \/ Waits(p)'
  <2>1. slot'[p] = slot[p] BY <1>6, <1>8
  <2>2. CASE p \in robbed BY <1>1, <2>2
  <2>3. CASE Waits(p)
    <3>1. PICK f \in Events : f.id = slot[p] /\ f.id \notin cancelledIDs /\ f.source = p
          BY <2>3 DEF Waits
    <3>2. f # e
          BY <1>1, <1>5, <1>8, <3>1 DEF Resolved, EInv, Shapes
    <3> QED BY <1>1, <1>4, <2>1, <3>1, <3>2 DEF Waits
  <2> QED BY <1>8, <2>1, <2>2, <2>3 DEF EInv
<1> QED BY <1>7, <1>8 DEF EInv

\* Every step of the queue keeps EInv.
LEMMA EInvNext == EInv /\ [EventNext]_eventVars => EInv'
<1> SUFFICES ASSUME EInv, [EventNext]_eventVars PROVE EInv'
    OBVIOUS
<1>1. CASE EventNext
      BY <1>1, PlanKeeps, DeathKeeps, ProcessKeeps, RunDueKeeps DEF EventNext, Clock
<1>2. CASE UNCHANGED eventVars
      BY <1>2 DEF eventVars, EInv, Shapes, Formed, Waits, Events
<1> QED BY <1>1, <1>2

\* A player that is refused as busy has an event pending that will end it: in the
\* heap or in a pass of either clock, unless a mob's death cancelled it.
THEOREM BusyIsServed == EventSpec => []BusyHasItsEvent
<1>1. EInv => BusyHasItsEvent
      BY DEF EInv, Waits, BusyHasItsEvent
<1> QED BY <1>1, EInvInit, EInvNext, PTL DEF EventSpec

-----------------------------------------------------------------------------
(* The shapes of both queues *)

\* The commands of a line are commands of that line.
LEMMA ExpansionShapes ==
    ASSUME NEW input \in QueuedInput, NEW n \in 0..MaxParts
    PROVE Expansion(input, n) \in Seq(Command)
<1>1. CASE input.cmd > 0
  <2>1. input \in Command
        BY <1>1, InputAssumption DEF QueuedInput, Command
  <2> QED BY <1>1, <2>1 DEF Expansion
<1>2. CASE ~(input.cmd > 0)
  <2>1. n \in Nat /\ \A i \in 1..n : [line |-> input.line, cmd |-> i] \in Command
        BY InputAssumption DEF QueuedInput, Command
  <2>2. [i \in 1..n |-> [line |-> input.line, cmd |-> i]] \in Seq(Command)
        BY <2>1
  <2> QED BY <1>2, <2>2 DEF Expansion
<1> QED BY <1>1, <1>2

\* Commands that were taken can be queued again.
LEMMA CommandsQueue == Command \subseteq QueuedInput /\ Seq(Command) \subseteq Seq(QueuedInput)
<1>1. Command \subseteq QueuedInput
      BY InputAssumption DEF Command, QueuedInput
<1> QED BY <1>1

\* A new line, as typed.
LEMMA NewLine ==
    ASSUME InputTypeOK, typed < MaxLines
    PROVE typed + 1 \in 0..MaxLines /\ [line |-> typed + 1, cmd |-> 0] \in QueuedInput
BY InputAssumption DEF InputTypeOK, QueuedInput, Lines

\* The lines of commands are lines.
LEMMA LinesOfCommands == \A s \in Seq(Command) : LinesIn(s) \subseteq Lines
<1> TAKE s \in Seq(Command)
<1>1. \A i \in DOMAIN s : s[i] \in Command
      OBVIOUS
<1>2. \A c \in Command : c.line \in Lines
      BY DEF Command
<1> QED BY <1>1, <1>2 DEF LinesIn

\* The queue is within its bound after a line is queued, an alias is put back or
\* all of it is dropped.
LEMMA QueueWithin ==
    ASSUME InputTypeOK, NEW s \in Seq(QueuedInput), Reserves(Len(s))
    PROVE s \o queue \in Seq(QueuedInput) /\ Len(s \o queue) <= MaxQueued
<1> DEFINE q == queue
<1>1. q \in Seq(QueuedInput) /\ Len(s) + Len(q) <= MaxQueued
      BY DEF InputTypeOK, Reserves
<1> HIDE DEF q
<1>2. s \o q \in Seq(QueuedInput) /\ Len(s \o q) = Len(s) + Len(q)
      BY <1>1
<1> QED BY <1>1, <1>2 DEF q

\* A line that arrives: it is queued while there is room.
LEMMA TypeLineShapes == InputTypeOK /\ TypeLine => InputTypeOK'
<1> SUFFICES ASSUME InputTypeOK, TypeLine PROVE InputTypeOK'
    OBVIOUS
<1> DEFINE line == [line |-> typed + 1, cmd |-> 0]
<1>1. line \in QueuedInput /\ typed' \in 0..MaxLines
      BY NewLine DEF TypeLine
<1>2. UNCHANGED <<inputOpen, wait, stuns, ran>>
      BY DEF TypeLine
<1>3. "reader" \in Runners /\ "heartbeat" \in Runners
      BY DEF Runners
<1> HIDE DEF line
<1>4. CASE UNCHANGED <<queue, overflow, mustClose, todo, inAlias, overtaken>>
      BY <1>1, <1>2, <1>4 DEF InputTypeOK
<1>5. CASE /\ Reserves(1) /\ queue' = Append(queue, line)
           /\ UNCHANGED <<overflow, mustClose, todo, inAlias, overtaken>>
  <2> DEFINE q == queue
  <2>1. q \in Seq(QueuedInput) /\ 1 + Len(q) <= MaxQueued
        BY <1>5 DEF InputTypeOK, Reserves
  <2> HIDE DEF q
  <2>2. Append(q, line) \in Seq(QueuedInput) /\ Len(Append(q, line)) = Len(q) + 1
        BY <1>1, <2>1
  <2>3. queue' \in Seq(QueuedInput) /\ Len(queue') <= MaxQueued
        BY <1>5, <2>1, <2>2 DEF q
  <2> QED BY <1>1, <1>2, <1>5, <2>3 DEF InputTypeOK
<1>6. CASE Overflow("reader") /\ UNCHANGED <<todo, inAlias, overtaken>>
      BY <1>1, <1>2, <1>3, <1>6, InputAssumption DEF InputTypeOK, Overflow
<1>7. ASSUME NEW n \in 0..MaxParts,
             todo' = [todo EXCEPT !["reader"] = Expansion(line, n)],
             inAlias' = [inAlias EXCEPT !["reader"] = FALSE],
             overtaken' = overtaken \cup LinesIn(todo["heartbeat"]),
             UNCHANGED <<queue, overflow, mustClose>>
      PROVE InputTypeOK'
  <2>1. Expansion(line, n) \in Seq(Command)
        BY <1>1, ExpansionShapes
  <2>2. todo' \in [Runners -> Seq(Command)] /\ inAlias' \in [Runners -> BOOLEAN]
        BY <1>7, <2>1 DEF InputTypeOK
  <2>3. overtaken' \subseteq Lines
        BY <1>3, <1>7, LinesOfCommands DEF InputTypeOK
  <2> QED BY <1>1, <1>2, <1>7, <2>2, <2>3 DEF InputTypeOK
<1> QED BY <1>4, <1>5, <1>6, <1>7 DEF TypeLine, line

\* The heartbeat's line comes off the queue.
LEMMA DrainShapes == InputTypeOK /\ Drain => InputTypeOK'
<1> SUFFICES ASSUME InputTypeOK, Drain PROVE InputTypeOK'
    OBVIOUS
<1>1. UNCHANGED <<typed, overflow, mustClose, inputOpen, stuns, ran, overtaken>>
      BY DEF Drain
<1>2. wait' \in 0..MaxWait
      BY InputAssumption DEF Drain, DecrementWaitState, InputTypeOK
<1>3. CASE UNCHANGED <<todo, inAlias, queue>>
      BY <1>1, <1>2, <1>3 DEF InputTypeOK
<1>4. ASSUME NEW n \in 0..MaxParts, queue # <<>>,
             todo' = [todo EXCEPT !["heartbeat"] = Expansion(Head(queue), n)],
             inAlias' = [inAlias EXCEPT !["heartbeat"] = FALSE], queue' = Tail(queue)
      PROVE InputTypeOK'
  <2> DEFINE q == queue
  <2>1. q \in Seq(QueuedInput) /\ q # <<>> /\ Len(q) <= MaxQueued
        BY <1>4 DEF InputTypeOK
  <2> HIDE DEF q
  <2>2. Head(q) \in QueuedInput /\ Tail(q) \in Seq(QueuedInput) /\ Len(Tail(q)) <= MaxQueued
        BY <2>1, InputAssumption
  <2>3. Expansion(Head(q), n) \in Seq(Command)
        BY <2>2, ExpansionShapes
  <2>4. todo' \in [Runners -> Seq(Command)] /\ inAlias' \in [Runners -> BOOLEAN]
        BY <1>4, <2>3 DEF q, InputTypeOK
  <2>5. queue' \in Seq(QueuedInput) /\ Len(queue') <= MaxQueued
        BY <1>4, <2>2 DEF q
  <2> QED BY <1>1, <1>2, <2>4, <2>5 DEF InputTypeOK
<1> QED BY <1>3, <1>4 DEF Drain

\* A command runs, or fails and ends its alias.
LEMMA RunShapes ==
    ASSUME InputTypeOK, NEW r \in Runners, RunCommand(r) \/ CommandFails(r)
    PROVE InputTypeOK'
<1> DEFINE s == todo[r]
<1>1. /\ UNCHANGED <<typed, queue, overflow, mustClose, inputOpen, stuns, overtaken>>
      /\ s # <<>> /\ ran' = [ran EXCEPT ![Head(s).line] = Head(s).cmd]
      /\ todo' = [todo EXCEPT ![r] = Tail(s)] \/ todo' = [todo EXCEPT ![r] = <<>>]
      /\ inAlias' = inAlias \/ inAlias' = [inAlias EXCEPT ![r] = TRUE]
      /\ wait' \in {wait} \cup 1..MaxWait
      BY DEF RunCommand, CommandFails
<1>2. s \in Seq(Command)
      BY DEF InputTypeOK
<1> HIDE DEF s
<1>3. Head(s) \in Command /\ Tail(s) \in Seq(Command) /\ <<>> \in Seq(Command)
      BY <1>1, <1>2
<1>4. Head(s).line \in Lines /\ Head(s).cmd \in 0..MaxParts
      BY <1>3, InputAssumption DEF Command
<1>5. todo' \in [Runners -> Seq(Command)] /\ inAlias' \in [Runners -> BOOLEAN]
      BY <1>1, <1>3 DEF InputTypeOK
<1>6. ran' \in [Lines -> 0..MaxParts]
      BY <1>1, <1>4 DEF InputTypeOK
<1>7. wait' \in 0..MaxWait
      BY <1>1, InputAssumption DEF InputTypeOK
<1> QED BY <1>1, <1>5, <1>6, <1>7 DEF InputTypeOK

\* The rest of an alias is put back, when there is room for all of it.
LEMMA PrependShapes ==
    ASSUME InputTypeOK, NEW r \in Runners, PrependAliased(r)
    PROVE InputTypeOK'
<1> DEFINE s == todo[r]
<1>1. /\ UNCHANGED <<typed, inputOpen, inAlias, wait, stuns, ran, overtaken>>
      /\ todo' = [todo EXCEPT ![r] = <<>>]
      /\ \/ UNCHANGED <<queue, overflow, mustClose>>
         \/ Reserves(Len(s)) /\ queue' = s \o queue /\ UNCHANGED <<overflow, mustClose>>
         \/ Overflow(r)
      BY DEF PrependAliased, Prepended
<1>2. s \in Seq(QueuedInput)
      BY CommandsQueue DEF InputTypeOK
<1> HIDE DEF s
<1>3. todo' \in [Runners -> Seq(Command)]
  <2>1. <<>> \in Seq(Command)
        OBVIOUS
  <2> QED BY <1>1, <2>1 DEF InputTypeOK
<1>4. /\ queue' \in Seq(QueuedInput) /\ Len(queue') <= MaxQueued
      /\ overflow' \in BOOLEAN /\ mustClose' \subseteq Runners
  <2>1. CASE UNCHANGED <<queue, overflow, mustClose>>
        BY <2>1 DEF InputTypeOK
  <2>2. CASE Reserves(Len(s)) /\ queue' = s \o queue /\ UNCHANGED <<overflow, mustClose>>
        BY <1>2, <2>2, QueueWithin DEF InputTypeOK
  <2>3. CASE Overflow(r)
        BY <2>3, InputAssumption DEF Overflow, InputTypeOK
  <2> QED BY <1>1, <2>1, <2>2, <2>3
<1> QED BY <1>1, <1>3, <1>4 DEF InputTypeOK

\* The input queue keeps its shapes.
LEMMA InputShapesNext == InputTypeOK /\ [InputNext]_inputVars => InputTypeOK'
<1> SUFFICES ASSUME InputTypeOK, [InputNext]_inputVars PROVE InputTypeOK'
    OBVIOUS
<1>1. CASE Stun
      BY <1>1, InputAssumption DEF Stun, InputTypeOK
<1>2. ASSUME NEW r \in Runners, CloseInput(r) PROVE InputTypeOK'
      BY <1>2 DEF CloseInput, InputTypeOK
<1>3. CASE UNCHANGED inputVars
      BY <1>3 DEF inputVars, InputTypeOK
<1> QED BY <1>1, <1>2, <1>3, TypeLineShapes, DrainShapes, RunShapes, PrependShapes
        DEF InputNext, Runner

\* And has them at the start.
LEMMA InputShapesInit == InputInit => InputTypeOK
<1> SUFFICES ASSUME InputInit PROVE InputTypeOK
    OBVIOUS
<1>1. queue \in Seq(QueuedInput) /\ Len(queue) <= MaxQueued
      BY InputAssumption DEF InputInit
<1>2. todo \in [Runners -> Seq(Command)] /\ inAlias \in [Runners -> BOOLEAN]
      BY DEF InputInit
<1>3. ran \in [Lines -> 0..MaxParts] /\ typed \in 0..MaxLines /\ wait \in 0..MaxWait
      /\ stuns \in 0..MaxStuns
      BY InputAssumption DEF InputInit
<1> QED BY <1>1, <1>2, <1>3 DEF InputInit, InputTypeOK

-----------------------------------------------------------------------------
(* An event is in one place *)

\* No two events of a place, and no two places, have one number.
Single(S) == \A e, f \in S : e.id = f.id => e = f
NoneAlike(S, T) == \A e \in S, f \in T : e.id # f.id
EventShapes ==
    /\ nextID \in 0..MaxPlans
    /\ heap \subseteq Event /\ due \in [Clocks -> SUBSET Event]
    /\ cancelledIDs \subseteq 1..MaxPlans /\ living \subseteq MobIds
    /\ slot \in [Ambushers -> 0..MaxPlans]
    /\ robbed \subseteq Ambushers
Apart ==
    /\ \A e \in heap : e.left > 0
    /\ \A e \in heap : e.id <= nextID
    /\ \A c \in Clocks : \A e \in due[c] : e.id <= nextID
    /\ Single(heap) /\ \A c \in Clocks : Single(due[c]) /\ NoneAlike(heap, due[c])
    /\ \A b, c \in Clocks : b # c => NoneAlike(due[b], due[c])
OneEvent == EventShapes /\ Apart

\* What an event's fields are.
LEMMA EventFields ==
    \A e \in Event : /\ e.id \in 1..MaxPlans /\ e.source \in Ambushers /\ e.left \in 0..Delay
                     /\ e = [id |-> e.id, source |-> e.source, left |-> e.left]
BY DEF Event

\* A planned event has a number nobody had.
LEMMA PlanApart ==
    ASSUME OneEvent, NEW p \in Ambushers, PlanAmbush(p)
    PROVE OneEvent'
<1> DEFINE new == [id |-> nextID + 1, source |-> p, left |-> Delay]
<1>1. /\ heap' = heap \cup {new} /\ nextID' = nextID + 1 /\ nextID < MaxPlans
      /\ slot' = [slot EXCEPT ![p] = nextID + 1] /\ robbed' = robbed \ {p}
      /\ UNCHANGED <<cancelledIDs, due, living>>
      BY DEF PlanAmbush, Create
<1>2. nextID \in Nat /\ MaxPlans \in Nat /\ nextID' \in 0..MaxPlans /\ nextID + 1 \in 1..MaxPlans
      BY <1>1, EventAssumption DEF OneEvent, EventShapes
<1>3. new \in Event /\ new.left > 0 /\ new.id = nextID'
      BY <1>1, <1>2, EventAssumption DEF Event
<1> HIDE DEF new
<1>4. \A e \in Event : e.id <= nextID => e.id <= nextID' /\ e.id # new.id
      BY <1>1, <1>2, <1>3, EventFields
<1>5. heap \subseteq Event /\ \A c \in Clocks : due[c] \subseteq Event
      BY DEF OneEvent, EventShapes
<1>6. EventShapes'
      BY <1>1, <1>2, <1>3 DEF OneEvent, EventShapes
<1>7. /\ \A e \in heap : e.id <= nextID' /\ e.id # new.id
      /\ \A c \in Clocks : \A e \in due[c] : e.id <= nextID' /\ e.id # new.id
      BY <1>4, <1>5 DEF OneEvent, Apart
<1>8. new.id <= nextID'
      BY <1>1, <1>2, <1>3
<1>9. Single(heap') /\ \A c \in Clocks : NoneAlike(heap', due'[c])
      BY <1>1, <1>7 DEF OneEvent, Apart, Single, NoneAlike
<1>10. Apart'
       BY <1>1, <1>3, <1>7, <1>8, <1>9 DEF OneEvent, Apart, Single, NoneAlike
<1> QED BY <1>6, <1>10 DEF OneEvent

\* The death of a mob cancels by number, and moves nothing.
LEMMA DeathApart ==
    ASSUME OneEvent, NEW m \in MobIds, MobDies(m)
    PROVE OneEvent'
<1>1. /\ UNCHANGED <<nextID, heap, due, slot>> /\ living' = living \ {m}
      /\ cancelledIDs' = cancelledIDs \cup Ids(CancelBySource(m))
      /\ robbed' = robbed \cup {p \in Ambushers : \E e \in CancelBySource(m) : slot[p] = e.id}
      BY DEF MobDies
<1>2. Ids(CancelBySource(m)) \subseteq 1..MaxPlans
      BY EventFields DEF Ids, CancelBySource, OneEvent, EventShapes
<1>3. EventShapes'
      BY <1>1, <1>2 DEF OneEvent, EventShapes
<1>4. Apart'
      BY <1>1 DEF OneEvent, Apart, Single, NoneAlike
<1> QED BY <1>3, <1>4 DEF OneEvent

\* A pass takes what is due out of the heap; the rest is a pass nearer.
LEMMA ProcessApart ==
    ASSUME OneEvent, NEW c \in Clocks, Process(c)
    PROVE OneEvent'
<1>1. /\ UNCHANGED <<nextID, cancelledIDs, slot, living, robbed>>
      /\ due[c] = {} /\ due' = [due EXCEPT ![c] = Popped] /\ heap' = Advanced
      BY DEF Process
<1>2. heap \subseteq Event /\ due \in [Clocks -> SUBSET Event] /\ Popped \subseteq heap
      BY DEF OneEvent, EventShapes, Popped
<1>3. \A b \in Clocks : due'[b] = IF b = c THEN Popped ELSE due[b]
      BY <1>1, <1>2
<1>4. ASSUME NEW f \in heap'
      PROVE \E e \in heap : e \notin Popped /\ f = [e EXCEPT !.left = @ - 1]
                            /\ f.id = e.id /\ f.left > 0 /\ f \in Event
  <2>1. PICK e \in heap : e \notin Popped /\ f = [e EXCEPT !.left = @ - 1]
        BY <1>1, <1>4 DEF Advanced
  <2>2. e \in Event /\ e.left > 0 /\ e.left # 1
        BY <1>2, <2>1 DEF OneEvent, Apart, Popped
  <2>3. e.left - 1 \in 0..Delay /\ e.left - 1 > 0
        BY <2>2, EventFields, EventAssumption
  <2>4. f = [id |-> e.id, source |-> e.source, left |-> e.left - 1]
        BY <2>1, <2>2, EventFields
  <2>5. f \in Event /\ f.id = e.id /\ f.left > 0
        BY <2>2, <2>3, <2>4, EventFields DEF Event
  <2> QED BY <2>1, <2>5
<1>5. EventShapes'
  <2>1. heap' \subseteq Event
        BY <1>4
  <2>2. due' \in [Clocks -> SUBSET Event]
        BY <1>1, <1>2
  <2> QED BY <1>1, <2>1, <2>2 DEF OneEvent, EventShapes
<1>6. (\A e \in heap' : e.left > 0 /\ e.id <= nextID')
      /\ \A b \in Clocks : \A e \in due'[b] : e.id <= nextID'
      BY <1>1, <1>2, <1>3, <1>4 DEF OneEvent, Apart
<1>7. Single(heap')
  <2> SUFFICES ASSUME NEW f \in heap', NEW g \in heap', f.id = g.id PROVE f = g
      BY DEF Single
  <2>1. PICK d \in heap : f = [d EXCEPT !.left = @ - 1] /\ f.id = d.id
        BY <1>4
  <2>2. PICK e \in heap : g = [e EXCEPT !.left = @ - 1] /\ g.id = e.id
        BY <1>4
  <2>3. d = e
        BY <2>1, <2>2 DEF OneEvent, Apart, Single
  <2> QED BY <2>1, <2>2, <2>3
<1>8. ASSUME NEW b \in Clocks PROVE Single(due'[b]) /\ NoneAlike(heap', due'[b])
  <2>1. Single(due'[b])
        BY <1>2, <1>3 DEF OneEvent, Apart, Single
  <2>2. ASSUME NEW f \in heap', NEW g \in due'[b] PROVE f.id # g.id
    <3>1. PICK e \in heap : e \notin Popped /\ f.id = e.id
          BY <1>4
    <3> QED BY <1>2, <1>3, <2>2, <3>1 DEF OneEvent, Apart, Single, NoneAlike
  <2> QED BY <2>1, <2>2 DEF NoneAlike
<1>9. ASSUME NEW a \in Clocks, NEW b \in Clocks, a # b PROVE NoneAlike(due'[a], due'[b])
      BY <1>2, <1>3, <1>9 DEF OneEvent, Apart, NoneAlike
<1>10. Apart'
       BY <1>6, <1>7, <1>8, <1>9 DEF Apart, Single, NoneAlike
<1> QED BY <1>5, <1>10 DEF OneEvent

\* A popped event is run and gone.
LEMMA RunDueApart ==
    ASSUME OneEvent, NEW c \in Clocks, RunDue(c)
    PROVE OneEvent'
<1>1. PICK e \in due[c] :
          /\ due' = [due EXCEPT ![c] = @ \ {e}]
          /\ slot' = IF e.id \in cancelledIDs THEN slot ELSE Resolved(e)
          /\ UNCHANGED <<nextID, heap, cancelledIDs, living, robbed>>
      BY DEF RunDue
<1>2. due \in [Clocks -> SUBSET Event]
      BY DEF OneEvent, EventShapes
<1>3. due' \in [Clocks -> SUBSET Event] /\ \A b \in Clocks : due'[b] \subseteq due[b]
      BY <1>1, <1>2
<1>4. slot' \in [Ambushers -> 0..MaxPlans]
  <2>1. 0 \in 0..MaxPlans /\ slot \in [Ambushers -> 0..MaxPlans]
        BY EventAssumption DEF OneEvent, EventShapes
  <2>2. slot' = slot \/ slot' = [slot EXCEPT ![e.source] = 0]
        BY <1>1 DEF Resolved
  <2> QED BY <2>1, <2>2
<1>5. EventShapes'
      BY <1>1, <1>3, <1>4 DEF OneEvent, EventShapes
<1>6. Apart'
      BY <1>1, <1>3 DEF OneEvent, Apart, Single, NoneAlike
<1> QED BY <1>5, <1>6 DEF OneEvent

\* Every step keeps events apart.
LEMMA OneEventNext == OneEvent /\ [EventNext]_eventVars => OneEvent'
<1> SUFFICES ASSUME OneEvent, [EventNext]_eventVars PROVE OneEvent'
    OBVIOUS
<1>1. CASE UNCHANGED eventVars
      BY <1>1 DEF eventVars, OneEvent, EventShapes, Apart, Single, NoneAlike
<1> QED BY <1>1, PlanApart, DeathApart, ProcessApart, RunDueApart DEF EventNext, Clock

\* There are none at first.
LEMMA OneEventInit == EventInit => OneEvent
<1> SUFFICES ASSUME EventInit PROVE OneEvent
    OBVIOUS
<1>1. EventShapes
      BY EventAssumption DEF EventInit, EventShapes
<1>2. Apart
      BY DEF EventInit, Apart, Single, NoneAlike
<1> QED BY <1>1, <1>2 DEF OneEvent

\* Events with one number each are as many as their numbers.
LEMMA CountsByIds ==
    ASSUME NEW S \in SUBSET Event, Single(S)
    PROVE IsFiniteSet(Ids(S)) /\ Cardinality(S) = Cardinality(Ids(S))
<1> DEFINE f == [e \in S |-> e.id]
<1>1. Ids(S) \in SUBSET (1..MaxPlans)
      BY EventFields DEF Ids
<1>2. IsFiniteSet(1..MaxPlans)
      BY FS_Interval, EventAssumption
<1>3. IsFiniteSet(Ids(S))
      BY <1>1, <1>2, FS_Subset
<1>4. f \in [S -> Ids(S)] /\ (\A d, e \in S : f[d] = f[e] => d = e) /\ \A i \in Ids(S) : \E e \in S : f[e] = i
      BY DEF Ids, Single
<1>5. f \in Injection(S, Ids(S)) /\ f \in Surjection(S, Ids(S))
      BY <1>4 DEF Injection, Surjection, IsInjective
<1> HIDE DEF f
<1> QED BY <1>3, <1>5, FS_Injection

\* So an event is in the heap or in one pass.
LEMMA OneEventPlaces == OneEvent => EventTypeOK
<1> SUFFICES ASSUME OneEvent PROVE EventTypeOK
    OBVIOUS
<1> DEFINE h == Ids(heap) t == Ids(due["ticker"]) b == Ids(due["heartbeat"])
<1>1. "ticker" \in Clocks /\ "heartbeat" \in Clocks /\ "ticker" # "heartbeat"
      /\ \A c \in Clocks : c = "ticker" \/ c = "heartbeat"
      BY DEF Clocks
<1>2. heap \in SUBSET Event /\ due["ticker"] \in SUBSET Event /\ due["heartbeat"] \in SUBSET Event
      BY <1>1 DEF OneEvent, EventShapes
<1>3. /\ IsFiniteSet(h) /\ Cardinality(heap) = Cardinality(h)
      /\ IsFiniteSet(t) /\ Cardinality(due["ticker"]) = Cardinality(t)
      /\ IsFiniteSet(b) /\ Cardinality(due["heartbeat"]) = Cardinality(b)
      BY <1>1, <1>2, CountsByIds DEF OneEvent, Apart
<1>4. Ids(Events) = (h \cup t) \cup b
      BY <1>1 DEF Ids, Events
<1>5. h \cap t = {} /\ (h \cup t) \cap b = {}
      BY <1>1 DEF Ids, OneEvent, Apart, NoneAlike
<1> HIDE DEF h, t, b
<1>6. IsFiniteSet(h \cup t) /\ Cardinality(h \cup t) = Cardinality(h) + Cardinality(t)
      BY <1>3, <1>5, DisjointCounts
<1>7. Cardinality((h \cup t) \cup b) = Cardinality(h) + Cardinality(t) + Cardinality(b)
      BY <1>3, <1>5, <1>6, DisjointCounts
<1>8. Cardinality(heap) + Cardinality(due["ticker"]) + Cardinality(due["heartbeat"])
        = Cardinality(Ids(Events))
      BY <1>3, <1>4, <1>7
<1> QED BY <1>8 DEF OneEvent, EventShapes, EventTypeOK

\* Both queues keep their shapes: no more lines are queued than there is room for,
\* also when an alias is put back ahead of them, and whichever clock pops an event,
\* it is in the heap or in one pass, never in two places.
THEOREM QueuesKeepShape == Spec => []QueuesTypeOK
<1> DEFINE Shaped == part \in {"input", "events"} /\ InputTypeOK /\ OneEvent
<1>1. Init => Shaped
      BY InputShapesInit, OneEventInit DEF Init
<1>2. Shaped /\ [Next]_queuesVars => Shaped'
  <2> SUFFICES ASSUME Shaped, [Next]_queuesVars PROVE Shaped'
      OBVIOUS
  <2>1. [InputNext]_inputVars /\ [EventNext]_eventVars /\ part' = part
        BY DEF Next, queuesVars
  <2> QED BY <2>1, InputShapesNext, OneEventNext
<1>3. Shaped => QueuesTypeOK
      BY OneEventPlaces DEF QueuesTypeOK
<1> QED BY <1>1, <1>2, <1>3, PTL DEF Spec
=============================================================================
