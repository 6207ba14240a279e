-------------------------- MODULE AdaptiveLoopProofs -------------------------
(***************************************************************************)
(* Proofs about AdaptiveLoop, for any number of loops and any timing that  *)
(* TimingAssumption admits.                                                *)
(***************************************************************************)
EXTENDS AdaptiveLoop, FiniteSetTheorems, TLAPS

Due == Deadline(0 .. MaxDue \cup 0 .. MinIdle)
At == {"top", "work", "report", "wait"}

\* What a step of t leaves alone.
Others(t) ==
  \A u \in Task : u # t =>
    loop'[u] = loop[u] /\ lag'[u] = lag[u] /\ wake'[u] = wake[u] /\ owed'[u] = owed[u]

\* What a step of t makes of its loop.
Becomes(t, at, idle, due, pending, timer, claimed) ==
  /\ loop'[t].at = at /\ loop'[t].idle = idle /\ loop'[t].due = due
  /\ loop'[t].pending = pending /\ loop'[t].timer = timer /\ loop'[t].claimed = claimed

-----------------------------------------------------------------------------
\* The operators

\* The wait is cut short, never prolonged, unless it was none, and a deadline
\* that is still to come is not waited past (waitUntil, loop.go:295).
LEMMA UntilDueBounds ==
  ASSUME NEW wait \in Nat, NEW due \in Due
  PROVE  LET w == UntilDue(wait, due) IN
         /\ w \in Nat
         /\ due = {} => w = wait
         /\ wait > 0 => w > 0 /\ w <= wait
         /\ \A d \in due : d > 0 => w > 0 /\ w <= d
         /\ w = wait \/ due = {w}
<1>1. CASE due = {}
  BY <1>1 DEF UntilDue
<1>2. CASE \E d \in 0 .. MaxDue \cup 0 .. MinIdle : due = {d}
  <2>1. PICK d \in 0 .. MaxDue \cup 0 .. MinIdle : due = {d}
    BY <1>2
  <2>2. (CHOOSE x \in due : TRUE) = d
    BY <2>1
  <2>3. d \in Nat
    BY TimingAssumption
  <2>4. UntilDue(wait, due) = IF d > 0 /\ (wait = 0 \/ d < wait) THEN d ELSE wait
    BY <2>1, <2>2 DEF UntilDue
  <2> QED
    BY <2>1, <2>3, <2>4
<1> QED
  BY <1>1, <1>2 DEF Due, Deadline

\* The idle wait stays within its bounds (nextIdle, loop.go:355).
LEMMA IdleBounds ==
  ASSUME TypeOK, NEW t \in Task
  PROVE  /\ NewIdle(t) \in 0 .. MaxIdle
         /\ IdleAfterNothing(t) \in 0 .. MaxIdle /\ IdleAfterNothing(t) > 0
<1>1. loop[t].idle \in 0 .. MaxIdle
  BY DEF TypeOK, Loop
<1> QED
  BY <1>1, TimingAssumption DEF NewIdle, IdleAfterNothing, nextIdle

\* A reported deadline is still to come (FloorOverdueDue, service.go:245).
LEMMA NextDueBounds ==
  ASSUME TypeOK, NEW t \in Task, NEW due \in NextDue(t)
  PROVE  due \in Due /\ 0 \notin due
<1>1. rows[t].due \subseteq 1 .. MaxDue
  BY DEF TypeOK, Rows
<1>2. Earliest(rows[t].due) \in Due /\ 0 \notin Earliest(rows[t].due)
  <2>1. \A d, e \in Earliest(rows[t].due) : d = e
    BY <1>1, TimingAssumption DEF Earliest
  <2>2. Earliest(rows[t].due) \subseteq 1 .. MaxDue
    BY <1>1 DEF Earliest
  <2>3. CASE Earliest(rows[t].due) = {}
    BY <2>3 DEF Due, Deadline
  <2>4. CASE Earliest(rows[t].due) # {}
    <3>1. PICK d \in Earliest(rows[t].due) : TRUE
      BY <2>4
    <3>2. Earliest(rows[t].due) = {d} /\ d \in 1 .. MaxDue
      BY <3>1, <2>1, <2>2
    <3> QED
      BY <3>2, TimingAssumption DEF Due, Deadline
  <2> QED
    BY <2>3, <2>4
<1>3. \A a \in Answers(t) : a = {0} \/ a = Earliest(rows[t].due)
  BY DEF Answers
<1>4. \A a \in Due : FloorOverdueDue(a) \in Due /\ 0 \notin FloorOverdueDue(a)
  <2> SUFFICES ASSUME NEW a \in Due PROVE FloorOverdueDue(a) \in Due /\ 0 \notin FloorOverdueDue(a)
    OBVIOUS
  <2>1. CASE a = {}
    BY <2>1 DEF FloorOverdueDue, Due, Deadline
  <2>2. CASE \E d \in 0 .. MaxDue \cup 0 .. MinIdle : a = {d}
    <3>1. PICK d \in 0 .. MaxDue \cup 0 .. MinIdle : a = {d}
      BY <2>2
    <3>2. FloorOverdueDue(a) = {IF d = 0 THEN MinIdle ELSE d}
      BY <3>1 DEF FloorOverdueDue
    <3>3. (IF d = 0 THEN MinIdle ELSE d) \in 0 .. MaxDue \cup 0 .. MinIdle
      BY TimingAssumption
    <3> QED
      BY <3>2, <3>3, TimingAssumption DEF Due, Deadline
  <2> QED
    BY <2>1, <2>2 DEF Due, Deadline
<1>5. {0} \in Due /\ {} \in Due
  BY TimingAssumption DEF Due, Deadline
<1>6. \A d \in 1 .. MaxDue \cup {MinIdle} : {d} \in Due /\ 0 \notin {d}
  BY TimingAssumption DEF Due, Deadline
<1>7. CASE t \in Combined
  BY <1>2, <1>3, <1>4, <1>5, <1>6, <1>7 DEF NextDue
<1>8. CASE t \notin Combined
  <2>1. due = {} \/ due = Earliest(rows[t].due)
    BY <1>8 DEF NextDue, Answers
  <2> QED
    BY <2>1, <1>2, <1>5
<1> QED
  BY <1>7, <1>8
-----------------------------------------------------------------------------
\* What each action does to its own loop, and types

\* A rewritten row of loop is typed, and the others are not touched.
LEMMA LoopRow ==
  ASSUME TypeOK, NEW t \in Task, NEW l, l \in Loop, loop' = [loop EXCEPT ![t] = l]
  PROVE  loop' \in [Task -> Loop] /\ loop'[t] = l /\ \A u \in Task : u # t => loop'[u] = loop[u]
  BY DEF TypeOK

\* The fields of a typed row of loop.
LEMMA LoopFields ==
  ASSUME TypeOK, NEW t \in Task
  PROVE  /\ loop[t].at \in At /\ loop[t].idle \in 0 .. MaxIdle /\ loop[t].due \in Due
         /\ loop[t].pending \in BOOLEAN /\ loop[t].timer \in Nat
         /\ loop[t].claimed \in 0 .. DrainLimit
  BY DEF TypeOK, Loop, At, Due

\* StartCycle: the loop takes the wake and starts a scan that owes nothing.
LEMMA StartFacts ==
  ASSUME TypeOK, NEW t \in Task, StartCycle(t)
  PROVE  /\ loop' \in [Task -> Loop] /\ wake' \in [Task -> BOOLEAN]
         /\ owed' \in [Task -> [Reason -> SUBSET Int]]
         /\ Becomes(t, "work", loop[t].idle, loop[t].due, FALSE, loop[t].timer, loop[t].claimed)
         /\ lag'[t] = lag[t] /\ wake'[t] = FALSE /\ owed'[t] = Nothing
         /\ Others(t)
<1> DEFINE l == [loop[t] EXCEPT !.at = "work", !.pending = FALSE]
<1>1. loop[t] \in Loop
  BY DEF TypeOK
<1>2. l \in Loop
  BY <1>1, Zenon DEF Loop
<1>3. loop' = [loop EXCEPT ![t] = l]
  BY DEF StartCycle
<1>4. /\ l.at = "work" /\ l.idle = loop[t].idle /\ l.due = loop[t].due /\ l.pending = FALSE
      /\ l.timer = loop[t].timer /\ l.claimed = loop[t].claimed
  BY <1>1 DEF Loop
<1> HIDE DEF l
<1>5. loop' \in [Task -> Loop] /\ loop'[t] = l /\ \A u \in Task : u # t => loop'[u] = loop[u]
  BY <1>2, <1>3, LoopRow
<1>6. Nothing \in [Reason -> SUBSET Int]
  BY TimingAssumption DEF Nothing, LongestGap
<1>7. /\ owed' \in [Task -> [Reason -> SUBSET Int]] /\ owed'[t] = Nothing
      /\ \A u \in Task : u # t => owed'[u] = owed[u]
  BY <1>6 DEF StartCycle, TypeOK
<1>8. /\ wake' \in [Task -> BOOLEAN] /\ wake'[t] = FALSE
      /\ \A u \in Task : u # t => wake'[u] = wake[u]
  BY DEF StartCycle, TypeOK
<1> QED
  BY <1>4, <1>5, <1>7, <1>8 DEF StartCycle, Becomes, Others

\* Waiting: a row that goes to wait, or to the top.
LEMMA WaitingFacts ==
  ASSUME NEW l \in Loop, NEW w \in Nat
  PROVE  LET m == Waiting(l, w) IN
         /\ m \in Loop
         /\ m.at = (IF w > 0 THEN "wait" ELSE "top") /\ m.timer = w
         /\ m.idle = l.idle /\ m.due = l.due /\ m.pending = l.pending /\ m.claimed = l.claimed
<1>1. (IF w > 0 THEN "wait" ELSE "top") \in {"top", "work", "report", "wait"}
  OBVIOUS
<1>2. Waiting(l, w) \in Loop
  BY <1>1, Zenon DEF Waiting, Loop
<1> QED
  BY <1>2 DEF Waiting, Loop

\* HoldAtGate: the loop waits for the window or for its deadline.
LEMMA HoldFacts ==
  ASSUME TypeOK, NEW t \in Task, HoldAtGate(t)
  PROVE  LET w == UntilDue(window.next, loop[t].due) IN
         /\ loop' \in [Task -> Loop] /\ lag' \in [Task -> 0 .. Slack] /\ w \in Nat
         /\ Becomes(t, IF w > 0 THEN "wait" ELSE "top", loop[t].idle, loop[t].due,
                    loop[t].pending, w, loop[t].claimed)
         /\ lag'[t] = 0 /\ wake'[t] = wake[t] /\ owed'[t] = owed[t]
         /\ Others(t)
<1> DEFINE w == UntilDue(window.next, loop[t].due)
           l == Waiting(loop[t], w)
<1>1. loop[t] \in Loop /\ loop[t].due \in Due /\ window.next \in Nat
  BY LoopFields DEF TypeOK
<1>2. w \in Nat
  BY <1>1, UntilDueBounds
<1>3. loop' = [loop EXCEPT ![t] = l]
  BY DEF HoldAtGate
<1>4. /\ l \in Loop /\ l.at = (IF w > 0 THEN "wait" ELSE "top") /\ l.timer = w
      /\ l.idle = loop[t].idle /\ l.due = loop[t].due /\ l.pending = loop[t].pending
      /\ l.claimed = loop[t].claimed
  BY <1>1, <1>2, WaitingFacts
<1> HIDE DEF l
<1>5. loop' \in [Task -> Loop] /\ loop'[t] = l /\ \A u \in Task : u # t => loop'[u] = loop[u]
  BY <1>3, <1>4, LoopRow
<1>6. /\ lag' \in [Task -> 0 .. Slack] /\ lag'[t] = 0
      /\ \A u \in Task : u # t => lag'[u] = lag[u]
  BY TimingAssumption DEF HoldAtGate, TypeOK
<1>7. UNCHANGED <<wake, owed>>
  BY DEF HoldAtGate
<1> QED
  BY <1>2, <1>4, <1>5, <1>6, <1>7 DEF Becomes, Others

\* WakeUp: the wait ends, and the token is remembered.
LEMMA WakeFacts ==
  ASSUME TypeOK, NEW t \in Task, WakeUp(t)
  PROVE  /\ loop' \in [Task -> Loop] /\ wake' \in [Task -> BOOLEAN]
         /\ Becomes(t, "top", MinIdle, loop[t].due, TRUE, loop[t].timer, loop[t].claimed)
         /\ lag'[t] = lag[t] /\ wake'[t] = FALSE /\ owed'[t] = owed[t]
         /\ Others(t)
<1> DEFINE l == [loop[t] EXCEPT !.at = "top", !.idle = MinIdle, !.pending = TRUE]
<1>1. loop[t] \in Loop /\ MinIdle \in 0 .. MaxIdle
  BY TimingAssumption DEF TypeOK
<1>2. l \in Loop
  BY <1>1, Zenon DEF Loop
<1>3. loop' = [loop EXCEPT ![t] = l]
  BY DEF WakeUp
<1>4. /\ l.at = "top" /\ l.idle = MinIdle /\ l.due = loop[t].due /\ l.pending = TRUE
      /\ l.timer = loop[t].timer /\ l.claimed = loop[t].claimed
  BY <1>1 DEF Loop
<1> HIDE DEF l
<1>5. loop' \in [Task -> Loop] /\ loop'[t] = l /\ \A u \in Task : u # t => loop'[u] = loop[u]
  BY <1>2, <1>3, LoopRow
<1>6. /\ wake' \in [Task -> BOOLEAN] /\ wake'[t] = FALSE
      /\ \A u \in Task : u # t => wake'[u] = wake[u]
  BY DEF WakeUp, TypeOK
<1>7. UNCHANGED <<lag, owed>>
  BY DEF WakeUp
<1> QED
  BY <1>4, <1>5, <1>6, <1>7 DEF Becomes, Others

\* TimerFires, Drained and ProcessFails only go on to the next stage.
LEMMA StageFacts ==
  ASSUME TypeOK, NEW t \in Task, NEW at \in At, loop' = [loop EXCEPT ![t].at = at],
         UNCHANGED <<lag, wake, owed>>
  PROVE  /\ loop' \in [Task -> Loop]
         /\ Becomes(t, at, loop[t].idle, loop[t].due, loop[t].pending, loop[t].timer,
                    loop[t].claimed)
         /\ lag'[t] = lag[t] /\ wake'[t] = wake[t] /\ owed'[t] = owed[t]
         /\ Others(t)
<1> DEFINE l == [loop[t] EXCEPT !.at = at]
<1>1. loop[t] \in Loop
  BY DEF TypeOK
<1>2. l \in Loop
  BY <1>1, Zenon DEF Loop, At
<1>3. loop' = [loop EXCEPT ![t] = l]
  OBVIOUS
<1>4. /\ l.at = at /\ l.idle = loop[t].idle /\ l.due = loop[t].due
      /\ l.pending = loop[t].pending /\ l.timer = loop[t].timer /\ l.claimed = loop[t].claimed
  BY <1>1 DEF Loop
<1> HIDE DEF l
<1>5. loop' \in [Task -> Loop] /\ loop'[t] = l /\ \A u \in Task : u # t => loop'[u] = loop[u]
  BY <1>2, <1>3, LoopRow
<1> QED
  BY <1>4, <1>5 DEF Becomes, Others

\* TakeRow leaves the loop of t to the rest of the action.
LEMMA TakeFacts ==
  ASSUME TypeOK, NEW t \in Task, TakeRow(t)
  PROVE  rows' \in [Task -> Rows] /\ took' \in [Task -> BOOLEAN]
<1>1. rows[t] \in Rows /\ rows[t].ready \in Nat /\ rows[t].ready > 0
      /\ rows[t].due \in SUBSET (1 .. MaxDue)
  BY DEF TypeOK, Rows, TakeRow
<1>2. rows[t].ready - 1 \in Nat
  BY <1>1
<1>3. [rows[t] EXCEPT !.ready = @ - 1] \in Rows
  <2> DEFINE n == rows[t].ready - 1
  <2>1. [rows[t] EXCEPT !.ready = n] \in Rows
    <3> HIDE DEF n
    <3>1. n \in Nat
      BY <1>2 DEF n
    <3> QED
      BY <3>1, <1>1, Zenon DEF Rows
  <2> QED
    BY <2>1
<1>4. ASSUME NEW d \in 1 .. MaxDue
      PROVE  [ready |-> rows[t].ready - 1, due |-> rows[t].due \cup {d}] \in Rows
  BY <1>1, <1>2 DEF Rows
<1>5. rows' \in [Task -> Rows]
  BY <1>3, <1>4 DEF TakeRow, TypeOK
<1>6. took' \in [Task -> BOOLEAN]
  BY DEF TakeRow, TypeOK
<1> QED
  BY <1>5, <1>6

\* ProcessOne: one more row is claimed.
LEMMA ProcessFacts ==
  ASSUME TypeOK, NEW t \in Task, ProcessOne(t)
  PROVE  /\ loop' \in [Task -> Loop]
         /\ Becomes(t, "work", loop[t].idle, loop[t].due, loop[t].pending, loop[t].timer,
                    loop[t].claimed + 1)
         /\ lag'[t] = lag[t] /\ wake'[t] = wake[t] /\ owed'[t] = owed[t]
         /\ Others(t)
<1> DEFINE n == loop[t].claimed + 1
           l == [loop[t] EXCEPT !.claimed = n]
<1>1. loop[t] \in Loop
  BY DEF TypeOK
<1>2. n \in 0 .. DrainLimit /\ loop[t].at = "work"
  BY LoopFields, TimingAssumption DEF ProcessOne, More, TakeRow
<1>3. loop' = [loop EXCEPT ![t] = l]
  BY DEF ProcessOne
<1> HIDE DEF n
<1>4. l \in Loop
  BY <1>1, <1>2, Zenon DEF Loop
<1>5. /\ l.at = loop[t].at /\ l.idle = loop[t].idle /\ l.due = loop[t].due
      /\ l.pending = loop[t].pending /\ l.timer = loop[t].timer /\ l.claimed = n
  BY <1>1 DEF Loop
<1> HIDE DEF l
<1>6. loop' \in [Task -> Loop] /\ loop'[t] = l /\ \A u \in Task : u # t => loop'[u] = loop[u]
  BY <1>3, <1>4, LoopRow
<1>7. UNCHANGED <<wake, lag, owed>>
  BY DEF ProcessOne, TakeRow
<1> QED
  BY <1>2, <1>5, <1>6, <1>7 DEF Becomes, Others, n

\* Conclude: the loop waits, or starts the next iteration, and owes what the
\* cycle reported.
LEMMA ConcludeFacts ==
  ASSUME TypeOK, NEW t \in Task, NEW idle \in 0 .. MaxIdle, NEW due \in Due,
         Conclude(t, idle, due)
  PROVE  LET w == UntilDue(idle, due) IN
         /\ loop' \in [Task -> Loop] /\ lag' \in [Task -> 0 .. Slack]
         /\ owed' \in [Task -> [Reason -> SUBSET Int]] /\ w \in Nat
         /\ took' \in [Task -> BOOLEAN]
         /\ Becomes(t, IF w > 0 THEN "wait" ELSE "top", idle, due, loop[t].pending, w, 0)
         /\ lag'[t] = 0 /\ wake'[t] = wake[t]
         /\ owed'[t]["gap"] = owed[t]["gap"]
         /\ owed'[t]["notified"] = owed[t]["notified"]
         /\ owed'[t]["deadline"] = {d + Slack : d \in due}
         /\ owed'[t]["backlog"] = IF idle = 0 THEN {Slack} ELSE {}
         /\ Others(t)
<1> DEFINE w == UntilDue(idle, due)
           m == [loop[t] EXCEPT !.idle = idle, !.due = due, !.claimed = 0]
           l == Waiting(m, w)
           dl == {d + Slack : d \in due}
           bl == IF idle = 0 THEN {Slack} ELSE {}
           o == [owed[t] EXCEPT !.deadline = dl, !.backlog = bl]
<1>1. loop[t] \in Loop /\ 0 \in 0 .. DrainLimit /\ idle \in Nat
  BY TimingAssumption DEF TypeOK
<1>2. m \in Loop
  BY <1>1, Zenon DEF Loop, Due
<1>3. m.idle = idle /\ m.due = due /\ m.pending = loop[t].pending /\ m.claimed = 0
  BY <1>1 DEF Loop
<1>4. loop' = [loop EXCEPT ![t] = l]
  BY DEF Conclude
<1>5. w \in Nat
  BY <1>1, UntilDueBounds
<1> HIDE DEF m
<1>6. /\ l \in Loop /\ l.at = (IF w > 0 THEN "wait" ELSE "top") /\ l.timer = w
      /\ l.idle = idle /\ l.due = due /\ l.pending = loop[t].pending /\ l.claimed = 0
  BY <1>2, <1>3, <1>5, WaitingFacts
<1> HIDE DEF l
<1>7. loop' \in [Task -> Loop] /\ loop'[t] = l /\ \A u \in Task : u # t => loop'[u] = loop[u]
  BY <1>4, <1>6, LoopRow
<1>8. dl \in SUBSET Int /\ bl \in SUBSET Int
  BY TimingAssumption DEF Due, Deadline
<1>9. owed[t] \in [Reason -> SUBSET Int]
  BY DEF TypeOK
<1>10. owed' = [owed EXCEPT ![t] = o]
  BY DEF Conclude
<1> HIDE DEF dl, bl
<1>11. /\ o \in [Reason -> SUBSET Int]
       /\ o["gap"] = owed[t]["gap"] /\ o["notified"] = owed[t]["notified"]
       /\ o["deadline"] = dl /\ o["backlog"] = bl
  BY <1>8, <1>9 DEF Reason
<1> HIDE DEF o
<1>12. /\ owed' \in [Task -> [Reason -> SUBSET Int]] /\ owed'[t] = o
       /\ \A u \in Task : u # t => owed'[u] = owed[u]
  BY <1>10, <1>11 DEF TypeOK
<1>13. /\ lag' \in [Task -> 0 .. Slack] /\ lag'[t] = 0
       /\ \A u \in Task : u # t => lag'[u] = lag[u]
  BY TimingAssumption DEF Conclude, TypeOK
<1>14. UNCHANGED wake /\ took' \in [Task -> BOOLEAN]
  BY DEF Conclude, TypeOK
<1> QED
  BY <1>5, <1>6, <1>7, <1>11, <1>12, <1>13, <1>14 DEF Becomes, Others, dl, bl

\* A deadline that is counted down is still a deadline.
LEMMA DueLeft ==
  ASSUME NEW due \in Due
  PROVE  {Left(d) : d \in due} \in Due
<1>1. CASE due = {}
  BY <1>1 DEF Due, Deadline
<1>2. CASE \E d \in 0 .. MaxDue \cup 0 .. MinIdle : due = {d}
  <2>1. PICK d \in 0 .. MaxDue \cup 0 .. MinIdle : due = {d}
    BY <1>2
  <2>2. Left(d) \in 0 .. MaxDue \cup 0 .. MinIdle
    BY TimingAssumption DEF Left
  <2>3. {Left(e) : e \in due} = {Left(d)}
    BY <2>1
  <2> QED
    BY <2>2, <2>3 DEF Due, Deadline
<1> QED
  BY <1>1, <1>2 DEF Due, Deadline

\* Tick: everything that is left gets less, and whoever is runnable lags.
LEMMA TickFacts ==
  ASSUME TypeOK, Tick, NEW t \in Task
  PROVE  /\ loop'[t] \in Loop
         /\ Becomes(t, loop[t].at, loop[t].idle, {Left(d) : d \in loop[t].due},
                    loop[t].pending, Left(loop[t].timer), loop[t].claimed)
         /\ Runnable(t) => lag[t] < Slack
         /\ lag'[t] = (IF Runnable(t) THEN lag[t] + 1 ELSE 0) /\ wake'[t] = wake[t]
         /\ \A r \in Reason : owed'[t][r] = {d - 1 : d \in owed[t][r]}
<1> DEFINE due == {Left(d) : d \in loop[t].due}
           timer == Left(loop[t].timer)
           l == [loop[t] EXCEPT !.timer = timer, !.due = due]
<1>1. loop[t] \in Loop /\ loop[t].due \in Due /\ loop[t].timer \in Nat
  BY LoopFields DEF TypeOK
<1>2. due \in Due /\ timer \in Nat
  BY <1>1, DueLeft DEF Left
<1>3. loop'[t] = l
  BY DEF Tick
<1> HIDE DEF due, timer
<1>4. l \in Loop
  BY <1>1, <1>2, Zenon DEF Loop, Due
<1>5. /\ l.at = loop[t].at /\ l.idle = loop[t].idle /\ l.due = due
      /\ l.pending = loop[t].pending /\ l.timer = timer /\ l.claimed = loop[t].claimed
  BY <1>1 DEF Loop
<1> HIDE DEF l
<1>6. /\ Runnable(t) => lag[t] < Slack
      /\ lag'[t] = (IF Runnable(t) THEN lag[t] + 1 ELSE 0) /\ wake'[t] = wake[t]
      /\ \A r \in Reason : owed'[t][r] = {d - 1 : d \in owed[t][r]}
  BY DEF Tick
<1> QED
  BY <1>3, <1>4, <1>5, <1>6 DEF Becomes, due, timer

\* Time passing keeps the types: what is left of a duration is a duration, what is left of an
\* obligation a number.
LEMMA TickTypes ==
  ASSUME TypeOK, Tick
  PROVE  TypeOK'
<1>1. rows' \in [Task -> Rows]
  <2>1. ASSUME NEW t \in Task
        PROVE  [ready |-> rows[t].ready + Cardinality(rows[t].due \cap {1}),
                due   |-> {d - 1 : d \in rows[t].due \ {1}}] \in Rows
    <3>1. rows[t].ready \in Nat /\ rows[t].due \in SUBSET (1 .. MaxDue)
      BY DEF TypeOK, Rows
    <3>2. Cardinality(rows[t].due \cap {1}) \in Nat
      <4>1. IsFiniteSet(rows[t].due \cap {1})
        BY FS_Singleton, FS_Subset
      <4> QED
        BY <4>1, FS_CardinalityType
    <3>3. {d - 1 : d \in rows[t].due \ {1}} \in SUBSET (1 .. MaxDue)
      BY <3>1, TimingAssumption
    <3> QED
      BY <3>1, <3>2, <3>3 DEF Rows
  <2> QED
    BY <2>1 DEF Tick
<1>2. loop' \in [Task -> Loop]
  <2>1. DOMAIN loop' = Task /\ loop' = [t \in Task |-> loop'[t]]
    BY DEF Tick
  <2> QED
    BY <2>1, TickFacts
<1>3. window' \in [open: 0 .. OpenFor, next: 0 .. WindowIdle]
  <2>1. window.open \in 0 .. OpenFor /\ window.next \in 0 .. WindowIdle
    BY DEF TypeOK
  <2>2. Left(window.open) \in 0 .. OpenFor /\ Left(window.next) \in 0 .. WindowIdle
    BY <2>1, TimingAssumption DEF Left
  <2>3. window' = [open |-> Left(window.open), next |-> Left(window.next)]
    BY DEF Tick
  <2> QED
    BY <2>2, <2>3
<1>4. lag' \in [Task -> 0 .. Slack]
  <2>1. \A t \in Task : lag[t] \in 0 .. Slack
    BY DEF TypeOK
  <2>2. ASSUME NEW t \in Task
        PROVE  (IF Runnable(t) THEN lag[t] + 1 ELSE 0) \in 0 .. Slack
    <3>1. Runnable(t) => lag[t] < Slack
      BY DEF Tick
    <3> QED
      BY <2>1, <3>1, TimingAssumption
  <2>3. lag' = [t \in Task |-> IF Runnable(t) THEN lag[t] + 1 ELSE 0]
    BY DEF Tick
  <2> QED
    BY <2>2, <2>3
<1>5. owed' \in [Task -> [Reason -> SUBSET Int]]
  <2>1. ASSUME NEW t \in Task, NEW r \in Reason
        PROVE  {d - 1 : d \in owed[t][r]} \in SUBSET Int
    <3>1. owed[t][r] \in SUBSET Int
      BY DEF TypeOK
    <3> QED
      BY <3>1
  <2>2. owed' = [t \in Task |-> [r \in Reason |-> {d - 1 : d \in owed[t][r]}]]
    BY DEF Tick
  <2> QED
    BY <2>1, <2>2
<1>6. quiet' \in 0 .. WindowIdle
  <2>1. quiet \in 0 .. WindowIdle
    BY DEF TypeOK
  <2>2. quiet' = IF quiet < WindowIdle THEN quiet + 1 ELSE quiet
    BY DEF Tick
  <2> QED
    BY <2>1, <2>2, TimingAssumption
<1>7. wake' \in [Task -> BOOLEAN] /\ took' \in [Task -> BOOLEAN]
  BY DEF Tick, TypeOK
<1> QED
  BY <1>1, <1>2, <1>3, <1>4, <1>5, <1>6, <1>7 DEF TypeOK

\* Notify: a wake that is owed a scan, and nothing else of the loop changes.
LEMMA NotifyFacts ==
  ASSUME TypeOK, NEW t \in Task, Notify(t)
  PROVE  /\ wake' \in [Task -> BOOLEAN] /\ owed' \in [Task -> [Reason -> SUBSET Int]]
         /\ UNCHANGED loop /\ lag'[t] = lag[t] /\ wake'[t] = TRUE
         /\ \A r \in Reason \ {"notified"} : owed'[t][r] = owed[t][r]
         /\ owed'[t]["notified"] =
              IF owed[t]["notified"] = {} THEN {2 * Slack} ELSE owed[t]["notified"]
         /\ Others(t)
<1> DEFINE n == IF owed[t]["notified"] = {} THEN {2 * Slack} ELSE owed[t]["notified"]
           o == [owed[t] EXCEPT !["notified"] = n]
<1>1. owed[t] \in [Reason -> SUBSET Int] /\ "notified" \in Reason
  BY DEF TypeOK, Reason
<1>2. n \in SUBSET Int
  BY <1>1, TimingAssumption
<1>3. owed' = [owed EXCEPT ![t] = o]
  BY <1>1 DEF Notify, Owe
<1> HIDE DEF n
<1>4. /\ o \in [Reason -> SUBSET Int] /\ o["notified"] = n
      /\ \A r \in Reason \ {"notified"} : o[r] = owed[t][r]
  BY <1>1, <1>2
<1> HIDE DEF o
<1>5. /\ owed' \in [Task -> [Reason -> SUBSET Int]] /\ owed'[t] = o
      /\ \A u \in Task : u # t => owed'[u] = owed[u]
  BY <1>3, <1>4 DEF TypeOK
<1>6. /\ wake' \in [Task -> BOOLEAN] /\ wake'[t] = TRUE
      /\ \A u \in Task : u # t => wake'[u] = wake[u]
  BY DEF Notify, TypeOK
<1>7. UNCHANGED <<loop, lag>>
  BY DEF Notify
<1> QED
  BY <1>4, <1>5, <1>6, <1>7 DEF Others, n

\* What a fresh process is made of is typed.
LEMMA FreshTypes ==
  /\ Fresh \in Loop /\ Nothing \in [Reason -> SUBSET Int]
  /\ [open |-> 0, next |-> 0] \in [open: 0 .. OpenFor, next: 0 .. WindowIdle]
  /\ 0 \in 0 .. Slack /\ WindowIdle \in 0 .. WindowIdle
<1>1. Fresh \in Loop
  BY TimingAssumption DEF Fresh, Loop, Deadline
<1>2. Nothing \in [Reason -> SUBSET Int]
  BY TimingAssumption DEF Nothing, LongestGap
<1> QED
  BY <1>1, <1>2, TimingAssumption

-----------------------------------------------------------------------------
\* Type correctness

\* Every step keeps the types.
LEMMA TypesAreKept ==
  ASSUME TypeOK, [Next]_vars
  PROVE  TypeOK'
<1>1. CASE Tick
  BY <1>1, TickTypes
<1>2. CASE Restart
  <2>1. rows' \in [Task -> Rows]
    BY <1>2 DEF Restart, TypeOK
  <2> QED
    BY <1>2, <2>1, FreshTypes DEF Restart, TypeOK
<1>3. ASSUME NEW t \in Task, Insert(t)
      PROVE  TypeOK'
  <2> DEFINE n == rows[t].ready + 1
  <2>1. rows[t] \in Rows /\ n \in Nat
    BY DEF TypeOK, Rows
  <2> HIDE DEF n
  <2>2. [rows[t] EXCEPT !.ready = n] \in Rows
    BY <2>1, Zenon DEF Rows
  <2>3. rows' = [rows EXCEPT ![t] = [rows[t] EXCEPT !.ready = n]]
    BY <1>3 DEF Insert, n
  <2>4. rows' \in [Task -> Rows]
    BY <2>2, <2>3 DEF TypeOK
  <2> QED
    BY <1>3, <2>4 DEF Insert, TypeOK
<1>4. ASSUME NEW t \in Task, Notify(t)
      PROVE  TypeOK'
  BY <1>4, NotifyFacts DEF Notify, TypeOK
<1>5. ASSUME NEW t \in Task, BypassGate(t)
      PROVE  TypeOK'
  <2>1. StartCycle(t) /\ UNCHANGED <<window, quiet>>
    BY <1>5 DEF BypassGate
  <2> QED
    BY <2>1, StartFacts DEF StartCycle, TypeOK
<1>6. ASSUME NEW t \in Task, PassGate(t)
      PROVE  TypeOK'
  <2>1. StartCycle(t) /\ Allow /\ quiet' = IF quiet >= WindowIdle THEN 0 ELSE quiet
    BY <1>6 DEF PassGate
  <2>2. window' \in [open: 0 .. OpenFor, next: 0 .. WindowIdle]
    BY <2>1, TimingAssumption DEF Allow, TypeOK
  <2>3. quiet' \in 0 .. WindowIdle
    BY <2>1, TimingAssumption DEF TypeOK
  <2> QED
    BY <2>1, <2>2, <2>3, StartFacts DEF StartCycle, TypeOK
<1>7. ASSUME NEW t \in Task, HoldAtGate(t)
      PROVE  TypeOK'
  BY <1>7, HoldFacts DEF HoldAtGate, TypeOK
<1>8. ASSUME NEW t \in Task, WakeUp(t)
      PROVE  TypeOK'
  BY <1>8, WakeFacts DEF WakeUp, TypeOK
<1>9. ASSUME NEW t \in Task, TimerFires(t) \/ Drained(t) \/ ProcessFails(t)
      PROVE  TypeOK'
  <2>1. PICK at \in At : loop' = [loop EXCEPT ![t].at = at]
    BY <1>9 DEF TimerFires, Drained, ProcessFails, At
  <2>2. UNCHANGED <<rows, wake, window, lag, owed, quiet, took>>
    BY <1>9 DEF TimerFires, Drained, ProcessFails
  <2>3. loop' \in [Task -> Loop]
    BY <2>1, <2>2, StageFacts
  <2> QED
    BY <2>2, <2>3 DEF TypeOK
<1>10. ASSUME NEW t \in Task, ProcessOne(t)
       PROVE  TypeOK'
  <2>1. TakeRow(t)
    BY <1>10 DEF ProcessOne
  <2> QED
    BY <1>10, <2>1, TakeFacts, ProcessFacts DEF TakeRow, TypeOK
<1>11. ASSUME NEW t \in Task, ScanRow(t)
       PROVE  TypeOK'
  <2>1. TakeRow(t) /\ UNCHANGED loop
    BY <1>11 DEF ScanRow
  <2> QED
    BY <2>1, TakeFacts DEF TakeRow, TypeOK
<1>12. ASSUME NEW t \in Task, NEW idle \in 0 .. MaxIdle, NEW due \in Due,
              Conclude(t, idle, due)
       PROVE  TypeOK'
  <2>1. /\ loop' \in [Task -> Loop] /\ lag' \in [Task -> 0 .. Slack]
        /\ owed' \in [Task -> [Reason -> SUBSET Int]] /\ took' \in [Task -> BOOLEAN]
    BY <1>12, ConcludeFacts
  <2>2. UNCHANGED <<rows, wake, window, quiet>>
    BY <1>12 DEF Conclude
  <2> QED
    BY <2>1, <2>2 DEF TypeOK
<1>13. ASSUME NEW t \in Task, EndCycle(t) \/ CyclePanics(t)
       PROVE  TypeOK'
  <2>1. {} \in Due
    BY DEF Due, Deadline
  <2> QED
    BY <1>12, <1>13, <2>1, IdleBounds, NextDueBounds DEF EndCycle, CyclePanics
<1>14. CASE UNCHANGED vars
  BY <1>14 DEF vars, TypeOK
<1> QED
  BY <1>1, <1>2, <1>3, <1>4, <1>5, <1>6, <1>7, <1>8, <1>9, <1>10, <1>11, <1>13, <1>14
     DEF Next, Run

\* At the start nothing waits and the window may open.
LEMMA InitTypes ==
  ASSUME Init
  PROVE  TypeOK
<1>1. rows \in [Task -> Rows]
  <2>1. [ready: 0 .. MaxRows, due: SUBSET (1 .. MaxDue)] \subseteq Rows
    BY DEF Rows
  <2> QED
    BY <2>1 DEF Init
<1> QED
  BY <1>1, FreshTypes DEF Init, TypeOK

\* The loops stay of their declared shape, for any number of them.
THEOREM LoopsAreTyped == Spec => []TypeOK
<1>1. Init => TypeOK
  BY InitTypes
<1>2. TypeOK /\ [Next]_vars => TypeOK'
  BY TypesAreKept
<1> QED
  BY <1>1, <1>2, PTL DEF Spec

-----------------------------------------------------------------------------
\* The inductive invariants

\* The window as a function of the time since the scan that opened it.
Calendar ==
  /\ window.next = WindowIdle - quiet
  /\ window.open = IF quiet < OpenFor THEN OpenFor - quiet ELSE 0

\* A loop that waits for its timer does not lag.
Punctual(t) == loop[t].at = "wait" /\ ~wake[t] /\ loop[t].timer > 0 => lag[t] = 0

InCycle(t) == loop[t].at \in {"work", "report"}
Between(t) == loop[t].at \in {"top", "wait"}

\* A notified scan has its wake still in the channel, or just taken out of it. A
\* cycle under way has a whole slack left for the next one to start.
Awake(t) ==
  \A d \in owed[t]["notified"] :
    /\ wake[t] \/ (loop[t].pending /\ loop[t].at = "top")
    /\ d >= (IF InCycle(t) THEN 2 * Slack ELSE Slack) - lag[t]

\* A deadline that is owed is the one the loop has stored, and no wait passes it.
Heeded(t) ==
  \A e \in owed[t]["deadline"] :
    /\ Between(t)
    /\ \E d \in loop[t].due :
         /\ e >= Slack + d - (IF d = 0 THEN lag[t] ELSE 0)
         /\ loop[t].at = "wait" => loop[t].timer <= d

\* A runner that owes its backlog a scan is about to start it.
Draining(t) ==
  t \notin Combined =>
    \A e \in owed[t]["backlog"] :
      loop[t].at = "top" /\ loop[t].idle = 0 /\ e >= Slack - lag[t]

Timely(t) == Punctual(t) /\ Awake(t) /\ Heeded(t) /\ Draining(t)

\* What is left of a wait.
Remaining(t) == IF loop[t].at = "wait" THEN loop[t].timer ELSE 0

\* The gate will let the loop pass once its wait is over.
Sure(t) ==
  \/ wake[t] \/ loop[t].pending \/ 0 \in loop[t].due
  \/ /\ Remaining(t) > 0
     /\ Remaining(t) = window.next \/ loop[t].due = {Remaining(t)}
  \/ /\ Remaining(t) = 0
     /\ window.next = 0 \/ window.open >= OpenFor - lag[t]

\* What is left of the gap covers the stages that are still to come: the cycle
\* and the idle wait, then perhaps a wait at the gate, then nothing else.
Spared(t) ==
  \A g \in owed[t]["gap"] :
    \/ InCycle(t) /\ g >= WindowIdle - OpenFor + MaxIdle + 3 * Slack - lag[t]
    \/ Between(t) /\ g >= WindowIdle - OpenFor + 2 * Slack + Remaining(t) - lag[t]
    \/ Between(t) /\ g >= Slack + Remaining(t) - lag[t] /\ Sure(t)

\* The rows a cycle has counted are rows it took.
Counted(t) == loop[t].claimed > 0 => took[t]

-----------------------------------------------------------------------------
\* Wakes, deadlines and backlogs: Timely is kept by every step

\* A step of one loop says nothing new about the deadlines of the other loops.
LEMMA OthersTimely ==
  ASSUME NEW t \in Task, NEW u \in Task, u # t, Others(t), Timely(u)
  PROVE  Timely(u)'
<1>1. loop'[u] = loop[u] /\ lag'[u] = lag[u] /\ wake'[u] = wake[u] /\ owed'[u] = owed[u]
  BY DEF Others
<1> QED
  BY <1>1 DEF Timely, Punctual, Awake, Heeded, Draining, InCycle, Between

\* A scan that starts owes only the next one.
LEMMA StartTimely ==
  ASSUME TypeOK, NEW t \in Task, StartCycle(t)
  PROVE  Timely(t)'
<1>1. loop'[t].at = "work" /\ owed'[t] = Nothing
  BY StartFacts DEF Becomes
<1>2. /\ owed'[t]["notified"] = {} /\ owed'[t]["deadline"] = {} /\ owed'[t]["backlog"] = {}
  BY <1>1 DEF Nothing, Reason
<1> QED
  BY <1>1, <1>2 DEF Timely, Punctual, Awake, Heeded, Draining

\* A loop held at the gate has no wake, no passed deadline and no backlog.
LEMMA HoldTimely ==
  ASSUME TypeOK, NEW t \in Task, HoldAtGate(t), Timely(t)
  PROVE  Timely(t)'
<1> DEFINE w == UntilDue(window.next, loop[t].due)
<1>1. /\ loop'[t].at = (IF w > 0 THEN "wait" ELSE "top") /\ loop'[t].due = loop[t].due
      /\ loop'[t].timer = w /\ lag'[t] = 0 /\ wake'[t] = wake[t] /\ owed'[t] = owed[t]
  BY HoldFacts DEF Becomes
<1>2. /\ loop[t].at = "top" /\ loop[t].idle > 0 /\ ~wake[t] /\ ~loop[t].pending
      /\ 0 \notin loop[t].due
  BY DEF HoldAtGate, Gated, HadWake, DueForced
<1>3. loop[t].due \in Due /\ window.next \in Nat /\ loop[t].due \subseteq Nat
  BY LoopFields, TimingAssumption DEF TypeOK, Due, Deadline
<1>4. w \in Nat /\ \A d \in loop[t].due : d > 0 => w > 0 /\ w <= d
  BY <1>3, UntilDueBounds
<1> HIDE DEF w
<1>5. Punctual(t)'
  BY <1>1 DEF Punctual
<1>6. Awake(t)'
  <2>1. owed[t]["notified"] = {}
    BY <1>2 DEF Timely, Awake
  <2> QED
    BY <1>1, <2>1 DEF Awake
<1>7. Heeded(t)'
  <2> SUFFICES ASSUME NEW e \in owed[t]["deadline"]
               PROVE  \E d \in loop[t].due :
                        /\ e >= Slack + d - (IF d = 0 THEN 0 ELSE 0)
                        /\ loop'[t].at = "wait" => w <= d
    BY <1>1 DEF Heeded, Between
  <2>1. PICK d \in loop[t].due : e >= Slack + d - (IF d = 0 THEN lag[t] ELSE 0)
    BY DEF Timely, Heeded
  <2>2. d \in Nat /\ d > 0
    BY <1>2, <1>3
  <2> QED
    BY <2>1, <2>2, <1>4, TimingAssumption
<1>8. Draining(t)'
  <2>1. t \notin Combined => owed[t]["backlog"] = {}
    BY <1>2 DEF Timely, Draining
  <2> QED
    BY <1>1, <2>1 DEF Draining
<1> QED
  BY <1>5, <1>6, <1>7, <1>8 DEF Timely

\* A wake that ends a wait stays with the loop until the gate.
LEMMA WakeTimely ==
  ASSUME TypeOK, NEW t \in Task, WakeUp(t), Timely(t)
  PROVE  Timely(t)'
<1>1. /\ loop'[t].at = "top" /\ loop'[t].due = loop[t].due /\ loop'[t].pending = TRUE
      /\ lag'[t] = lag[t] /\ owed'[t] = owed[t]
  BY WakeFacts DEF Becomes
<1>2. loop[t].at = "wait"
  BY DEF WakeUp
<1>3. Punctual(t)'
  BY <1>1 DEF Punctual
<1>4. Awake(t)'
  BY <1>1, <1>2 DEF Timely, Awake, InCycle
<1>5. Heeded(t)'
  BY <1>1 DEF Timely, Heeded, Between
<1>6. Draining(t)'
  BY <1>1, <1>2 DEF Timely, Draining
<1> QED
  BY <1>3, <1>4, <1>5, <1>6 DEF Timely

\* A stage of a cycle, and the end of a wait, change nothing that is owed.
LEMMA StageTimely ==
  ASSUME TypeOK, NEW t \in Task, Timely(t),
         loop'[t].due = loop[t].due, loop'[t].pending = loop[t].pending,
         lag'[t] = lag[t], wake'[t] = wake[t], owed'[t] = owed[t],
         \/ InCycle(t) /\ loop'[t].at \in {"work", "report"}
         \/ loop[t].at = "wait" /\ ~wake[t] /\ loop'[t].at = "top"
  PROVE  Timely(t)'
<1>1. Punctual(t)'
  BY DEF Punctual
<1>2. Awake(t)'
  BY DEF Timely, Awake, InCycle
<1>3. Heeded(t)'
  BY DEF Timely, Heeded, InCycle, Between
<1>4. Draining(t)'
  BY DEF Timely, Draining, InCycle
<1> QED
  BY <1>1, <1>2, <1>3, <1>4 DEF Timely

\* A cycle that ends leaves a wake in the channel, and stores what it owes.
LEMMA ConcludeTimely ==
  ASSUME TypeOK, NEW t \in Task, InCycle(t), NEW idle \in 0 .. MaxIdle, NEW due \in Due,
         0 \notin due, idle = 0 /\ t \notin Combined => due = {},
         Conclude(t, idle, due), Timely(t)
  PROVE  Timely(t)'
<1> DEFINE w == UntilDue(idle, due)
<1>1. /\ loop'[t].at = (IF w > 0 THEN "wait" ELSE "top") /\ loop'[t].due = due
      /\ loop'[t].idle = idle /\ loop'[t].timer = w /\ lag'[t] = 0 /\ wake'[t] = wake[t]
      /\ owed'[t]["notified"] = owed[t]["notified"]
      /\ owed'[t]["deadline"] = {d + Slack : d \in due}
      /\ owed'[t]["backlog"] = IF idle = 0 THEN {Slack} ELSE {}
  <2>1. /\ Becomes(t, IF w > 0 THEN "wait" ELSE "top", idle, due, loop[t].pending, w, 0)
        /\ lag'[t] = 0 /\ wake'[t] = wake[t]
        /\ owed'[t]["notified"] = owed[t]["notified"]
        /\ owed'[t]["deadline"] = {d + Slack : d \in due}
        /\ owed'[t]["backlog"] = IF idle = 0 THEN {Slack} ELSE {}
    BY ConcludeFacts
  <2> HIDE DEF w
  <2> QED
    BY <2>1 DEF Becomes
<1>2. idle \in Nat /\ due \subseteq Nat
  BY TimingAssumption DEF Due, Deadline
<1>3. /\ w \in Nat
      /\ due = {} => w = idle
      /\ \A d \in due : d > 0 => w > 0 /\ w <= d
  BY <1>2, UntilDueBounds
<1> HIDE DEF w
<1>4. Punctual(t)'
  BY <1>1 DEF Punctual
<1>5. Awake(t)'
  <2> SUFFICES ASSUME NEW d \in owed[t]["notified"]
               PROVE  wake[t] /\ d >= Slack - 0
    BY <1>1 DEF Awake, InCycle
  <2>1. wake[t] /\ d >= 2 * Slack - lag[t]
    BY DEF Timely, Awake, InCycle
  <2>2. d \in Int /\ lag[t] \in Int /\ lag[t] <= Slack
    BY TimingAssumption DEF TypeOK, Reason
  <2> QED
    BY <2>1, <2>2, TimingAssumption
<1>6. Heeded(t)'
  <2> SUFFICES ASSUME NEW d \in due
               PROVE  /\ d + Slack >= Slack + d - (IF d = 0 THEN 0 ELSE 0)
                      /\ loop'[t].at = "wait" => w <= d
    BY <1>1 DEF Heeded, Between
  <2>1. d \in Nat /\ d > 0
    BY <1>2
  <2> QED
    BY <2>1, <1>3, TimingAssumption
<1>7. Draining(t)'
  <2> SUFFICES ASSUME t \notin Combined, NEW e \in owed'[t]["backlog"]
               PROVE  loop'[t].at = "top" /\ loop'[t].idle = 0 /\ e >= Slack - 0
    BY <1>1 DEF Draining
  <2>1. idle = 0 /\ e = Slack
    BY <1>1
  <2>2. w = 0
    BY <2>1, <1>3
  <2> QED
    BY <1>1, <2>1, <2>2, TimingAssumption
<1> QED
  BY <1>4, <1>5, <1>6, <1>7 DEF Timely

\* Time that passes is either waited or lagged, never both.
LEMMA TickTimely ==
  ASSUME TypeOK, Tick, NEW t \in Task, Timely(t)
  PROVE  Timely(t)'
<1>1. /\ loop'[t].at = loop[t].at /\ loop'[t].idle = loop[t].idle
      /\ loop'[t].due = {Left(d) : d \in loop[t].due} /\ loop'[t].pending = loop[t].pending
      /\ loop'[t].timer = Left(loop[t].timer)
      /\ lag'[t] = (IF Runnable(t) THEN lag[t] + 1 ELSE 0) /\ wake'[t] = wake[t]
      /\ Runnable(t) => lag[t] < Slack
  BY TickFacts DEF Becomes
<1>2. /\ owed'[t]["notified"] = {d - 1 : d \in owed[t]["notified"]}
      /\ owed'[t]["deadline"] = {d - 1 : d \in owed[t]["deadline"]}
      /\ owed'[t]["backlog"] = {d - 1 : d \in owed[t]["backlog"]}
  BY TickFacts DEF Reason
<1>3. /\ loop[t].timer \in Nat /\ lag[t] \in Nat /\ loop[t].due \subseteq Nat
      /\ \A r \in Reason : owed[t][r] \subseteq Int
  BY LoopFields, TimingAssumption DEF TypeOK, Due, Deadline
<1>4. Punctual(t)'
  BY <1>1, <1>3 DEF Timely, Punctual, Runnable, Left
<1>5. Awake(t)'
  <2> SUFFICES ASSUME NEW d \in owed[t]["notified"]
               PROVE  /\ wake[t] \/ (loop[t].pending /\ loop[t].at = "top")
                      /\ d - 1 >= (IF InCycle(t) THEN 2 * Slack ELSE Slack) - lag'[t]
    BY <1>1, <1>2 DEF Awake, InCycle
  <2>1. /\ wake[t] \/ (loop[t].pending /\ loop[t].at = "top")
        /\ d >= (IF InCycle(t) THEN 2 * Slack ELSE Slack) - lag[t]
    BY DEF Timely, Awake
  <2>2. Runnable(t)
    BY <2>1 DEF Runnable
  <2>3. d \in Int
    BY <1>3 DEF Reason
  <2> QED
    BY <1>1, <1>3, <2>1, <2>2, <2>3, TimingAssumption
<1>6. Heeded(t)'
  <2> SUFFICES ASSUME NEW e \in owed[t]["deadline"]
               PROVE  /\ Between(t)
                      /\ \E d \in {Left(f) : f \in loop[t].due} :
                           /\ e - 1 >= Slack + d - (IF d = 0 THEN lag'[t] ELSE 0)
                           /\ loop[t].at = "wait" => Left(loop[t].timer) <= d
    BY <1>1, <1>2 DEF Heeded, Between
  <2>1. PICK d \in loop[t].due :
          /\ e >= Slack + d - (IF d = 0 THEN lag[t] ELSE 0)
          /\ loop[t].at = "wait" => loop[t].timer <= d
    BY DEF Timely, Heeded
  <2>2. Between(t)
    BY DEF Timely, Heeded
  <2>3. d \in Nat /\ e \in Int
    BY <1>3 DEF Reason
  <2>4. d = 0 => Runnable(t)
    BY <1>3, <2>1, <2>2 DEF Runnable, Between
  <2>5. e - 1 >= Slack + Left(d) - (IF Left(d) = 0 THEN lag'[t] ELSE 0)
    BY <1>1, <1>3, <2>1, <2>3, <2>4, TimingAssumption DEF Left
  <2>6. loop[t].at = "wait" => Left(loop[t].timer) <= Left(d)
    BY <1>3, <2>1, <2>3 DEF Left
  <2> QED
    BY <2>2, <2>5, <2>6
<1>7. Draining(t)'
  <2> SUFFICES ASSUME t \notin Combined, NEW e \in owed[t]["backlog"]
               PROVE  loop[t].at = "top" /\ loop[t].idle = 0 /\ e - 1 >= Slack - lag'[t]
    BY <1>1, <1>2 DEF Draining
  <2>1. loop[t].at = "top" /\ loop[t].idle = 0 /\ e >= Slack - lag[t]
    BY DEF Timely, Draining
  <2>2. e \in Int /\ Runnable(t)
    BY <1>3, <2>1 DEF Runnable, Reason
  <2> QED
    BY <1>1, <1>3, <2>1, <2>2, TimingAssumption
<1> QED
  BY <1>4, <1>5, <1>6, <1>7 DEF Timely

\* The wake is in the channel, whatever the loop is doing.
LEMMA NotifyTimely ==
  ASSUME TypeOK, NEW t \in Task, Notify(t), Timely(t)
  PROVE  Timely(t)'
<1>1. /\ loop' = loop /\ lag'[t] = lag[t] /\ wake'[t] = TRUE
      /\ owed'[t]["deadline"] = owed[t]["deadline"] /\ owed'[t]["backlog"] = owed[t]["backlog"]
      /\ owed'[t]["notified"] =
           IF owed[t]["notified"] = {} THEN {2 * Slack} ELSE owed[t]["notified"]
  BY NotifyFacts DEF Reason
<1>2. lag[t] \in Nat
  BY TimingAssumption DEF TypeOK
<1>3. Awake(t)'
  <2> SUFFICES ASSUME NEW d \in owed'[t]["notified"]
               PROVE  d >= (IF InCycle(t) THEN 2 * Slack ELSE Slack) - lag[t]
    BY <1>1 DEF Awake, InCycle
  <2>1. CASE d = 2 * Slack
    BY <1>2, <2>1, TimingAssumption
  <2>2. CASE d \in owed[t]["notified"]
    BY <2>2 DEF Timely, Awake
  <2> QED
    BY <1>1, <2>1, <2>2
<1>4. Punctual(t)' /\ Heeded(t)' /\ Draining(t)'
  BY <1>1 DEF Timely, Punctual, Heeded, Draining, Between
<1> QED
  BY <1>3, <1>4 DEF Timely

\* The cases in which a cycle ends, and what it may report then.
LEMMA Endings ==
  ASSUME TypeOK, NEW t \in Task, EndCycle(t) \/ CyclePanics(t)
  PROVE  \E idle \in 0 .. MaxIdle, due \in Due :
           /\ Conclude(t, idle, due) /\ InCycle(t) /\ 0 \notin due
           /\ idle = 0 /\ t \notin Combined => due = {}
           /\ EndCycle(t) /\ ~More(t) => idle > 0
<1>1. CASE EndCycle(t)
  <2>1. PICK due \in NextDue(t) : Conclude(t, NewIdle(t), due)
    BY <1>1 DEF EndCycle
  <2>2. due \in Due /\ 0 \notin due /\ NewIdle(t) \in 0 .. MaxIdle
    BY <2>1, NextDueBounds, IdleBounds
  <2>3. NewIdle(t) = 0 <=> More(t)
    BY IdleBounds, TimingAssumption DEF NewIdle
  <2>4. More(t) /\ t \notin Combined => due = {}
    BY <2>1 DEF NextDue
  <2>5. InCycle(t)
    BY <1>1 DEF EndCycle, InCycle
  <2>6. ~More(t) => NewIdle(t) > 0
    BY <2>2, <2>3
  <2> QED
    BY <2>1, <2>2, <2>3, <2>4, <2>5, <2>6
<1>2. CASE CyclePanics(t) /\ ~EndCycle(t)
  <2>1. Conclude(t, IdleAfterNothing(t), {}) /\ InCycle(t)
    BY <1>2 DEF CyclePanics, InCycle
  <2>2. {} \in Due
    BY DEF Due, Deadline
  <2> QED
    BY <1>2, <2>1, <2>2, IdleBounds
<1> QED
  BY <1>1, <1>2

\* Every step keeps every loop timely.
LEMMA TimelyIsKept ==
  ASSUME TypeOK, [Next]_vars, NEW u \in Task, Timely(u)
  PROVE  Timely(u)'
<1>1. CASE Tick
  BY <1>1, TickTimely
<1>2. CASE Restart
  <2>1. loop'[u] = Fresh /\ owed'[u] = Nothing
    BY <1>2 DEF Restart
  <2>2. loop'[u].at = "top"
    BY <2>1 DEF Fresh
  <2>3. /\ owed'[u]["notified"] = {} /\ owed'[u]["deadline"] = {} /\ owed'[u]["backlog"] = {}
    BY <2>1 DEF Nothing, Reason
  <2> QED
    BY <2>2, <2>3 DEF Timely, Punctual, Awake, Heeded, Draining
<1>3. ASSUME NEW t \in Task, Insert(t) \/ ScanRow(t)
      PROVE  Timely(u)'
  <2>1. UNCHANGED <<loop, wake, lag, owed>>
    BY <1>3 DEF Insert, ScanRow, TakeRow
  <2> QED
    BY <2>1 DEF Timely, Punctual, Awake, Heeded, Draining, InCycle, Between
<1>4. ASSUME NEW t \in Task, Notify(t)
      PROVE  Timely(u)'
  BY <1>4, NotifyTimely, NotifyFacts, OthersTimely
<1>5. ASSUME NEW t \in Task, BypassGate(t) \/ PassGate(t)
      PROVE  Timely(u)'
  <2>1. StartCycle(t)
    BY <1>5 DEF BypassGate, PassGate
  <2> QED
    BY <2>1, StartTimely, StartFacts, OthersTimely
<1>6. ASSUME NEW t \in Task, HoldAtGate(t)
      PROVE  Timely(u)'
  BY <1>6, HoldTimely, HoldFacts, OthersTimely
<1>7. ASSUME NEW t \in Task, WakeUp(t)
      PROVE  Timely(u)'
  BY <1>7, WakeTimely, WakeFacts, OthersTimely
<1>8. ASSUME NEW t \in Task, TimerFires(t) \/ Drained(t) \/ ProcessFails(t)
      PROVE  Timely(u)'
  <2>1. PICK at \in At :
          /\ loop' = [loop EXCEPT ![t].at = at]
          /\ \/ InCycle(t) /\ at \in {"work", "report"}
             \/ loop[t].at = "wait" /\ ~wake[t] /\ at = "top"
    BY <1>8 DEF TimerFires, Drained, ProcessFails, At, InCycle
  <2>2. UNCHANGED <<wake, lag, owed>>
    BY <1>8 DEF TimerFires, Drained, ProcessFails
  <2>3. /\ Becomes(t, at, loop[t].idle, loop[t].due, loop[t].pending, loop[t].timer,
                   loop[t].claimed)
        /\ Others(t)
    BY <2>1, <2>2, StageFacts
  <2>4. CASE u = t
    <3>1. loop'[t].at = at /\ loop'[t].due = loop[t].due /\ loop'[t].pending = loop[t].pending
      BY <2>3 DEF Becomes
    <3> QED
      BY <2>1, <2>2, <2>4, <3>1, StageTimely
  <2> QED
    BY <2>3, <2>4, OthersTimely
<1>9. ASSUME NEW t \in Task, ProcessOne(t)
      PROVE  Timely(u)'
  <2>1. /\ Becomes(t, "work", loop[t].idle, loop[t].due, loop[t].pending, loop[t].timer,
                   loop[t].claimed + 1)
        /\ lag'[t] = lag[t] /\ wake'[t] = wake[t] /\ owed'[t] = owed[t]
        /\ Others(t)
    BY <1>9, ProcessFacts
  <2>2. InCycle(t)
    BY <1>9 DEF ProcessOne, TakeRow, InCycle
  <2>3. CASE u = t
    <3>1. loop'[t].at = "work" /\ loop'[t].due = loop[t].due /\ loop'[t].pending = loop[t].pending
      BY <2>1 DEF Becomes
    <3> QED
      BY <2>1, <2>2, <2>3, <3>1, StageTimely
  <2> QED
    BY <2>1, <2>3, OthersTimely
<1>10. ASSUME NEW t \in Task, EndCycle(t) \/ CyclePanics(t)
       PROVE  Timely(u)'
  <2>1. PICK idle \in 0 .. MaxIdle, due \in Due :
          /\ Conclude(t, idle, due) /\ InCycle(t) /\ 0 \notin due
          /\ idle = 0 /\ t \notin Combined => due = {}
    BY <1>10, Endings
  <2>2. Others(t)
    BY <2>1, ConcludeFacts
  <2>3. CASE u = t
    BY <2>1, <2>3, ConcludeTimely
  <2> QED
    BY <2>2, <2>3, OthersTimely
<1>11. CASE UNCHANGED vars
  BY <1>11 DEF vars, Timely, Punctual, Awake, Heeded, Draining, InCycle, Between
<1> QED
  BY <1>1, <1>2, <1>3, <1>4, <1>5, <1>6, <1>7, <1>8, <1>9, <1>10, <1>11 DEF Next, Run

\* A loop that has just been started is timely.
LEMMA InitTimely ==
  ASSUME Init, NEW t \in Task
  PROVE  Timely(t)
<1>1. loop[t].at = "top" /\ owed[t] = Nothing
  BY DEF Init, Fresh
<1>2. owed[t]["notified"] = {} /\ owed[t]["deadline"] = {} /\ owed[t]["backlog"] = {}
  BY <1>1 DEF Nothing, Reason
<1> QED
  BY <1>1, <1>2 DEF Timely, Punctual, Awake, Heeded, Draining

\* No obligation runs out before it is met.
LEMMA TimelyIsOnTime ==
  ASSUME TypeOK, NEW t \in Task, Timely(t)
  PROVE  /\ OnTime(t, "notified") /\ OnTime(t, "deadline")
         /\ t \notin Combined => OnTime(t, "backlog")
<1>1. /\ lag[t] \in Nat /\ lag[t] <= Slack /\ loop[t].due \subseteq Nat
      /\ \A r \in Reason : owed[t][r] \subseteq Int
  BY LoopFields, TimingAssumption DEF TypeOK, Due, Deadline
<1>2. OnTime(t, "notified")
  BY <1>1, TimingAssumption DEF Timely, Awake, OnTime, Reason
<1>3. OnTime(t, "deadline")
  <2> SUFFICES ASSUME NEW e \in owed[t]["deadline"]
               PROVE  e >= 0
    BY DEF OnTime
  <2>1. PICK d \in loop[t].due : e >= Slack + d - (IF d = 0 THEN lag[t] ELSE 0)
    BY DEF Timely, Heeded
  <2>2. d \in Nat /\ e \in Int
    BY <1>1 DEF Reason
  <2> QED
    BY <1>1, <2>1, <2>2, TimingAssumption
<1>4. t \notin Combined => OnTime(t, "backlog")
  BY <1>1, TimingAssumption DEF Timely, Draining, OnTime, Reason
<1> QED
  BY <1>2, <1>3, <1>4

\* The loops are well typed and timely in every reachable state.
LEMMA AlwaysTimely == Spec => [](TypeOK /\ \A t \in Task : Timely(t))
<1> DEFINE I == TypeOK /\ \A t \in Task : Timely(t)
<1>1. Init => I
  BY InitTypes, InitTimely
<1>2. I /\ [Next]_vars => I'
  BY TypesAreKept, TimelyIsKept
<1> QED
  BY <1>1, <1>2, PTL DEF Spec

\* No wake is lost, for any number of loops and any timing: Awake is the reason,
\* the token is in the channel or with a loop on its way to the gate.
THEOREM WakesAreKept == Spec => []NotifiedIsScanned
<1>1. TypeOK /\ (\A t \in Task : Timely(t)) => NotifiedIsScanned
  BY TimelyIsOnTime DEF NotifiedIsScanned
<1> QED
  BY <1>1, AlwaysTimely, PTL

\* A reported deadline is scanned within its slack, behind a closed gate or in the
\* middle of a long idle wait.
THEOREM DeadlinesAreKept == Spec => []DeadlineIsKept
<1>1. TypeOK /\ (\A t \in Task : Timely(t)) => DeadlineIsKept
  BY TimelyIsOnTime DEF DeadlineIsKept
<1> QED
  BY <1>1, AlwaysTimely, PTL

\* A runner that left rows behind scans again at once.
THEOREM RunnersDrain == Spec => []RunnerBacklogIsDrained
<1>1. TypeOK /\ (\A t \in Task : Timely(t)) => RunnerBacklogIsDrained
  BY TimelyIsOnTime DEF RunnerBacklogIsDrained
<1> QED
  BY <1>1, AlwaysTimely, PTL

-----------------------------------------------------------------------------
\* The window

\* Only time and the scans that pass the gate move the window.
LEMMA WindowSteps ==
  ASSUME [Next]_vars
  PROVE  \/ Tick \/ Restart \/ \E t \in Task : PassGate(t)
         \/ UNCHANGED <<window, quiet>>
<1>1. ASSUME NEW t \in Task, Run(t) \/ Insert(t) \/ Notify(t)
      PROVE  PassGate(t) \/ UNCHANGED <<window, quiet>>
  BY <1>1 DEF Run, Insert, Notify, BypassGate, HoldAtGate, WakeUp, TimerFires, ProcessOne,
     ScanRow, TakeRow, Drained, ProcessFails, EndCycle, CyclePanics, Conclude
<1> QED
  BY <1>1 DEF Next, vars

\* Every step keeps the calendar: how long it has been quiet and what is left of the window agree.
LEMMA CalendarIsKept ==
  ASSUME TypeOK, Calendar, [Next]_vars
  PROVE  Calendar'
<1>1. /\ quiet \in Nat /\ quiet <= WindowIdle
      /\ window \in [open: 0 .. OpenFor, next: 0 .. WindowIdle]
  BY TimingAssumption DEF TypeOK
<1>2. window.open \in Nat /\ window.next \in Nat
  BY <1>1, TimingAssumption
<1>3. CASE Tick
  <2>1. /\ window'.open = Left(window.open) /\ window'.next = Left(window.next)
        /\ quiet' = IF quiet < WindowIdle THEN quiet + 1 ELSE quiet
    BY <1>3 DEF Tick
  <2> QED
    BY <1>1, <1>2, <2>1, TimingAssumption DEF Calendar, Left
<1>4. CASE Restart
  <2>1. window'.open = 0 /\ window'.next = 0 /\ quiet' = WindowIdle
    BY <1>4 DEF Restart
  <2> QED
    BY <2>1, TimingAssumption DEF Calendar
<1>5. ASSUME NEW t \in Task, PassGate(t)
      PROVE  Calendar'
  <2>1. /\ Allowed /\ Allow
        /\ quiet' = IF quiet >= WindowIdle THEN 0 ELSE quiet
    BY <1>5 DEF PassGate
  <2>2. CASE window.open > 0
    <3>1. window' = window /\ quiet < OpenFor
      BY <2>1, <2>2, <1>1, TimingAssumption DEF Allow, Calendar
    <3> QED
      BY <2>1, <3>1, <1>1, TimingAssumption DEF Calendar
  <2>3. CASE window.open = 0
    <3>1. window'.open = OpenFor /\ window'.next = WindowIdle
      BY <2>1, <2>3 DEF Allow
    <3>2. quiet = WindowIdle
      BY <2>1, <2>3, <1>1, TimingAssumption DEF Allowed, Calendar
    <3> QED
      BY <2>1, <3>1, <3>2, TimingAssumption DEF Calendar
  <2> QED
    BY <1>2, <2>2, <2>3
<1>6. CASE UNCHANGED <<window, quiet>>
  BY <1>6 DEF Calendar
<1> QED
  BY <1>3, <1>4, <1>5, <1>6, WindowSteps

\* The window and the quiet time agree in every reachable state.
LEMMA AlwaysCalendar == Spec => [](TypeOK /\ Calendar)
<1>1. Init => TypeOK /\ Calendar
  BY InitTypes, TimingAssumption DEF Init, Calendar
<1>2. TypeOK /\ Calendar /\ [Next]_vars => (TypeOK /\ Calendar)'
  BY TypesAreKept, CalendarIsKept
<1> QED
  BY <1>1, <1>2, PTL DEF Spec

\* An idle process scans in one window of OpenFor per WindowIdle, for any number of
\* loops: whoever passes the gate does so within the grace period or a whole
\* interval after the scan that opened the window.
THEOREM QuietIsKept == Spec => QuietBudget
<1>1. TypeOK /\ Calendar /\ [Next]_vars
        => [\A t \in Task : PassGate(t) => quiet < OpenFor \/ quiet >= WindowIdle]_vars
  <2> SUFFICES ASSUME TypeOK, Calendar, NEW t \in Task, PassGate(t)
               PROVE  quiet < OpenFor \/ quiet >= WindowIdle
    OBVIOUS
  <2>1. window.open > 0 \/ window.next = 0
    BY DEF PassGate, Allowed
  <2>2. quiet \in Nat /\ quiet <= WindowIdle
    BY TimingAssumption DEF TypeOK
  <2> QED
    BY <2>1, <2>2, TimingAssumption DEF Calendar
<1> QED
  BY <1>1, AlwaysCalendar, PTL DEF Spec, QuietBudget

-----------------------------------------------------------------------------
\* Idle cycles

\* Every step keeps the count of claimed rows at the limit or below and tied to what the cycle
\* saw.
LEMMA CountedIsKept ==
  ASSUME TypeOK, \A t \in Task : Counted(t), [Next]_vars, NEW u \in Task
  PROVE  Counted(u)'
<1>1. CASE Tick
  <2>1. loop'[u].claimed = loop[u].claimed /\ took' = took
    BY <1>1, TickFacts DEF Tick, Becomes
  <2> QED
    BY <2>1 DEF Counted
<1>2. CASE Restart
  <2>1. loop'[u].claimed = 0
    BY <1>2 DEF Restart, Fresh
  <2> QED
    BY <2>1 DEF Counted
<1>3. ASSUME NEW t \in Task, Insert(t) \/ Notify(t)
      PROVE  Counted(u)'
  BY <1>3 DEF Insert, Notify, Counted
<1>4. ASSUME NEW t \in Task, ScanRow(t)
      PROVE  Counted(u)'
  BY <1>4 DEF ScanRow, TakeRow, Counted, TypeOK
<1>5. ASSUME NEW t \in Task, ProcessOne(t)
      PROVE  Counted(u)'
  <2>1. took'[t] = TRUE /\ (u # t => took'[u] = took[u])
    BY <1>5 DEF ProcessOne, TakeRow, TypeOK
  <2>2. u # t => loop'[u] = loop[u]
    BY <1>5, ProcessFacts DEF Others
  <2> QED
    BY <2>1, <2>2 DEF Counted
<1>6. ASSUME NEW t \in Task, BypassGate(t) \/ PassGate(t)
      PROVE  Counted(u)'
  <2>1. StartCycle(t) /\ took' = took
    BY <1>6 DEF BypassGate, PassGate, StartCycle
  <2>2. loop'[u].claimed = loop[u].claimed
    BY <2>1, StartFacts DEF Becomes, Others
  <2> QED
    BY <2>1, <2>2 DEF Counted
<1>7. ASSUME NEW t \in Task, HoldAtGate(t)
      PROVE  Counted(u)'
  <2>1. loop'[u].claimed = loop[u].claimed
    BY <1>7, HoldFacts DEF Becomes, Others
  <2> QED
    BY <1>7, <2>1 DEF HoldAtGate, Counted
<1>8. ASSUME NEW t \in Task, WakeUp(t)
      PROVE  Counted(u)'
  <2>1. loop'[u].claimed = loop[u].claimed
    BY <1>8, WakeFacts DEF Becomes, Others
  <2> QED
    BY <1>8, <2>1 DEF WakeUp, Counted
<1>9. ASSUME NEW t \in Task, TimerFires(t) \/ Drained(t) \/ ProcessFails(t)
      PROVE  Counted(u)'
  <2>1. PICK at \in At : loop' = [loop EXCEPT ![t].at = at]
    BY <1>9 DEF TimerFires, Drained, ProcessFails, At
  <2>2. UNCHANGED <<wake, lag, owed, took>>
    BY <1>9 DEF TimerFires, Drained, ProcessFails
  <2>3. loop'[u].claimed = loop[u].claimed
    BY <2>1, <2>2, StageFacts DEF Becomes, Others
  <2> QED
    BY <2>2, <2>3 DEF Counted
<1>10. ASSUME NEW t \in Task, EndCycle(t) \/ CyclePanics(t)
       PROVE  Counted(u)'
  <2>1. PICK idle \in 0 .. MaxIdle, due \in Due : Conclude(t, idle, due)
    BY <1>10, Endings
  <2>2. loop'[t].claimed = 0 /\ (u # t => loop'[u] = loop[u])
    BY <2>1, ConcludeFacts DEF Becomes, Others
  <2>3. u # t => took'[u] = took[u]
    BY <2>1 DEF Conclude, TypeOK
  <2> QED
    BY <2>2, <2>3 DEF Counted
<1>11. CASE UNCHANGED vars
  BY <1>11 DEF vars, Counted
<1> QED
  BY <1>1, <1>2, <1>3, <1>4, <1>5, <1>6, <1>7, <1>8, <1>9, <1>10, <1>11 DEF Next, Run

\* The count of claimed rows is right in every reachable state.
LEMMA AlwaysCounted == Spec => [](TypeOK /\ \A t \in Task : Counted(t))
<1>1. Init => TypeOK /\ \A t \in Task : Counted(t)
  BY InitTypes DEF Init, Fresh, Counted
<1>2. TypeOK /\ (\A t \in Task : Counted(t)) /\ [Next]_vars
        => (TypeOK /\ \A t \in Task : Counted(t))'
  BY TypesAreKept, CountedIsKept
<1> QED
  BY <1>1, <1>2, PTL DEF Spec

\* A cycle that took nothing is followed by a wait: no failure, deadline or
\* leftover row makes a loop spin.
THEOREM IdleCyclesRest == Spec => IdleCycleRests
<1>1. TypeOK /\ (\A t \in Task : Counted(t)) /\ [Next]_vars
        => [\A t \in Task : EndCycle(t) /\ ~took[t] => loop'[t].at = "wait"]_vars
  <2> SUFFICES ASSUME TypeOK, NEW t \in Task, Counted(t), EndCycle(t), ~took[t]
               PROVE  loop'[t].at = "wait"
    OBVIOUS
  <2>1. ~More(t)
    BY LoopFields, TimingAssumption DEF Counted, More
  <2>2. PICK idle \in 0 .. MaxIdle, due \in Due : Conclude(t, idle, due) /\ idle > 0
    BY <2>1, Endings
  <2>3. idle \in Nat
    BY TimingAssumption
  <2> DEFINE w == UntilDue(idle, due)
  <2>4. w > 0
    BY <2>2, <2>3, UntilDueBounds
  <2>5. Becomes(t, IF w > 0 THEN "wait" ELSE "top", idle, due, loop[t].pending, w, 0)
    BY <2>2, ConcludeFacts
  <2> HIDE DEF w
  <2> QED
    BY <2>4, <2>5 DEF Becomes
<1> QED
  BY <1>1, AlwaysCounted, PTL DEF Spec, IdleCycleRests

-----------------------------------------------------------------------------
\* The gap between two scans

\* What a step leaves alone of another loop it does not endanger, provided that
\* the window stays as useful to it as it was.
LEMMA OthersSpared ==
  ASSUME TypeOK, NEW t \in Task, NEW u \in Task, u # t, Others(t), Spared(u),
         window' = window \/ PassGate(t)
  PROVE  Spared(u)'
<1>1. loop'[u] = loop[u] /\ lag'[u] = lag[u] /\ wake'[u] = wake[u] /\ owed'[u] = owed[u]
  BY DEF Others
<1>2. /\ lag[u] \in Nat /\ lag[u] <= Slack /\ Remaining(u) \in Nat
      /\ window.open \in Nat /\ window.next \in Nat
  BY LoopFields, TimingAssumption DEF TypeOK, Remaining
<1>3. Sure(u) => Sure(u)'
  <2>1. CASE window' = window
    BY <1>1, <2>1 DEF Sure, Remaining
  <2>2. CASE PassGate(t) /\ window' # window
    <3>1. window.open = 0 /\ window.next = 0
      BY <1>2, <2>2 DEF PassGate, Allowed, Allow
    <3>2. window'.open = OpenFor
      BY <2>2, <3>1 DEF PassGate, Allow
    <3>3. Remaining(u)' = Remaining(u)
      BY <1>1 DEF Remaining
    <3>4. OpenFor >= OpenFor - lag[u]
      BY <1>2, TimingAssumption
    <3> QED
      BY <1>1, <1>2, <3>1, <3>2, <3>3, <3>4 DEF Sure
  <2> QED
    BY <2>1, <2>2
<1> QED
  BY <1>1, <1>3 DEF Spared, InCycle, Between, Remaining

\* A scan that starts has the longest gap ahead of it.
LEMMA StartSpared ==
  ASSUME TypeOK, NEW t \in Task, StartCycle(t)
  PROVE  Spared(t)'
<1>1. loop'[t].at = "work" /\ owed'[t] = Nothing /\ lag'[t] = lag[t]
  BY StartFacts DEF Becomes
<1>2. owed'[t]["gap"] = {LongestGap}
  BY <1>1 DEF Nothing, Reason
<1>3. lag[t] \in Nat
  BY TimingAssumption DEF TypeOK
<1>4. LongestGap >= WindowIdle - OpenFor + MaxIdle + 3 * Slack - lag[t]
  BY <1>3, TimingAssumption DEF LongestGap
<1> QED
  BY <1>1, <1>2, <1>4 DEF Spared, InCycle

\* A loop waits at the gate once: the window it waits for is open, or opens, when
\* the wait is over.
LEMMA HoldSpared ==
  ASSUME TypeOK, Calendar, NEW t \in Task, HoldAtGate(t), Spared(t)
  PROVE  Spared(t)'
<1> DEFINE w == UntilDue(window.next, loop[t].due)
<1>1. /\ loop'[t].at = (IF w > 0 THEN "wait" ELSE "top") /\ loop'[t].due = loop[t].due
      /\ loop'[t].timer = w /\ lag'[t] = 0 /\ owed'[t] = owed[t] /\ window' = window
  BY HoldFacts DEF Becomes, HoldAtGate
<1>2. /\ loop[t].at = "top" /\ ~wake[t] /\ ~loop[t].pending /\ 0 \notin loop[t].due
      /\ window.open \in Nat /\ window.next \in Nat /\ window.open = 0 /\ window.next > 0
  BY TimingAssumption DEF HoldAtGate, Gated, HadWake, DueForced, Allowed, TypeOK
<1>3. loop[t].due \in Due /\ lag[t] \in Nat /\ lag[t] <= Slack /\ owed[t]["gap"] \subseteq Int
  BY LoopFields, TimingAssumption DEF TypeOK, Reason
<1>4. w \in Nat /\ w > 0 /\ w <= window.next /\ (w = window.next \/ loop[t].due = {w})
  BY <1>2, <1>3, UntilDueBounds
<1> HIDE DEF w
<1>5. window.next <= WindowIdle - OpenFor
  BY <1>2, TimingAssumption DEF Calendar, TypeOK
<1>6. Remaining(t)' = w
  BY <1>1, <1>4 DEF Remaining
<1>7. Sure(t)' /\ Between(t)'
  BY <1>1, <1>4, <1>6 DEF Sure, Between
<1> SUFFICES ASSUME NEW g \in owed[t]["gap"]
             PROVE  g >= Slack + w - 0
  BY <1>1, <1>6, <1>7 DEF Spared
<1>8. ~Sure(t)
  BY <1>2, <1>3, TimingAssumption DEF Sure, Remaining
<1>9. g >= WindowIdle - OpenFor + 2 * Slack + 0 - lag[t]
  BY <1>2, <1>8 DEF Spared, InCycle, Remaining
<1>10. g \in Int /\ w <= WindowIdle - OpenFor
  BY <1>2, <1>3, <1>4, <1>5, TimingAssumption
<1> QED
  BY <1>3, <1>4, <1>9, <1>10, TimingAssumption

\* The end of a wait takes nothing from the gap.
LEMMA RousedSpared ==
  ASSUME TypeOK, NEW t \in Task, Spared(t), loop[t].at = "wait", loop'[t].at = "top",
         loop'[t].due = loop[t].due, lag'[t] = lag[t], owed'[t] = owed[t], window' = window,
         loop'[t].pending \/ (loop[t].timer = 0 /\ ~wake[t] /\ loop'[t].pending = loop[t].pending)
  PROVE  Spared(t)'
<1>1. /\ loop[t].timer \in Nat /\ lag[t] \in Nat /\ owed[t]["gap"] \subseteq Int
      /\ Remaining(t) = loop[t].timer /\ Remaining(t)' = 0
  BY LoopFields, TimingAssumption DEF TypeOK, Reason, Remaining
<1>2. Sure(t) => Sure(t)'
  BY <1>1 DEF Sure
<1>3. Between(t)' /\ ~InCycle(t)
  BY DEF Between, InCycle
<1> SUFFICES ASSUME NEW g \in owed[t]["gap"]
             PROVE  \/ g >= WindowIdle - OpenFor + 2 * Slack + 0 - lag[t]
                    \/ g >= Slack + 0 - lag[t] /\ Sure(t)'
  BY <1>1, <1>3 DEF Spared
<1>4. \/ g >= WindowIdle - OpenFor + 2 * Slack + Remaining(t) - lag[t]
      \/ g >= Slack + Remaining(t) - lag[t] /\ Sure(t)
  BY <1>3 DEF Spared
<1> QED
  BY <1>1, <1>2, <1>4, TimingAssumption

\* The stages of a cycle.
LEMMA StageSpared ==
  ASSUME TypeOK, NEW t \in Task, Spared(t), InCycle(t), InCycle(t)',
         lag'[t] = lag[t], owed'[t] = owed[t]
  PROVE  Spared(t)'
  BY DEF Spared, InCycle, Between

\* Deadlines are no farther away than the idle ceiling. Without this, a cycle that
\* reports more work together with a deadline sleeps until then (loop.go:295).
NearDeadlines == Combined = {} \/ MaxDue <= MaxIdle

\* The wait after a cycle is no longer than the idle ceiling.
LEMMA ConcludeSpared ==
  ASSUME NearDeadlines, TypeOK, NEW t \in Task, InCycle(t),
         NEW idle \in 0 .. MaxIdle, NEW due \in Due,
         idle = 0 /\ t \notin Combined => due = {},
         Conclude(t, idle, due), Spared(t)
  PROVE  Spared(t)'
<1> DEFINE w == UntilDue(idle, due)
<1>1. /\ loop'[t].at = (IF w > 0 THEN "wait" ELSE "top") /\ loop'[t].timer = w
      /\ lag'[t] = 0 /\ owed'[t]["gap"] = owed[t]["gap"]
  <2>1. /\ Becomes(t, IF w > 0 THEN "wait" ELSE "top", idle, due, loop[t].pending, w, 0)
        /\ lag'[t] = 0 /\ owed'[t]["gap"] = owed[t]["gap"]
    BY ConcludeFacts
  <2> HIDE DEF w
  <2> QED
    BY <2>1 DEF Becomes
<1>2. /\ idle \in Nat /\ idle <= MaxIdle /\ lag[t] \in Nat /\ lag[t] <= Slack
      /\ owed[t]["gap"] \subseteq Int
  BY TimingAssumption DEF TypeOK, Reason
<1>3. /\ w \in Nat
      /\ due = {} => w = idle
      /\ idle > 0 => w <= idle
      /\ w = idle \/ due = {w}
  BY <1>2, UntilDueBounds
<1> HIDE DEF w
<1>4. w <= MaxIdle
  <2>1. CASE w = idle \/ idle > 0
    BY <1>2, <1>3, <2>1, TimingAssumption
  <2>2. CASE due = {w} /\ idle = 0
    <3>1. MaxDue <= MaxIdle
      BY <2>2 DEF NearDeadlines
    <3>2. w \in 0 .. MaxDue \cup 0 .. MinIdle
      BY <2>2 DEF Due, Deadline
    <3> QED
      BY <3>1, <3>2, TimingAssumption
  <2> QED
    BY <1>2, <1>3, <2>1, <2>2
<1>5. Remaining(t)' = w /\ Between(t)'
  BY <1>1, <1>3 DEF Remaining, Between
<1> SUFFICES ASSUME NEW g \in owed[t]["gap"]
             PROVE  g >= WindowIdle - OpenFor + 2 * Slack + w - 0
  BY <1>1, <1>5 DEF Spared
<1>6. g >= WindowIdle - OpenFor + MaxIdle + 3 * Slack - lag[t]
  BY DEF Spared, InCycle, Between
<1> QED
  BY <1>2, <1>3, <1>4, <1>6, TimingAssumption

\* A tick is taken from the wait or added to the lag.
LEMMA TickSpared ==
  ASSUME TypeOK, Tick, NEW t \in Task, Punctual(t), Spared(t)
  PROVE  Spared(t)'
<1>1. /\ loop'[t].at = loop[t].at /\ loop'[t].due = {Left(d) : d \in loop[t].due}
      /\ loop'[t].pending = loop[t].pending /\ loop'[t].timer = Left(loop[t].timer)
      /\ lag'[t] = (IF Runnable(t) THEN lag[t] + 1 ELSE 0) /\ wake'[t] = wake[t]
      /\ Runnable(t) => lag[t] < Slack
  BY TickFacts DEF Becomes
<1>2. owed'[t]["gap"] = {d - 1 : d \in owed[t]["gap"]}
  BY TickFacts DEF Reason
<1>3. /\ loop[t].timer \in Nat /\ lag[t] \in Nat /\ lag[t] <= Slack
      /\ owed[t]["gap"] \subseteq Int /\ window.open \in Nat /\ window.next \in Nat
  BY LoopFields, TimingAssumption DEF TypeOK, Reason
<1>4. window'.open = Left(window.open) /\ window'.next = Left(window.next)
  BY DEF Tick
<1>5. /\ Remaining(t) \in Nat /\ Remaining(t)' = Left(Remaining(t))
      /\ (InCycle(t)' <=> InCycle(t)) /\ (Between(t)' <=> Between(t))
  BY <1>1, <1>3 DEF Remaining, Left, InCycle, Between
<1>6. Remaining(t) > 0 /\ ~wake[t] => lag[t] = 0 /\ lag'[t] = 0
  BY <1>1, <1>3 DEF Remaining, Punctual, Runnable
<1>7. Remaining(t) = 0 \/ wake[t] => lag'[t] = lag[t] + 1
  BY <1>1, <1>3 DEF Remaining, Runnable, Left
<1>8. InCycle(t) => lag'[t] = lag[t] + 1
  BY <1>1 DEF InCycle, Runnable
<1>9. Sure(t) => Sure(t)'
  <2>1. CASE wake[t] \/ loop[t].pending
    BY <1>1, <2>1 DEF Sure
  <2>2. CASE 0 \in loop[t].due
    <3>1. 0 \in loop'[t].due
      BY <1>1, <2>2 DEF Left
    <3> QED
      BY <3>1 DEF Sure
  <2>3. CASE Remaining(t) > 0 /\ Remaining(t) = window.next
    <3>1. Remaining(t)' = window'.next
      BY <1>4, <1>5, <2>3
    <3>2. Remaining(t)' \in Nat
      BY <1>5 DEF Left
    <3> QED
      BY <3>1, <3>2 DEF Sure
  <2>4. CASE Remaining(t) > 0 /\ loop[t].due = {Remaining(t)}
    <3>1. loop'[t].due = {Remaining(t)'}
      BY <1>1, <1>5, <2>4
    <3>2. Remaining(t)' \in Nat
      BY <1>5 DEF Left
    <3> QED
      BY <3>1, <3>2 DEF Sure
  <2>5. CASE Remaining(t) = 0 /\ window.next = 0
    <3>1. Remaining(t)' = 0 /\ window'.next = 0
      BY <1>4, <1>5, <2>5 DEF Left
    <3> QED
      BY <3>1 DEF Sure
  <2>6. CASE Remaining(t) = 0 /\ window.open >= OpenFor - lag[t]
    <3>1. Remaining(t)' = 0 /\ lag'[t] = lag[t] + 1
      BY <1>5, <1>7, <2>6 DEF Left
    <3>2. window'.open >= OpenFor - lag'[t]
      BY <1>3, <1>4, <3>1, <2>6, TimingAssumption DEF Left
    <3> QED
      BY <3>1, <3>2 DEF Sure
  <2> QED
    BY <2>1, <2>2, <2>3, <2>4, <2>5, <2>6 DEF Sure
<1>10. Remaining(t)' - lag'[t] <= Remaining(t) - lag[t] - 1
  BY <1>3, <1>5, <1>6, <1>7 DEF Left
<1>11. lag'[t] \in Nat /\ Remaining(t)' \in Nat
  BY <1>1, <1>3, <1>5 DEF Left
<1> SUFFICES ASSUME NEW g \in owed[t]["gap"]
             PROVE  \/ /\ InCycle(t)
                       /\ g - 1 >= WindowIdle - OpenFor + MaxIdle + 3 * Slack - lag'[t]
                    \/ /\ Between(t)
                       /\ g - 1 >= WindowIdle - OpenFor + 2 * Slack + Remaining(t)' - lag'[t]
                    \/ /\ Between(t)
                       /\ g - 1 >= Slack + Remaining(t)' - lag'[t] /\ Sure(t)'
  BY <1>2, <1>5 DEF Spared
<1>12. g \in Int
  BY <1>3
<1>13. CASE InCycle(t) /\ g >= WindowIdle - OpenFor + MaxIdle + 3 * Slack - lag[t]
  BY <1>3, <1>8, <1>12, <1>13, TimingAssumption
<1>14. CASE Between(t) /\ g >= WindowIdle - OpenFor + 2 * Slack + Remaining(t) - lag[t]
  BY <1>3, <1>5, <1>10, <1>11, <1>12, <1>14, TimingAssumption
<1>15. CASE Between(t) /\ g >= Slack + Remaining(t) - lag[t] /\ Sure(t)
  BY <1>3, <1>5, <1>9, <1>10, <1>11, <1>12, <1>15, TimingAssumption
<1> QED
  BY <1>13, <1>14, <1>15 DEF Spared

\* Every step keeps the time to spare of every loop: what it waits for comes before its next scan
\* is due.
LEMMA SparedIsKept ==
  ASSUME NearDeadlines, TypeOK, Calendar, [Next]_vars,
         NEW u \in Task, Punctual(u), Spared(u)
  PROVE  Spared(u)'
<1>1. CASE Tick
  BY <1>1, TickSpared
<1>2. CASE Restart
  <2>1. loop'[u].at = "top" /\ owed'[u]["gap"] = {LongestGap} /\ lag'[u] = 0
    BY <1>2 DEF Restart, Fresh, Nothing, Reason
  <2>2. Remaining(u)' = 0 /\ Between(u)'
    BY <2>1 DEF Remaining, Between
  <2>3. LongestGap >= WindowIdle - OpenFor + 2 * Slack + 0 - 0
    BY TimingAssumption DEF LongestGap
  <2> QED
    BY <2>1, <2>2, <2>3 DEF Spared
<1>3. ASSUME NEW t \in Task, Insert(t) \/ ScanRow(t)
      PROVE  Spared(u)'
  <2>1. UNCHANGED <<loop, wake, lag, owed, window>>
    BY <1>3 DEF Insert, ScanRow, TakeRow
  <2> QED
    BY <2>1 DEF Spared, Sure, Remaining, InCycle, Between
<1>4. ASSUME NEW t \in Task, Notify(t)
      PROVE  Spared(u)'
  <2>1. UNCHANGED <<loop, lag, window>>
    BY <1>4 DEF Notify
  <2>2. owed'[u]["gap"] = owed[u]["gap"] /\ (wake[u] => wake'[u])
    BY <1>4, NotifyFacts DEF Others, Reason
  <2>3. Sure(u) => Sure(u)'
    BY <2>1, <2>2 DEF Sure, Remaining
  <2> QED
    BY <2>1, <2>2, <2>3 DEF Spared, Remaining, InCycle, Between
<1>5. ASSUME NEW t \in Task, BypassGate(t) \/ PassGate(t)
      PROVE  Spared(u)'
  <2>1. StartCycle(t) /\ (window' = window \/ PassGate(t))
    BY <1>5 DEF BypassGate, PassGate
  <2> QED
    BY <2>1, StartSpared, StartFacts, OthersSpared
<1>6. ASSUME NEW t \in Task, HoldAtGate(t)
      PROVE  Spared(u)'
  <2>1. Others(t) /\ window' = window
    BY <1>6, HoldFacts DEF HoldAtGate
  <2> QED
    BY <1>6, <2>1, HoldSpared, OthersSpared
<1>7. ASSUME NEW t \in Task, WakeUp(t)
      PROVE  Spared(u)'
  <2>1. /\ Becomes(t, "top", MinIdle, loop[t].due, TRUE, loop[t].timer, loop[t].claimed)
        /\ lag'[t] = lag[t] /\ owed'[t] = owed[t] /\ Others(t)
    BY <1>7, WakeFacts
  <2>2. loop[t].at = "wait" /\ window' = window
    BY <1>7 DEF WakeUp
  <2>3. CASE u = t
    <3>1. loop'[t].at = "top" /\ loop'[t].due = loop[t].due /\ loop'[t].pending
      BY <2>1 DEF Becomes
    <3> QED
      BY <2>1, <2>2, <2>3, <3>1, RousedSpared
  <2> QED
    BY <2>1, <2>2, <2>3, OthersSpared
<1>8. ASSUME NEW t \in Task, TimerFires(t)
      PROVE  Spared(u)'
  <2>1. /\ loop[t].at = "wait" /\ ~wake[t] /\ loop[t].timer = 0
        /\ loop' = [loop EXCEPT ![t].at = "top"] /\ "top" \in At
        /\ UNCHANGED <<wake, window, lag, owed>>
    BY <1>8 DEF TimerFires, At
  <2>2. /\ Becomes(t, "top", loop[t].idle, loop[t].due, loop[t].pending, loop[t].timer,
                   loop[t].claimed)
        /\ Others(t)
    BY <2>1, StageFacts
  <2>3. CASE u = t
    <3>1. /\ loop'[t].at = "top" /\ loop'[t].due = loop[t].due
          /\ loop'[t].pending = loop[t].pending
      BY <2>2 DEF Becomes
    <3> QED
      BY <2>1, <2>3, <3>1, RousedSpared
  <2> QED
    BY <2>1, <2>2, <2>3, OthersSpared
<1>9. ASSUME NEW t \in Task, Drained(t) \/ ProcessFails(t)
      PROVE  Spared(u)'
  <2>1. /\ loop[t].at = "work" /\ loop' = [loop EXCEPT ![t].at = "report"] /\ "report" \in At
        /\ UNCHANGED <<wake, window, lag, owed>>
    BY <1>9 DEF Drained, ProcessFails, At
  <2>2. /\ Becomes(t, "report", loop[t].idle, loop[t].due, loop[t].pending, loop[t].timer,
                   loop[t].claimed)
        /\ Others(t)
    BY <2>1, StageFacts
  <2>3. CASE u = t
    <3>1. InCycle(t) /\ InCycle(t)'
      BY <2>1, <2>2 DEF Becomes, InCycle
    <3> QED
      BY <2>1, <2>3, <3>1, StageSpared
  <2> QED
    BY <2>1, <2>2, <2>3, OthersSpared
<1>10. ASSUME NEW t \in Task, ProcessOne(t)
       PROVE  Spared(u)'
  <2>1. /\ Becomes(t, "work", loop[t].idle, loop[t].due, loop[t].pending, loop[t].timer,
                   loop[t].claimed + 1)
        /\ lag'[t] = lag[t] /\ owed'[t] = owed[t] /\ Others(t)
    BY <1>10, ProcessFacts
  <2>2. loop[t].at = "work" /\ window' = window
    BY <1>10 DEF ProcessOne, TakeRow
  <2>3. CASE u = t
    <3>1. InCycle(t) /\ InCycle(t)'
      BY <2>1, <2>2 DEF Becomes, InCycle
    <3> QED
      BY <2>1, <2>3, <3>1, StageSpared
  <2> QED
    BY <2>1, <2>2, <2>3, OthersSpared
<1>11. ASSUME NEW t \in Task, EndCycle(t) \/ CyclePanics(t)
       PROVE  Spared(u)'
  <2>1. PICK idle \in 0 .. MaxIdle, due \in Due :
          /\ Conclude(t, idle, due) /\ InCycle(t)
          /\ idle = 0 /\ t \notin Combined => due = {}
    BY <1>11, Endings
  <2>2. Others(t) /\ window' = window
    BY <2>1, ConcludeFacts DEF Conclude
  <2>3. CASE u = t
    BY <2>1, <2>3, ConcludeSpared
  <2> QED
    BY <2>2, <2>3, OthersSpared
<1>12. CASE UNCHANGED vars
  BY <1>12 DEF vars, Spared, Sure, Remaining, InCycle, Between
<1> QED
  BY <1>1, <1>2, <1>3, <1>4, <1>5, <1>6, <1>7, <1>8, <1>9, <1>10, <1>11, <1>12 DEF Next, Run

\* A loop that has just been started has the longest gap to spare.
LEMMA InitSpared ==
  ASSUME Init, NEW t \in Task
  PROVE  Spared(t)
<1>1. loop[t].at = "top" /\ owed[t]["gap"] = {LongestGap} /\ lag[t] = 0
  BY DEF Init, Fresh, Nothing, Reason
<1>2. LongestGap >= WindowIdle - OpenFor + 2 * Slack + 0 - 0
  BY TimingAssumption DEF LongestGap
<1> QED
  BY <1>1, <1>2 DEF Spared, Between, Remaining

\* Whatever wakes are lost, two scans of a loop start at most LongestGap apart, for
\* any number of loops and any timing whose deadlines are near.
THEOREM GapsAreBounded == NearDeadlines /\ Spec => []GapIsBounded
<1> DEFINE I == TypeOK /\ Calendar /\ \A t \in Task : Timely(t) /\ Spared(t)
<1> SUFFICES ASSUME NearDeadlines
             PROVE  Spec => []GapIsBounded
  BY DEF NearDeadlines
<1>1. Init => I
  BY InitTypes, InitTimely, InitSpared, TimingAssumption DEF Init, Calendar
<1>2. I /\ [Next]_vars => I'
  <2>1. I /\ [Next]_vars => TypeOK' /\ Calendar' /\ \A t \in Task : Timely(t)'
    BY TypesAreKept, CalendarIsKept, TimelyIsKept
  <2>2. I /\ [Next]_vars => \A t \in Task : Spared(t)'
    BY SparedIsKept DEF Timely
  <2> QED
    BY <2>1, <2>2
<1>3. I => GapIsBounded
  <2> SUFFICES ASSUME I, NEW t \in Task, NEW g \in owed[t]["gap"]
               PROVE  g >= 0
    BY DEF GapIsBounded, OnTime
  <2>1. /\ lag[t] \in Nat /\ lag[t] <= Slack /\ Remaining(t) \in Nat /\ g \in Int
    BY LoopFields, TimingAssumption DEF TypeOK, Reason, Remaining
  <2> QED
    BY <2>1, TimingAssumption DEF Spared
<1> QED
  BY <1>1, <1>2, <1>3, PTL DEF Spec
=============================================================================
