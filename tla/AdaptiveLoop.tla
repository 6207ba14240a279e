---------------------------- MODULE AdaptiveLoop ----------------------------
(***************************************************************************)
(* The background loops of one server process: each scans the database for *)
(* its own durable work, sleeps between scans, and shares with the others  *)
(* the maintenance window that keeps an idle process off the database.     *)
(*                                                                         *)
(* All times are relative to now, in ticks: a timer or a deadline is what  *)
(* is left of it, 0 once it has passed.  The code only compares times with *)
(* now, so nothing is lost.  A zero Go time is the empty set.              *)
(***************************************************************************)
EXTENDS Integers, FiniteSets

CONSTANTS
  Task,        \* the loops
  Combined,    \* those whose cycle reports MoreWork together with NextDue
  MinIdle, MaxIdle,
  WindowIdle, OpenFor,  \* of the maintenance window
  DrainLimit,  \* rows a cycle takes at most
  MaxRows,     \* bound: rows waiting in the database, per task
  MaxDue,      \* bound: how far in the future a row is deferred
  Slack        \* ticks a loop may take from being runnable to waiting again

ASSUME TimingAssumption ==
  /\ Combined \subseteq Task
  /\ MinIdle \in Nat \ {0} /\ MaxIdle \in Nat /\ MinIdle <= MaxIdle
  /\ WindowIdle \in Nat /\ OpenFor \in Nat \ {0} /\ OpenFor <= WindowIdle
  /\ DrainLimit \in Nat \ {0} /\ MaxRows \in Nat /\ MaxDue \in Nat
  /\ Slack \in Nat /\ Slack < OpenFor

VARIABLES
  rows,    \* durable work: how many rows can be claimed, when the others can
  wake,    \* the channel of capacity one
  loop,    \* what each loop is doing
  window,  \* MaintenanceWindow: what is left until openUntil and nextOpen
  lag,     \* ticks since the loop became runnable
  owed,    \* history: when each loop must have started its next scan, and why
  quiet,   \* history: ticks since the first scan of the last open window
  took     \* history: whether the cycle took a row

vars == <<rows, wake, loop, window, lag, owed, quiet, took>>

Deadline(times) == {{}} \cup {{d} : d \in times}  \* at most one

Rows == [ready: Nat, due: SUBSET (1 .. MaxDue)]
Loop == [at: {"top", "work", "report", "wait"}, idle: 0 .. MaxIdle,
         due: Deadline(0 .. MaxDue \cup 0 .. MinIdle),
         pending: BOOLEAN, timer: Nat, claimed: 0 .. DrainLimit]
Count(r) == r.ready + Cardinality(r.due)
Reason == {"gap", "notified", "backlog", "deadline"}

\* The longest time between the starts of two scans: the idle wait, the wait for
\* the window to open again, and the loop's own slowness before, between and after.
LongestGap == MaxIdle + (WindowIdle - OpenFor) + 3 * Slack

Fresh == [at |-> "top", idle |-> 0, due |-> {}, pending |-> FALSE,
          timer |-> 0, claimed |-> 0]
Nothing == [r \in Reason |-> IF r = "gap" THEN {LongestGap} ELSE {}]

Init ==
  /\ rows \in [Task -> [ready: 0 .. MaxRows, due: SUBSET (1 .. MaxDue)]]
  /\ \A t \in Task : Count(rows[t]) <= MaxRows
  /\ wake = [t \in Task |-> FALSE]
  /\ loop = [t \in Task |-> Fresh]
  /\ window = [open |-> 0, next |-> 0]
  /\ lag = [t \in Task |-> 0]
  /\ owed = [t \in Task |-> Nothing]
  /\ quiet = WindowIdle
  /\ took = [t \in Task |-> FALSE]
-----------------------------------------------------------------------------
\* The clock

Left(d) == IF d > 0 THEN d - 1 ELSE 0
Runnable(t) == loop[t].at # "wait" \/ loop[t].timer = 0 \/ wake[t]

Tick ==
  /\ \A t \in Task : Runnable(t) => lag[t] < Slack
  /\ lag' = [t \in Task |-> IF Runnable(t) THEN lag[t] + 1 ELSE 0]
  /\ rows' = [t \in Task |->
       [ready |-> rows[t].ready + Cardinality(rows[t].due \cap {1}),
        due   |-> {d - 1 : d \in rows[t].due \ {1}}]]
  /\ loop' = [t \in Task |->
       [loop[t] EXCEPT !.timer = Left(@), !.due = {Left(d) : d \in @}]]
  /\ window' = [open |-> Left(window.open), next |-> Left(window.next)]
  /\ owed' = [t \in Task |-> [r \in Reason |-> {d - 1 : d \in owed[t][r]}]]
  /\ quiet' = IF quiet < WindowIdle THEN quiet + 1 ELSE quiet
  /\ UNCHANGED <<wake, took>>

\* A scan must start within d ticks; an earlier obligation stays.
Owe(t, reason, d) ==
  owed' = [owed EXCEPT ![t][reason] = IF @ = {} THEN {d} ELSE @]
-----------------------------------------------------------------------------
\* The rest of the process, and other processes

\* A row is inserted.  Its Notify, if there is one, is an action of its own.
Insert(t) ==
  /\ Count(rows[t]) < MaxRows
  /\ rows' = [rows EXCEPT ![t].ready = @ + 1]
  /\ UNCHANGED <<wake, loop, window, lag, owed, quiet, took>>

\* The loop may be in a cycle, and so has to finish one and start another.
Notify(t) ==
  /\ wake' = [wake EXCEPT ![t] = TRUE]
  /\ Owe(t, "notified", 2 * Slack)
  /\ UNCHANGED <<rows, loop, window, lag, quiet, took>>
-----------------------------------------------------------------------------
\* One iteration of Run: the gate

\* Mistake: the window forgets its grace period as soon as it is open.
BugNoGraceAllow == window' = [open |-> 0, next |-> WindowIdle]

\* Mistake: every scan extends the grace period.
BugSlidingAllow == window' = [open |-> OpenFor, next |-> WindowIdle]

\* MaintenanceWindow.Allow
Allowed == window.open > 0 \/ window.next = 0
Allow == window' = IF window.open > 0 THEN window
                   ELSE [open |-> OpenFor, next |-> WindowIdle]

HadWake(t) == wake[t] \/ loop[t].pending
DueForced(t) == 0 \in loop[t].due
Gated(t) == loop[t].idle > 0 /\ ~HadWake(t) /\ ~DueForced(t)

StartCycle(t) ==
  /\ loop[t].at = "top"
  /\ loop' = [loop EXCEPT ![t] = [@ EXCEPT !.at = "work", !.pending = FALSE]]
  /\ wake' = [wake EXCEPT ![t] = FALSE]
  /\ owed' = [owed EXCEPT ![t] = Nothing]
  /\ UNCHANGED <<rows, lag, took>>

\* A first scan, more work, a wake or a deadline: the gate is not asked.
BypassGate(t) ==
  /\ ~Gated(t)
  /\ StartCycle(t)
  /\ UNCHANGED <<window, quiet>>

PassGate(t) ==
  /\ Gated(t) /\ Allowed
  /\ StartCycle(t)
  /\ Allow
  /\ quiet' = IF quiet >= WindowIdle THEN 0 ELSE quiet

\* Mistake: the wait for the window runs over the deadline.
BugUntilDue(wait, due) == wait

\* The wait, cut short by a deadline that is still to come.  A wait of 0 stands
\* for none, and any deadline comes before it.
UntilDue(wait, due) ==
  IF \E d \in due : d > 0 /\ (wait = 0 \/ d < wait) THEN CHOOSE d \in due : TRUE ELSE wait

Waiting(l, wait) == [l EXCEPT !.at = IF wait > 0 THEN "wait" ELSE "top", !.timer = wait]

HoldAtGate(t) ==
  /\ loop[t].at = "top"
  /\ Gated(t) /\ ~Allowed
  /\ loop' = [loop EXCEPT ![t] = Waiting(@, UntilDue(window.next, loop[t].due))]
  /\ lag' = [lag EXCEPT ![t] = 0]
  /\ UNCHANGED <<rows, wake, window, owed, quiet, took>>

\* Mistake: the token the wait consumed is forgotten.
BugWakeUp(t) ==
  /\ loop[t].at = "wait" /\ wake[t]
  /\ wake' = [wake EXCEPT ![t] = FALSE]
  /\ loop' = [loop EXCEPT ![t] = [@ EXCEPT !.at = "top", !.idle = MinIdle]]
  /\ UNCHANGED <<rows, window, lag, owed, quiet, took>>

\* At the gate or idle: a wake ends the wait.
WakeUp(t) ==
  /\ loop[t].at = "wait" /\ wake[t]
  /\ wake' = [wake EXCEPT ![t] = FALSE]
  /\ loop' = [loop EXCEPT ![t] = [@ EXCEPT !.at = "top", !.idle = MinIdle,
                                          !.pending = TRUE]]
  /\ UNCHANGED <<rows, window, lag, owed, quiet, took>>

TimerFires(t) ==
  /\ loop[t].at = "wait" /\ ~wake[t] /\ loop[t].timer = 0
  /\ loop' = [loop EXCEPT ![t].at = "top"]
  /\ UNCHANGED <<rows, wake, window, lag, owed, quiet, took>>
-----------------------------------------------------------------------------
\* One cycle: DrainProcessOne, then the deadline query

More(t) == loop[t].claimed = DrainLimit

\* The row leaves the table, or is to be tried again later.
TakeRow(t) ==
  /\ loop[t].at = "work" /\ rows[t].ready > 0
  /\ \/ rows' = [rows EXCEPT ![t].ready = @ - 1]
     \/ \E d \in (1 .. MaxDue) \ rows[t].due :
          rows' = [rows EXCEPT ![t] = [ready |-> @.ready - 1, due |-> @.due \cup {d}]]
  /\ took' = [took EXCEPT ![t] = TRUE]
  /\ UNCHANGED <<wake, window, lag, owed, quiet>>

ProcessOne(t) ==
  /\ ~More(t)
  /\ TakeRow(t)
  /\ loop' = [loop EXCEPT ![t].claimed = @ + 1]

\* The scans after the drain of a Combined cycle are not counted as work.
ScanRow(t) ==
  /\ t \in Combined
  /\ TakeRow(t)
  /\ UNCHANGED loop

\* The limit is reached, or nothing is left.
Drained(t) ==
  /\ loop[t].at = "work" /\ (More(t) \/ rows[t].ready = 0)
  /\ loop' = [loop EXCEPT ![t].at = "report"]
  /\ UNCHANGED <<rows, wake, window, lag, owed, quiet, took>>

\* Mistake: a failed attempt counts as a processed row.
BugProcessFails(t) ==
  /\ loop[t].at = "work" /\ ~More(t)
  /\ loop' = [loop EXCEPT ![t].claimed = @ + 1]
  /\ UNCHANGED <<rows, wake, window, lag, owed, quiet, took>>

\* An error ends the drain: what is left waits for another cycle.
ProcessFails(t) ==
  /\ loop[t].at = "work" /\ ~More(t)
  /\ loop' = [loop EXCEPT ![t].at = "report"]
  /\ UNCHANGED <<rows, wake, window, lag, owed, quiet, took>>

\* Mistake: the idle wait doubles past its ceiling.
BugnextIdle(idle) == idle * 2

nextIdle(idle) ==
  IF idle < MinIdle THEN MinIdle ELSE IF idle * 2 > MaxIdle THEN MaxIdle ELSE idle * 2

IdleAfterNothing(t) == IF loop[t].idle = 0 THEN MinIdle ELSE nextIdle(loop[t].idle)
NewIdle(t) ==
  IF More(t) THEN 0 ELSE IF loop[t].claimed > 0 THEN MinIdle ELSE IdleAfterNothing(t)

Earliest(due) == {d \in due : \A e \in due : d <= e}

\* A claimable row that the drain left behind may be a deadline that has passed.
Answers(t) ==
  {Earliest(rows[t].due)} \cup (IF t \in Combined /\ rows[t].ready > 0 THEN {{0}} ELSE {})
FloorOverdueDue(due) == {IF d = 0 THEN MinIdle ELSE d : d \in due}

\* Mistake: a runner asks when there is more work, too.
BugNextDue(t) == {{}, Earliest(rows[t].due)}

\* The deadline a cycle may report.  A runner asks only when there is no more work,
\* and reports nothing when the query fails.  A Combined cycle always asks; when
\* the query fails it falls back on an earlier answer, whatever that was, or on
\* MinIdle, and it puts a deadline that has passed off by MinIdle.
NextDue(t) ==
  IF t \in Combined
  THEN {FloorOverdueDue(a) : a \in Answers(t)}
         \cup {{d} : d \in 1 .. MaxDue \cup {MinIdle}}
  ELSE {{}} \cup (IF More(t) THEN {} ELSE Answers(t))

\* The loop takes the outcome and goes to wait, or straight to the next cycle.
Conclude(t, idle, due) ==
  /\ loop' = [loop EXCEPT ![t] =
       Waiting([@ EXCEPT !.idle = idle, !.due = due, !.claimed = 0], UntilDue(idle, due))]
  /\ owed' = [owed EXCEPT ![t].deadline = {d + Slack : d \in due},
                          ![t].backlog = IF idle = 0 THEN {Slack} ELSE {}]
  /\ lag' = [lag EXCEPT ![t] = 0]
  /\ took' = [took EXCEPT ![t] = FALSE]
  /\ UNCHANGED <<rows, wake, window, quiet>>

EndCycle(t) ==
  /\ loop[t].at = "report"
  /\ \E due \in NextDue(t) : Conclude(t, NewIdle(t), due)

\* A panic is recovered: the cycle did nothing and reports nothing.
CyclePanics(t) ==
  /\ loop[t].at \in {"work", "report"}
  /\ Conclude(t, IdleAfterNothing(t), {})

\* The process is restarted: only the rows are left.
Restart ==
  /\ wake' = [t \in Task |-> FALSE]
  /\ loop' = [t \in Task |-> Fresh]
  /\ window' = [open |-> 0, next |-> 0]
  /\ lag' = [t \in Task |-> 0]
  /\ owed' = [t \in Task |-> Nothing]
  /\ quiet' = WindowIdle
  /\ took' = [t \in Task |-> FALSE]
  /\ UNCHANGED rows

Run(t) ==
  \/ BypassGate(t) \/ PassGate(t) \/ HoldAtGate(t) \/ WakeUp(t) \/ TimerFires(t)
  \/ ProcessOne(t) \/ ScanRow(t) \/ Drained(t) \/ ProcessFails(t) \/ EndCycle(t)
  \/ CyclePanics(t)

Next ==
  \/ Tick \/ Restart
  \/ \E t \in Task : Run(t) \/ Insert(t) \/ Notify(t)

Spec == Init /\ [][Next]_vars
-----------------------------------------------------------------------------
\* Properties

TypeOK ==
  /\ rows \in [Task -> Rows]
  /\ wake \in [Task -> BOOLEAN]
  /\ loop \in [Task -> Loop]
  /\ window \in [open: 0 .. OpenFor, next: 0 .. WindowIdle]
  /\ lag \in [Task -> 0 .. Slack]
  /\ owed \in [Task -> [Reason -> SUBSET Int]]
  /\ quiet \in 0 .. WindowIdle
  /\ took \in [Task -> BOOLEAN]

OnTime(t, reason) == \A d \in owed[t][reason] : d >= 0

\* No wake is lost: whatever the loop is doing when Notify is called, a scan that
\* starts after it starts at once, without waiting for an idle period or for the
\* window (loop.go:205 rule 4, loop.go:310).
NotifiedIsScanned == \A t \in Task : OnTime(t, "notified")

\* A deadline the last cycle reported is kept although the idle wait is longer or
\* the window is closed (loop.go:42, :236).
DeadlineIsKept == \A t \in Task : OnTime(t, "deadline")

\* Wakes only improve latency (loop.go:6): whatever wakes are missing, the time
\* between two scans is bounded by the idle ceiling and one maintenance interval.
GapIsBounded == \A t \in Task : OnTime(t, "gap")

\* A runner's cycle that reports more work is followed by the next one at once
\* (loop.go:42, :203 rule 2); a Combined loop, which reports a deadline too, sleeps.
RunnerBacklogIsDrained == \A t \in Task \ Combined : OnTime(t, "backlog")

\* The aggregate quiet budget (maintenance.go:16): scans nobody asked for, of all
\* loops together, are within OpenFor of one another or WindowIdle apart.
QuietBudget ==
  [][\A t \in Task : PassGate(t) => quiet < OpenFor \/ quiet >= WindowIdle]_vars

\* No zero-delay hot loop (worker.go:239): only a cycle that took a row is followed
\* by another without a wait.
IdleCycleRests ==
  [][\A t \in Task : EndCycle(t) /\ ~took[t] => loop'[t].at = "wait"]_vars
=============================================================================
