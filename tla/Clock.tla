------------------------------- MODULE Clock -------------------------------
(***************************************************************************)
(* The simulated clock, and what is built on it: contexts with deadlines,  *)
(* a Go Timer and a Go Ticker.  The clock keeps its tasks itself and lets  *)
(* each run by a setTimeout of the host; it can be paused, resumed and     *)
(* stepped, and a step runs all that is due in simulated time at once.     *)
(*                                                                         *)
(* Client code - contexts, timers, microtasks - may act at any time, also  *)
(* from callbacks in the middle of a step; it doesn't pause, resume or     *)
(* step the clock from a callback, and its callbacks don't throw.          *)
(***************************************************************************)
EXTENDS Integers, Sequences, FiniteSets

CONSTANTS
    Delays,        \* the delays that callers ask for, and the sizes of steps
    Intervals,     \* the intervals of the Ticker; none: there is no Ticker
    MaxWall,       \* bound: the host's time
    MaxTasks,      \* bound: tasks the clock is ever given
    MaxContexts,   \* bound: contexts
    MaxResets,     \* bound: resets of the Timer, the first makes it; 0: there is no Timer
    MaxControls    \* bound: calls of pause, resume and step

\* A delay below 0 counts as 0; step and the Ticker throw for what is not here.
ASSUME ClockAssumption == Delays \subseteq Nat /\ Intervals \subseteq Nat \ {0}

VARIABLES
    wall,          \* Date.now()
    simulatedNow, startedAt, paused,    \* simulatedNowMs, wallStartedAtMs, paused
    tasks,         \* the tasks: [handle, due, interval, calls, fires], fires the host's time
    handles,       \* how many handles were given out
    microtasks,    \* how many microtasks wait
    flush,         \* microtaskFlushScheduled
    step,          \* the step under way: [from, to, resume], or NoStep
    contexts,      \* the contexts made so far
    timer,         \* the Timer
    ticker,        \* the Ticker: whether it runs and has a tick in its channel
    controls       \* calls of pause, resume and step so far
timeVars  == <<wall, simulatedNow, startedAt, paused>>
clockVars == <<timeVars, tasks, handles, microtasks, flush, step, contexts, timer, ticker, controls>>

NotSet == -1
NoStep == [from |-> NotSet, to |-> NotSet, resume |-> FALSE]
Later(s, t) == IF s > t THEN s ELSE t

(* What a task calls: the deadline of context c >= 1, or one of these.      *)
TheTimer == 0
TheTicker == -1
Resolve == -2       \* the promise of wait

nowMs == IF paused THEN simulatedNow ELSE simulatedNow + (wall - startedAt)

ClockInit ==
    /\ wall = 0 /\ simulatedNow = 0 /\ startedAt = 0 /\ paused = FALSE
    /\ tasks = {} /\ handles = 0 /\ microtasks = 0 /\ flush = FALSE /\ step = NoStep
    /\ contexts = <<>> /\ controls = 0
    /\ timer = [active |-> FALSE, pending |-> FALSE, tick |-> 0, period |-> 0, receiver |-> FALSE]
    /\ ticker = [runs |-> FALSE, tick |-> FALSE]

----------------------------------------------------------------------------
(* Tasks and the host's timers.                                             *)

\* When the host is to call a task at simulated time now, if the clock runs.
scheduleTask(t, now, runs) ==
    [t EXCEPT !.fires = IF runs THEN wall + Later(0, t.due - now) ELSE NotSet]
unscheduleTask(t) == [t EXCEPT !.fires = NotSet]
Scheduled(ts, now)  == {scheduleTask(t, now, TRUE) : t \in ts}
Unscheduled(ts)     == {unscheduleTask(t) : t \in ts}

NewTask(calls, delay, interval) ==
    scheduleTask([handle |-> handles + 1, due |-> nowMs + delay, interval |-> interval,
                  calls |-> calls, fires |-> NotSet], nowMs, ~paused)
SetTask(ts, calls, delay, interval) ==
    /\ handles < MaxTasks /\ handles' = handles + 1
    /\ tasks' = ts \cup {NewTask(calls, delay, interval)}
Without(calls) == {t \in tasks : t.calls \notin calls}     \* clearTimeout, clearInterval

scheduleMicrotaskFlush(runs) == flush' = (flush \/ runs)

queueMicrotask ==
    /\ microtasks = 0 /\ microtasks' = 1
    /\ scheduleMicrotaskFlush(~paused)
    /\ UNCHANGED <<timeVars, tasks, handles, step, contexts, timer, ticker, controls>>

\* The host's microtask: everything is flushed unless the clock was paused.
FlushMicrotasks ==
    /\ flush /\ step = NoStep /\ flush' = FALSE
    /\ microtasks' = IF paused THEN microtasks ELSE 0
    /\ UNCHANGED <<timeVars, tasks, handles, step, contexts, timer, ticker, controls>>

Wait(delay) ==
    /\ SetTask(tasks, Resolve, delay, 0)
    /\ UNCHANGED <<timeVars, microtasks, flush, step, contexts, timer, ticker, controls>>

----------------------------------------------------------------------------
(* Contexts.  Context 0 is the background.                                  *)

Contexts == DOMAIN contexts
Err(c)   == IF c = 0 THEN "none" ELSE contexts[c].err
Cause(c) == IF c = 0 THEN "none" ELSE contexts[c].cause

\* newCancelContext: a child of a cancelled parent is cancelled from birth,
\* any other is put among its parent's children.
NewContext(parent, deadline) ==
    [parent |-> parent, err |-> Err(parent), cause |-> Cause(parent), children |-> {},
     deadline |-> deadline]
Added(context) ==
    Append([c \in Contexts |->
              IF c = context.parent /\ Err(c) = "none"
                THEN [contexts[c] EXCEPT !.children = @ \cup {Len(contexts) + 1}]
                ELSE contexts[c]], context)

withCancel(parent) ==
    /\ Len(contexts) < MaxContexts
    /\ contexts' = Added(NewContext(parent, FALSE))
    /\ UNCHANGED <<timeVars, tasks, handles, microtasks, flush, step, timer, ticker, controls>>

withTimeout(parent, delay) ==
    /\ Len(contexts) < MaxContexts
    /\ \/ /\ Err(parent) # "none" /\ contexts' = Added(NewContext(parent, FALSE))
          /\ UNCHANGED <<tasks, handles>>
       \/ /\ Err(parent) = "none" /\ delay = 0
          /\ contexts' = Append(contexts, [NewContext(parent, FALSE) EXCEPT
                                  !.err = "DeadlineExceeded", !.cause = "DeadlineExceeded"])
          /\ UNCHANGED <<tasks, handles>>
       \/ /\ Err(parent) = "none" /\ delay > 0
          /\ contexts' = Added(NewContext(parent, TRUE))
          /\ SetTask(tasks, Len(contexts) + 1, delay, 0)
    /\ UNCHANGED <<timeVars, microtasks, flush, step, timer, ticker, controls>>

\* cancel reaches the children that are registered, and theirs: what is in every
\* set of contexts that holds c and the children of its members.
Reached(c) ==
    LET Closed(S) == c \in S /\ \A p \in S : contexts[p].children \subseteq S
    IN  {d \in Contexts : Err(d) = "none" /\ \A S \in SUBSET Contexts : Closed(S) => d \in S}
CancelledAnew(c, err, cause) ==    \* mutant: a second cancel counts
    [d \in Contexts |->
        IF d \in Reached(c) \cup {c}
          THEN [contexts[d] EXCEPT !.err = err, !.cause = cause, !.children = {}]
          ELSE [contexts[d] EXCEPT !.children = @ \ {c}]]
Cancelled(c, err, cause) ==
    IF Err(c) # "none" THEN contexts
    ELSE [d \in Contexts |->
            IF d \in Reached(c)
              THEN [contexts[d] EXCEPT !.err = err, !.cause = cause, !.children = {}]
              ELSE [contexts[d] EXCEPT !.children = @ \ {c}]]

\* cleanup clears the deadlines of what is cancelled.
CleanedAlone(c) == IF Err(c) # "none" THEN tasks ELSE Without({c})    \* mutant: not its children's
Cleaned(c)      == IF Err(c) # "none" THEN tasks ELSE Without(Reached(c))

CancelContext(c, cause) ==
    /\ contexts' = Cancelled(c, "Canceled", cause)
    /\ tasks' = Cleaned(c)
    /\ UNCHANGED <<timeVars, handles, microtasks, flush, step, timer, ticker, controls>>

----------------------------------------------------------------------------
(* The Timer and the Ticker: a channel with room for one tick each.  A tick *)
(* of the Timer is the number of the reset it is for.                       *)

Stopped    == [timer EXCEPT !.active = FALSE, !.pending = FALSE, !.tick = 0]

StopTimer ==
    /\ timer.period > 0
    /\ timer' = Stopped /\ tasks' = Without({TheTimer})
    /\ UNCHANGED <<timeVars, handles, microtasks, flush, step, contexts, ticker, controls>>

ResetTimer(delay) ==
    /\ timer.period < MaxResets
    /\ timer' = [Stopped EXCEPT !.active = TRUE, !.period = @ + 1]
    /\ SetTask(Without({TheTimer}), TheTimer, delay, 0)
    /\ UNCHANGED <<timeVars, microtasks, flush, step, contexts, ticker, controls>>

\* The tick goes to a receiver that waits, which notes it as received, or
\* into the channel.
Ticked ==
    IF timer.receiver
      THEN [timer EXCEPT !.active = FALSE, !.pending = FALSE, !.receiver = FALSE]
      ELSE [timer EXCEPT !.active = FALSE, !.pending = TRUE, !.tick = timer.period]

ReceiveTick ==
    /\ timer.period > 0 /\ ~timer.receiver
    /\ timer' = IF timer.tick = 0 THEN [timer EXCEPT !.receiver = TRUE]
                ELSE [timer EXCEPT !.pending = FALSE, !.tick = 0]
    /\ UNCHANGED <<timeVars, tasks, handles, microtasks, flush, step, contexts, ticker, controls>>

StartTicker(interval) ==
    /\ ticker' = [runs |-> TRUE, tick |-> FALSE]
    /\ SetTask(Without({TheTicker}), TheTicker, interval, interval)
    /\ UNCHANGED <<timeVars, microtasks, flush, step, contexts, timer, controls>>
StopTicker ==
    /\ ticker.runs /\ ticker' = [runs |-> FALSE, tick |-> FALSE] /\ tasks' = Without({TheTicker})
    /\ UNCHANGED <<timeVars, handles, microtasks, flush, step, contexts, timer, controls>>
ReceiveTickerTick ==
    /\ ticker.tick /\ ticker' = [ticker EXCEPT !.tick = FALSE]
    /\ UNCHANGED <<timeVars, tasks, handles, microtasks, flush, step, contexts, timer, controls>>

----------------------------------------------------------------------------
(* A task runs: what it calls, then it goes or, an interval, is due again.  *)

RunTask(t) ==
    /\ contexts' = IF t.calls > 0
                     THEN Cancelled(t.calls, "DeadlineExceeded", "DeadlineExceeded")
                     ELSE contexts
    /\ timer' = IF t.calls = TheTimer THEN Ticked ELSE timer
    /\ ticker' = IF t.calls = TheTicker THEN [ticker EXCEPT !.tick = TRUE] ELSE ticker
After(t) == (IF t.calls > 0 THEN Cleaned(t.calls) ELSE tasks) \ {t}
Kept(t)  == IF t.interval = 0 THEN {} ELSE {t}

\* The host calls a task.  An interval is due again an interval from now.
Fire(t) ==
    /\ step = NoStep /\ t.fires # NotSet /\ t.fires <= wall
    /\ RunTask(t)
    /\ tasks' = After(t) \cup
         {scheduleTask([k EXCEPT !.due = nowMs + k.interval], nowMs, ~paused) : k \in Kept(t)}
    /\ UNCHANGED <<timeVars, handles, microtasks, flush, step, controls>>

----------------------------------------------------------------------------
(* pause, resume and step.                                                  *)

pause ==
    /\ step = NoStep /\ ~paused /\ controls < MaxControls /\ controls' = controls + 1
    /\ simulatedNow' = nowMs /\ paused' = TRUE
    /\ tasks' = Unscheduled(tasks)
    /\ UNCHANGED <<wall, startedAt, handles, microtasks, flush, step, contexts, timer, ticker>>

Resumed ==
    /\ paused' = FALSE /\ startedAt' = wall
    /\ tasks' = Scheduled(tasks, simulatedNow')
resume ==
    /\ step = NoStep /\ paused /\ controls < MaxControls /\ controls' = controls + 1
    /\ UNCHANGED simulatedNow /\ Resumed
    /\ scheduleMicrotaskFlush(TRUE)
    /\ UNCHANGED <<wall, handles, microtasks, step, contexts, timer, ticker>>

StepBegins(ms) ==
    /\ step = NoStep /\ controls < MaxControls /\ controls' = controls + 1
    /\ step' = [from |-> nowMs, to |-> nowMs + ms, resume |-> ~paused]
    /\ simulatedNow' = nowMs /\ paused' = TRUE
    /\ tasks' = Unscheduled(tasks)
    /\ UNCHANGED <<wall, startedAt, handles, microtasks, flush, contexts, timer, ticker>>

DueTasks == {t \in tasks : t.due <= step.to}
IsNext(t) == \A s \in DueTasks : t.due < s.due \/ (t.due = s.due /\ t.handle <= s.handle)

\* The next due task runs, at its time, and the microtasks after it.  The
\* time goes back if the host was late with the task.
StepRuns(t) ==
    /\ step # NoStep /\ t \in DueTasks /\ IsNext(t)
    /\ simulatedNow' = t.due
    /\ RunTask(t)
    /\ microtasks' = 0
    /\ tasks' = After(t) \cup {[k EXCEPT !.due = @ + k.interval] : k \in Kept(t)}
    /\ UNCHANGED <<wall, startedAt, paused, handles, flush, step, controls>>

StepEnds ==
    /\ step # NoStep /\ DueTasks = {}
    /\ simulatedNow' = step.to /\ microtasks' = 0 /\ step' = NoStep
    /\ \/ step.resume /\ Resumed /\ scheduleMicrotaskFlush(TRUE)
       \/ ~step.resume /\ UNCHANGED <<paused, startedAt, tasks, flush>>
    /\ UNCHANGED <<wall, handles, contexts, timer, ticker, controls>>

\* The host's time passes; its timers may be late.
Elapse ==
    /\ step = NoStep /\ wall < MaxWall /\ wall' = wall + 1
    /\ UNCHANGED <<simulatedNow, startedAt, paused, tasks, handles, microtasks, flush, step,
                   contexts, timer, ticker, controls>>

----------------------------------------------------------------------------
ClockNext ==
    \/ Elapse \/ pause \/ resume \/ StepEnds \/ queueMicrotask \/ FlushMicrotasks
    \/ \E t \in tasks : Fire(t) \/ StepRuns(t)
    \/ \E d \in Delays : Wait(d) \/ ResetTimer(d) \/ StepBegins(d)
    \/ \E i \in Intervals : StartTicker(i)
    \/ StopTimer \/ ReceiveTick \/ StopTicker \/ ReceiveTickerTick
    \/ \E c \in Contexts \cup {0} : withCancel(c) \/ \E d \in Delays : withTimeout(c, d)
    \/ \E c \in Contexts, cause \in {"Canceled", "given"} : CancelContext(c, cause)
ClockSpec == ClockInit /\ [][ClockNext]_clockVars

----------------------------------------------------------------------------
(* Properties *)

\* A paused clock, or one that steps, has no timer with the host; a running
\* one has exactly one for each of its tasks, set neither before its time
\* nor, however often the clock was paused and stepped, after it.
HostTimersAreRight ==
    \A t \in tasks :
        IF paused THEN t.fires = NotSet
        ELSE LET at == simulatedNow + (t.fires - startedAt)
             IN  t.fires # NotSet /\ t.due <= at /\ at <= Later(t.due, nowMs)

\* Microtasks that wait while the clock runs are about to be flushed.
MicrotasksAreServed == (microtasks > 0 /\ ~paused) => flush

\* A context whose parent is cancelled is cancelled.  One that isn't can be
\* reached from its parent and has its deadline's task; one that is holds
\* neither a task of the clock nor a place among its parent's children.
ContextsAreSound ==
    \A c \in Contexts :
        LET parent == contexts[c].parent
            hasTask == \E t \in tasks : t.calls = c
        IN  IF Err(c) = "none"
              THEN /\ Err(parent) = "none" /\ (parent # 0 => c \in contexts[parent].children)
                   /\ hasTask = contexts[c].deadline
              ELSE ~hasTask /\ \A p \in Contexts : c \notin contexts[p].children

\* What the Timer's channel holds is a tick of its latest reset; while there
\* is one, and only then, the Timer says it's pending; and it waits for a
\* task of the clock exactly while it's active.
TimerIsSound ==
    /\ timer.tick # 0 => timer.tick = timer.period
    /\ timer.pending = (timer.tick # 0)
    /\ timer.active = (\E t \in tasks : t.calls = TheTimer)
    /\ ticker.runs = (\E t \in tasks : t.calls = TheTicker) /\ (ticker.tick => ticker.runs)

ClockIsSound ==
    HostTimersAreRight /\ MicrotasksAreServed /\ ContextsAreSound /\ TimerIsSound

\* The clock's time goes on with the host's while it runs and stands while
\* it's paused.  A step runs its tasks in the order they are due - back only
\* to those the host was late with - and leaves nothing due behind.
TimeGoesRight ==
    /\ (step = NoStep /\ step' = NoStep) =>
         nowMs' = nowMs + (IF paused THEN 0 ELSE wall' - wall)
    /\ step # NoStep =>
         /\ simulatedNow' >= simulatedNow \/ simulatedNow' < step.from
         /\ step' = NoStep => \A t \in tasks' : t.due > nowMs'
TimeIsRight == [][TimeGoesRight]_clockVars

\* A context that is cancelled stays so, for the same reason; and whoever is
\* cancelled together with its parent has its parent's reason.
CancelStays ==
    \A c \in Contexts :
        /\ Err(c) # "none" => (contexts'[c].err = Err(c) /\ contexts'[c].cause = Cause(c))
        /\ LET p == contexts[c].parent
           IN  (p # 0 /\ Err(c) = "none" /\ Err(p) = "none" /\ contexts'[p].err # "none") =>
                   contexts'[c].cause = contexts'[p].cause
CancelledForGood == [][CancelStays]_clockVars
=============================================================================
