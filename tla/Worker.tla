------------------------------- MODULE Worker -------------------------------
(***************************************************************************)
(* A worker (thread/worker.cc): a thread that runs the handlers of an      *)
(* io_context, started and stopped by its owner, fed with tasks by any     *)
(* thread, and with the turns of one periodic task by the scheduler.       *)
(*                                                                         *)
(* PostTask is boost::asio::dispatch: from another thread it queues the    *)
(* task, from a task of the worker it runs the new one inside the old.     *)
(*                                                                         *)
(* ScheduleEvery keeps no state of its own: each turn is a closure that    *)
(* holds the clock reading and the delay it was made with, and makes the   *)
(* next one.  The closure is followed through the scheduler's queue and    *)
(* the worker's.  Time is counted in ticks, Unit of which make the         *)
(* millisecond to which ScheduleFromNow cuts a delay.  The scheduler may   *)
(* be late, and, having two threads, also early (NeverEarly in Scheduler). *)
(***************************************************************************)
EXTENDS Integers, Sequences, Functions

CONSTANTS Period,     \* the period, in ticks
          Unit,       \* ticks per millisecond
          MaxTasks,   \* bound: tasks posted
          MaxStarts,  \* bound: calls of Start
          MaxRounds,  \* bound: turns that make a next one
          MaxTime     \* bound: the clock

ASSUME WorkerAssumption ==
    /\ Period \in Nat /\ Unit \in Nat \ {0}
    /\ MaxTasks \in Nat /\ MaxStarts \in Nat
    /\ MaxRounds \in Nat /\ MaxTime \in Nat

VARIABLES
    running,   \* running_
    guard,     \* guard_ keeps ioc_.run() from returning
    owner,     \* what the owner's thread is doing
    thread,    \* work_thread_
    queue,     \* handlers of ioc_ that wait for the thread
    stack,     \* handlers being executed, the innermost first
    starts,    \* calls of Start so far
    posted,    \* tasks posted so far; they are numbered
    done,      \* tasks that have returned, or thrown inside a turn
    owed,      \* history: tasks that were queued or running when Stop was called
    now,       \* steady_clock, since the call of ScheduleEvery
    turn,      \* where the closure of the periodic task is
    start,     \* the clock reading it holds
    delay,     \* the delay it holds; negative when the last turn was late
    due,       \* its time in the scheduler's queue
    rounds,    \* history: turns that have made a next one
    slips,     \* history: time between the two clock readings of all rounds
    gap        \* history: time between start and the scheduler's own reading

threadVars == <<running, guard, owner, thread, starts>>
taskVars == <<queue, stack, posted, done, owed>>
turnVars == <<turn, start, delay, due, rounds, slips, gap>>
vars == <<threadVars, taskVars, now, turnVars>>

-----------------------------------------------------------------------------
\* A handler is a task, by its number, or the closure of the periodic task.
PeriodTask == 0
Handlers == 0 .. MaxTasks

OwnerStates == {"free", "starting", "joining"}
ThreadStates == {"none", "starting", "run", "ended", "terminated"}
TurnStates == {"none", "arm", "timer", "queue", "run", "again", "end"}

Max(a, b) == IF a > b THEN a ELSE b

Init ==
    /\ running = FALSE
    /\ guard = FALSE
    /\ owner = "free"
    /\ thread = "none"
    /\ queue = <<>>
    /\ stack = <<>>
    /\ starts = 0
    /\ posted = 0
    /\ done = {}
    /\ owed = {}
    /\ now = 0
    /\ turn = "none"
    /\ start = 0
    /\ delay = 0
    /\ due = 0
    /\ rounds = 0
    /\ slips = 0
    /\ gap = 0

-----------------------------------------------------------------------------
(* The owner.                                                              *)

\* Start, up to the wait for the promise.
Start ==
    /\ owner = "free"
    /\ ~running
    /\ starts < MaxStarts
    /\ running' = TRUE
    /\ guard' = TRUE
    /\ thread' = "starting"
    /\ owner' = "starting"
    /\ starts' = starts + 1
    /\ UNCHANGED <<taskVars, now, turnVars>>

\* The thread has set its id and the promise.
ThreadBegins ==
    /\ thread = "starting"
    /\ thread' = "run"
    /\ owner' = "free"
    /\ UNCHANGED <<running, guard, starts, taskVars, now, turnVars>>

Outstanding == Range(queue) \cup Range(stack)

\* Stop, up to join().
Stop ==
    /\ owner = "free"
    /\ running
    /\ running' = FALSE
    /\ guard' = FALSE
    /\ owner' = "joining"
    /\ owed' = Outstanding \ {PeriodTask}
    /\ UNCHANGED <<thread, starts, queue, stack, posted, done, now, turnVars>>

\* join() returns; ioc_.stop() follows.
Join ==
    /\ owner = "joining"
    /\ thread = "ended"
    /\ owner' = "free"
    /\ thread' = "none"
    /\ UNCHANGED <<running, guard, starts, taskVars, now, turnVars>>

-----------------------------------------------------------------------------
(* Tasks.                                                                  *)

\* A plausible bug: a stopped worker drops what is posted.
PostTaskWhenRunning ==
    /\ posted < MaxTasks
    /\ posted' = posted + 1
    /\ queue' = IF running THEN Append(queue, posted + 1) ELSE queue
    /\ UNCHANGED <<threadVars, stack, done, owed, now, turnVars>>

\* PostTask on a thread that is not the worker's.
PostTask ==
    /\ posted < MaxTasks
    /\ posted' = posted + 1
    /\ queue' = Append(queue, posted + 1)
    /\ UNCHANGED <<threadVars, stack, done, owed, now, turnVars>>

\* PostTask by the task or the turn that the worker is executing.
PostTaskInline ==
    /\ stack # <<>>
    /\ Head(stack) = PeriodTask => turn = "run"
    /\ posted < MaxTasks
    /\ posted' = posted + 1
    /\ stack' = <<posted + 1>> \o stack
    /\ UNCHANGED <<threadVars, queue, done, owed, now, turnVars>>

\* A plausible bug: the thread takes no handler once it is being stopped.
TakeHandlerWhileRunning ==
    /\ thread = "run"
    /\ running
    /\ stack = <<>>
    /\ queue # <<>>
    /\ stack' = <<Head(queue)>>
    /\ queue' = Tail(queue)
    /\ turn' = IF Head(queue) = PeriodTask THEN "run" ELSE turn
    /\ UNCHANGED <<threadVars, posted, done, owed, now,
                   start, delay, due, rounds, slips, gap>>

\* A plausible bug: the handler is copied but not removed from the queue.
TakeHandlerKeep ==
    /\ thread = "run"
    /\ stack = <<>>
    /\ queue # <<>>
    /\ stack' = <<Head(queue)>>
    /\ turn' = IF Head(queue) = PeriodTask THEN "run" ELSE turn
    /\ UNCHANGED <<threadVars, queue, posted, done, owed, now,
                   start, delay, due, rounds, slips, gap>>

\* ioc_.run() takes the next handler.
TakeHandler ==
    /\ thread = "run"
    /\ stack = <<>>
    /\ queue # <<>>
    /\ stack' = <<Head(queue)>>
    /\ queue' = Tail(queue)
    /\ turn' = IF Head(queue) = PeriodTask THEN "run" ELSE turn
    /\ UNCHANGED <<threadVars, posted, done, owed, now,
                   start, delay, due, rounds, slips, gap>>

TaskReturns ==
    /\ stack # <<>>
    /\ Head(stack) # PeriodTask
    /\ done' = done \cup {Head(stack)}
    /\ stack' = Tail(stack)
    /\ UNCHANGED <<threadVars, queue, posted, owed, now, turnVars>>

\* Nothing catches what a posted task throws.
TaskThrows ==
    /\ stack # <<>>
    /\ PeriodTask \notin Range(stack)
    /\ thread' = "terminated"
    /\ UNCHANGED <<running, guard, owner, starts, taskVars, now, turnVars>>

\* A plausible bug: ioc_.stop() before join().
RunReturnsAtOnce ==
    /\ thread = "run"
    /\ ~guard
    /\ stack = <<>>
    /\ thread' = "ended"
    /\ UNCHANGED <<running, guard, owner, starts, taskVars, now, turnVars>>

\* ioc_.run() returns when it has no handler left and no guard.
RunReturns ==
    /\ thread = "run"
    /\ ~guard
    /\ queue = <<>>
    /\ stack = <<>>
    /\ thread' = "ended"
    /\ UNCHANGED <<running, guard, owner, starts, taskVars, now, turnVars>>

-----------------------------------------------------------------------------
(* The periodic task.                                                      *)

\* ScheduleEvery, called on a thread that is not the worker's: the first delay
\* is the period.
ScheduleEvery ==
    /\ turn = "none"
    /\ turn' = "arm"
    /\ start' = now
    /\ delay' = Period
    /\ UNCHANGED <<threadVars, taskVars, now, due, rounds, slips, gap>>

\* ScheduleFromNow and Schedule: the delay, not below zero and cut to whole
\* milliseconds, is added to the scheduler's own reading of the clock.  On the
\* worker this ends the turn that made the closure.
Arm ==
    /\ turn = "arm"
    /\ \E cut \in 0 .. Unit - 1 :
         /\ cut <= Max(delay, 0)
         /\ (Max(delay, 0) - cut) % Unit = 0
         /\ due' = now + Max(delay, 0) - cut
    /\ gap' = now - start
    /\ turn' = "timer"
    /\ stack' = IF stack # <<>> /\ Head(stack) = PeriodTask THEN Tail(stack) ELSE stack
    /\ UNCHANGED <<threadVars, queue, posted, done, owed, now,
                   start, delay, rounds, slips>>

\* A plausible bug: a stopped worker drops the turn.
FireWhenRunning ==
    /\ turn = "timer"
    /\ turn' = "queue"
    /\ queue' = IF running THEN Append(queue, PeriodTask) ELSE queue
    /\ UNCHANGED <<threadVars, stack, posted, done, owed, now,
                   start, delay, due, rounds, slips, gap>>

\* The scheduler executes the closure, which posts itself to the worker.
Fire ==
    /\ turn = "timer"
    /\ turn' = "queue"
    /\ queue' = Append(queue, PeriodTask)
    /\ UNCHANGED <<threadVars, stack, posted, done, owed, now,
                   start, delay, due, rounds, slips, gap>>

\* A plausible bug: the next turn a period after the end of this one.
TurnContinuesFixed ==
    /\ turn = "run"
    /\ Head(stack) = PeriodTask
    /\ rounds < MaxRounds
    /\ turn' = "again"
    /\ delay' = Period
    /\ start' = now
    /\ rounds' = rounds + 1
    /\ UNCHANGED <<threadVars, taskVars, now, due, slips, gap>>

\* task() returns true and the next delay is computed; start holds the reading
\* it is computed from until ScheduleEvery reads the clock again.
TurnContinues ==
    /\ turn = "run"
    /\ Head(stack) = PeriodTask
    /\ rounds < MaxRounds
    /\ turn' = "again"
    /\ delay' = Period - (now - start - delay)
    /\ start' = now
    /\ rounds' = rounds + 1
    /\ UNCHANGED <<threadVars, taskVars, now, due, slips, gap>>

\* ScheduleEvery, called by the turn.
ScheduleAgain ==
    /\ turn = "again"
    /\ turn' = "arm"
    /\ start' = now
    /\ slips' = slips + (now - start)
    /\ UNCHANGED <<threadVars, taskVars, now, delay, due, rounds, gap>>

\* task() returns false, or it throws, or a task that it runs does: the
\* exception is logged and the turn makes no next one.
TurnEnds ==
    /\ turn = "run"
    /\ turn' = "end"
    /\ done' = done \cup (Range(stack) \ {PeriodTask})
    /\ stack' = <<>>
    /\ UNCHANGED <<threadVars, queue, posted, owed, now,
                   start, delay, due, rounds, slips, gap>>

Tick ==
    /\ turn # "none"
    /\ now < MaxTime
    /\ now' = now + 1
    /\ UNCHANGED <<threadVars, taskVars, turnVars>>

-----------------------------------------------------------------------------
ThreadStep ==
    \/ ThreadBegins
    \/ TakeHandler
    \/ TaskReturns
    \/ RunReturns
    \/ Arm
    \/ TurnContinues
    \/ ScheduleAgain
    \/ TurnEnds

Next ==
    /\ thread # "terminated"
    /\ \/ Start \/ Stop \/ Join
       \/ PostTask \/ PostTaskInline \/ TaskThrows
       \/ ScheduleEvery \/ Fire
       \/ Tick
       \/ ThreadStep

Spec == Init /\ [][Next]_vars

\* The worker's thread keeps running, tasks return, the scheduler executes what
\* is due (EventuallyExecuted in Scheduler), and time passes.
Fairness ==
    /\ WF_vars(thread # "terminated" /\ ThreadStep)
    /\ WF_vars(thread # "terminated" /\ Join)
    /\ WF_vars(thread # "terminated" /\ Fire /\ now >= due)
    /\ WF_vars(thread # "terminated" /\ Tick)

FairSpec == Spec /\ Fairness

-----------------------------------------------------------------------------
\* Where the next turn has its place on the grid of periods.
Place == (rounds + 1) * Period

TypeOK ==
    /\ running \in BOOLEAN
    /\ guard = running
    /\ owner \in OwnerStates
    /\ thread \in ThreadStates
    /\ queue \in Seq(Handlers)
    /\ stack \in Seq(Handlers)
    /\ starts \in 0 .. MaxStarts
    /\ posted \in 0 .. MaxTasks
    /\ done \subseteq 1 .. posted
    /\ owed \subseteq 1 .. posted
    /\ now \in 0 .. MaxTime
    /\ turn \in TurnStates
    /\ start \in Nat /\ delay \in Int /\ due \in Nat
    /\ rounds \in Nat /\ slips \in Nat /\ gap \in Nat

\* Stop drains: when join() returns, every task that was queued or running when
\* Stop was called has been executed; ioc_.stop() comes after join().
StopDrains ==
    owner = "joining" /\ thread = "ended" => owed \subseteq done

\* Nothing that was handed to the worker is lost or executed twice, also while
\* it is stopped: every task is in one place, either queued, being executed, or
\* done; the closure of the periodic task is in the worker's queue or on its
\* stack, once, exactly while it has been fired and not ended or armed again;
\* handlers are executed by a thread that is there; and while Stop waits for
\* the thread, the thread is there and guard_ does not keep it.
NothingLost ==
    /\ IsInjective(queue) /\ IsInjective(stack)
    /\ Range(queue) \cap Range(stack) = {}
    /\ Outstanding \cap done = {}
    /\ (Outstanding \ {PeriodTask}) \cup done = 1 .. posted
    /\ PeriodTask \in Range(queue) <=> turn = "queue"
    /\ turn \in {"run", "again"} => PeriodTask \in Range(stack)
    /\ PeriodTask \in Range(stack) => turn \in {"run", "again", "arm"}
    /\ stack # <<>> => thread \in {"run", "terminated"}
    /\ owner = "joining" => ~guard /\ thread \in {"run", "ended", "terminated"}

\* The periodic task neither runs ahead nor drifts, however early or late its
\* turns were fired and however long they took: a turn enters the scheduler's
\* queue less than a millisecond before its place on the grid of periods, and,
\* unless the last turn was late by more than a period, not after it, except
\* for the time that passed between readings of the clock.
NoDrift ==
    turn = "timer" =>
        /\ Place - Unit < due
        /\ delay >= 0 => due <= Place + slips + gap

\* Stop returns, unless a task throws.
StopReturns == owner = "joining" ~> owner = "free" \/ thread = "terminated"

\* A task is executed once the worker runs for good, also one that was posted
\* while it was stopped.
TasksRun ==
    \A c \in 1 .. MaxTasks :
        <>[](running /\ thread # "terminated" /\ c <= posted) => <>(c \in done)

\* Once the worker runs for good, the chain of turns ends only when task() ends
\* it, or beyond the time observed: no turn is lost, also when one was fired
\* while the worker was stopped.
TurnsGoOn ==
    <>[](running /\ thread # "terminated" /\ turn # "none")
        => <>[](turn = "end" \/ (turn = "timer" /\ due > MaxTime))
=============================================================================
