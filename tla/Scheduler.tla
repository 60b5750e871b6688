------------------------------ MODULE Scheduler ------------------------------
(***************************************************************************)
(* The timed executor of thread/scheduler.cc: a pool of threads that share *)
(* one multimap of functions keyed by the time at which they are due, one  *)
(* mutex and one condition variable.                                       *)
(*                                                                         *)
(* Everything between two points where queue_mutex_ is released is one     *)
(* step.  A thread releases it in wait(), in wait_until() and around f();  *)
(* Schedule and Stop release it before they notify.                        *)
(***************************************************************************)
EXTENDS Integers, FiniteSets

CONSTANTS Threads,       \* threads_: the pool, fixed by the constructor
          Points,        \* the time points that callers pass to Schedule
          MaxFunctions,  \* bound: number of calls of Schedule
          MaxTime        \* bound: where the clock stops

ASSUME SchedulerAssumption ==
    /\ IsFiniteSet(Threads)
    /\ Threads # {}
    /\ Points \subseteq Nat
    /\ MaxFunctions \in Nat
    /\ MaxTime \in Nat

VARIABLES
    now,            \* std::chrono::steady_clock
    functionQueue,  \* function_queue_: the entries [id, point] of the multimap
    nextId,         \* number of the next call of Schedule: its insertion order
    stopRequested,  \* stop_requested_
    stopWhenEmpty,  \* stop_when_empty_
    threadCount,    \* thread_count_
    thread,         \* where each thread is in ProcessFunctionQueue
    deadline,       \* the local variable `time` of each thread
    running,        \* the local variable `f` of each thread
    finished,       \* ids of the functions that have returned
    pendingNotify,  \* calls of Schedule between the unlock and notify_one
    owner,          \* where the thread that calls Stop is
    toDrain,        \* ids accepted before stop_when_empty_ was set
    aborted         \* LOG(FATAL) has ended the process

queueVars == <<functionQueue, nextId, pendingNotify>>
threadVars == <<thread, deadline, running, threadCount, finished>>
stopVars == <<stopRequested, stopWhenEmpty, owner, toDrain>>
vars == <<now, queueVars, threadVars, stopVars, aborted>>

-----------------------------------------------------------------------------
ThreadStates == {"ready",    \* wants the mutex, will look at the queue
                 "waiting",  \* in queue_schedule_cv_.wait(lk)
                 "timed",    \* in queue_schedule_cv_.wait_until(lk, time)
                 "woken",    \* wait_until is returning, wants the mutex
                 "running",  \* executing f() without the mutex
                 "exited"}
OwnerStates == {"live", "flagged", "joining", "stopped"}

Ids == Nat \ {0}
Entries == [id : Ids, point : Nat]
NoFunction == [id |-> 0, point |-> 0]

\* The order of the multimap: by key, equal keys in insertion order.
Precedes(e, d) == e.point < d.point \/ (e.point = d.point /\ e.id <= d.id)

\* e is function_queue_.begin()
IsBegin(e) == e \in functionQueue /\ \A d \in functionQueue : Precedes(e, d)

\* Threads that a notification can wake.
Waiters == {t \in Threads : thread[t] \in {"waiting", "timed"}}

\* Woken from wait() a thread re-tests the queue, woken from wait_until() it
\* first learns whether its deadline has passed.
AfterWait(state) ==
    CASE state = "waiting" -> "ready"
      [] state = "timed"   -> "woken"
      [] OTHER             -> state

Init ==
    /\ now = 0
    /\ functionQueue = {}
    /\ nextId = 1
    /\ stopRequested = FALSE
    /\ stopWhenEmpty = FALSE
    /\ threadCount = Cardinality(Threads)
    /\ thread = [t \in Threads |-> "ready"]
    /\ deadline = [t \in Threads |-> 0]
    /\ running = [t \in Threads |-> NoFunction]
    /\ finished = {}
    /\ pendingNotify = 0
    /\ owner = "live"
    /\ toDrain = {}
    /\ aborted = FALSE

-----------------------------------------------------------------------------
(* Callers of Schedule and ScheduleFromNow, from any thread.               *)

Schedule(point) ==
    /\ ~aborted
    /\ nextId <= MaxFunctions
    /\ functionQueue' = functionQueue \cup {[id |-> nextId, point |-> point]}
    /\ nextId' = nextId + 1
    /\ pendingNotify' = pendingNotify + 1
    /\ UNCHANGED <<now, threadVars, stopVars, aborted>>

\* A plausible bug: the new entry is not announced to the waiting threads.
NotifyOneNobody ==
    /\ ~aborted
    /\ pendingNotify > 0
    /\ pendingNotify' = pendingNotify - 1
    /\ UNCHANGED <<now, functionQueue, nextId, threadVars, stopVars, aborted>>

\* queue_schedule_cv_.notify_one(): wakes any one of the waiters, or nobody.
NotifyOne ==
    /\ ~aborted
    /\ pendingNotify > 0
    /\ pendingNotify' = pendingNotify - 1
    /\ \/ /\ Waiters = {}
          /\ UNCHANGED thread
       \/ \E t \in Waiters : thread' = [thread EXCEPT ![t] = AfterWait(@)]
    /\ UNCHANGED <<now, functionQueue, nextId, deadline, running, threadCount,
                   finished, stopVars, aborted>>

-----------------------------------------------------------------------------
(* The threads.                                                            *)

\* The end of ProcessFunctionQueue.
Exit(t) ==
    /\ thread' = [thread EXCEPT ![t] = "exited"]
    /\ threadCount' = threadCount - 1
    /\ UNCHANGED <<functionQueue, deadline, running>>

\* Blocks in wait(), or ends when there is nothing left to drain.
EmptyQueue(t) ==
    /\ functionQueue = {}
    /\ \/ stopWhenEmpty /\ Exit(t)
       \/ /\ ~stopWhenEmpty
          /\ thread' = [thread EXCEPT ![t] = "waiting"]
          /\ UNCHANGED <<functionQueue, deadline, running, threadCount>>

\* A plausible bug: a drain makes the threads leave whatever is queued.
LookAtQueueDrop(t) ==
    \/ (stopRequested \/ stopWhenEmpty) /\ Exit(t)
    \/ ~stopRequested /\ ~stopWhenEmpty /\ EmptyQueue(t)
    \/ /\ ~stopRequested /\ ~stopWhenEmpty
       /\ \E e \in functionQueue :
            IsBegin(e) /\ deadline' = [deadline EXCEPT ![t] = e.point]
       /\ thread' = [thread EXCEPT ![t] = "timed"]
       /\ UNCHANGED <<functionQueue, running, threadCount>>

\* A plausible bug: the threads wait for the last entry.
LookAtQueueLast(t) ==
    \/ stopRequested /\ Exit(t)
    \/ ~stopRequested /\ EmptyQueue(t)
    \/ /\ ~stopRequested
       /\ \E e \in functionQueue :
            /\ \A f \in functionQueue : f.point <= e.point
            /\ deadline' = [deadline EXCEPT ![t] = e.point]
       /\ thread' = [thread EXCEPT ![t] = "timed"]
       /\ UNCHANGED <<functionQueue, running, threadCount>>

\* With the mutex held: leave, wait for work, or wait until the first entry
\* is due.  The loop condition, both inner loops, `break` and `continue` all
\* come to this choice.
LookAtQueue(t) ==
    \/ stopRequested /\ Exit(t)
    \/ ~stopRequested /\ EmptyQueue(t)
    \/ /\ ~stopRequested
       /\ \E e \in functionQueue :
            IsBegin(e) /\ deadline' = [deadline EXCEPT ![t] = e.point]
       /\ thread' = [thread EXCEPT ![t] = "timed"]
       /\ UNCHANGED <<functionQueue, running, threadCount>>

\* A plausible bug: the entry is copied but not erased.
TakeFirstKeep(t) ==
    \E e \in functionQueue :
        /\ IsBegin(e)
        /\ UNCHANGED functionQueue
        /\ running' = [running EXCEPT ![t] = e]
        /\ thread' = [thread EXCEPT ![t] = "running"]
        /\ UNCHANGED <<deadline, threadCount>>

\* Copies and erases function_queue_.begin(), then releases the mutex.
TakeFirst(t) ==
    \E e \in functionQueue :
        /\ IsBegin(e)
        /\ functionQueue' = functionQueue \ {e}
        /\ running' = [running EXCEPT ![t] = e]
        /\ thread' = [thread EXCEPT ![t] = "running"]
        /\ UNCHANGED <<deadline, threadCount>>

\* The thread gets the mutex at the top of the loop: it has just started, was
\* woken from wait(), or has just run a function.
Enter(t) ==
    /\ ~aborted
    /\ thread[t] = "ready"
    /\ LookAtQueue(t)
    /\ UNCHANGED <<now, nextId, pendingNotify, finished, stopVars, aborted>>

\* wait_until returns with the mutex: before the deadline it reports
\* no_timeout and the thread looks at the queue again; after it, the thread
\* takes the first entry, whichever that is by now.
WaitUntilReturns(t) ==
    /\ ~aborted
    /\ thread[t] = "woken"
    /\ \/ now < deadline[t] /\ LookAtQueue(t)
       \/ /\ now >= deadline[t]
          /\ \/ stopRequested /\ Exit(t)
             \/ ~stopRequested /\ EmptyQueue(t)
             \/ ~stopRequested /\ TakeFirst(t)
    /\ UNCHANGED <<now, nextId, pendingNotify, finished, stopVars, aborted>>

\* f() returns.
FunctionReturns(t) ==
    /\ ~aborted
    /\ thread[t] = "running"
    /\ finished' = finished \cup {running[t].id}
    /\ running' = [running EXCEPT ![t] = NoFunction]
    /\ thread' = [thread EXCEPT ![t] = "ready"]
    /\ UNCHANGED <<now, queueVars, deadline, threadCount, stopVars, aborted>>

\* f() throws: the count is decremented and LOG(FATAL) ends the process.
FunctionThrows(t) ==
    /\ ~aborted
    /\ thread[t] = "running"
    /\ thread' = [thread EXCEPT ![t] = "exited"]
    /\ threadCount' = threadCount - 1
    /\ aborted' = TRUE
    /\ UNCHANGED <<now, queueVars, deadline, running, finished, stopVars>>

\* The deadline of a timed wait passes.
Timeout(t) ==
    /\ ~aborted
    /\ thread[t] = "timed"
    /\ now >= deadline[t]
    /\ thread' = [thread EXCEPT ![t] = AfterWait(@)]
    /\ UNCHANGED <<now, queueVars, deadline, running, threadCount, finished,
                   stopVars, aborted>>

\* A condition variable may wake a thread without a notification.
SpuriousWakeup(t) ==
    /\ ~aborted
    /\ t \in Waiters
    /\ thread' = [thread EXCEPT ![t] = AfterWait(@)]
    /\ UNCHANGED <<now, queueVars, deadline, running, threadCount, finished,
                   stopVars, aborted>>

-----------------------------------------------------------------------------
(* Stop(drain), called by the owner and again by the destructor.           *)

Stop(drain) ==
    /\ ~aborted
    /\ owner \in {"live", "stopped"}
    /\ \/ /\ drain
          /\ stopWhenEmpty' = TRUE
          /\ toDrain' = IF owner = "live" THEN 1 .. (nextId - 1) ELSE toDrain
          /\ UNCHANGED stopRequested
       \/ /\ ~drain
          /\ stopRequested' = TRUE
          /\ UNCHANGED <<stopWhenEmpty, toDrain>>
    /\ owner' = "flagged"
    /\ UNCHANGED <<now, queueVars, threadVars, aborted>>

\* A plausible bug: only one of the waiting threads is told to stop.
NotifyAllOne ==
    /\ ~aborted
    /\ owner = "flagged"
    /\ owner' = "joining"
    /\ \/ Waiters = {} /\ UNCHANGED thread
       \/ \E t \in Waiters : thread' = [thread EXCEPT ![t] = AfterWait(@)]
    /\ UNCHANGED <<now, queueVars, deadline, running, threadCount, finished,
                   stopRequested, stopWhenEmpty, toDrain, aborted>>

\* queue_schedule_cv_.notify_all()
NotifyAll ==
    /\ ~aborted
    /\ owner = "flagged"
    /\ owner' = "joining"
    /\ thread' = [t \in Threads |-> AfterWait(thread[t])]
    /\ UNCHANGED <<now, queueVars, deadline, running, threadCount, finished,
                   stopRequested, stopWhenEmpty, toDrain, aborted>>

\* A plausible bug: Stop returns without joining.
JoinNone ==
    /\ ~aborted
    /\ owner = "joining"
    /\ owner' = "stopped"
    /\ UNCHANGED <<now, queueVars, threadVars, stopRequested, stopWhenEmpty,
                   toDrain, aborted>>

\* it->join() for every thread, after which Stop returns.
Join ==
    /\ ~aborted
    /\ owner = "joining"
    /\ \A t \in Threads : thread[t] = "exited"
    /\ owner' = "stopped"
    /\ UNCHANGED <<now, queueVars, threadVars, stopRequested, stopWhenEmpty,
                   toDrain, aborted>>

Tick ==
    /\ ~aborted
    /\ now < MaxTime
    /\ now' = now + 1
    /\ UNCHANGED <<queueVars, threadVars, stopVars, aborted>>

-----------------------------------------------------------------------------
ThreadStep(t) ==
    \/ Enter(t)
    \/ WaitUntilReturns(t)
    \/ FunctionReturns(t)
    \/ FunctionThrows(t)
    \/ Timeout(t)
    \/ SpuriousWakeup(t)

Next ==
    \/ \E p \in Points : Schedule(p)
    \/ NotifyOne
    \/ \E t \in Threads : ThreadStep(t)
    \/ \E drain \in BOOLEAN : Stop(drain)
    \/ NotifyAll
    \/ Join
    \/ Tick

Spec == Init /\ [][Next]_vars

\* Threads that can take the mutex do take it, notifications that are due are
\* sent, functions return, time passes, and the operating system ends a wait
\* whose deadline is over.  Nobody is obliged to call Schedule or Stop.
Fairness ==
    /\ WF_vars(NotifyOne)
    /\ WF_vars(NotifyAll)
    /\ WF_vars(Join)
    /\ WF_vars(Tick)
    /\ \A t \in Threads :
         /\ WF_vars(Enter(t))
         /\ WF_vars(WaitUntilReturns(t))
         /\ WF_vars(FunctionReturns(t))
         /\ WF_vars(Timeout(t))

FairSpec == Spec /\ Fairness

-----------------------------------------------------------------------------
TypeOK ==
    /\ now \in Nat
    /\ functionQueue \subseteq Entries
    /\ nextId \in Ids
    /\ stopRequested \in BOOLEAN
    /\ stopWhenEmpty \in BOOLEAN
    /\ threadCount \in Int
    /\ thread \in [Threads -> ThreadStates]
    /\ deadline \in [Threads -> Nat]
    /\ running \in [Threads -> Entries \cup {NoFunction}]
    /\ finished \subseteq Nat
    /\ pendingNotify \in Nat
    /\ owner \in OwnerStates
    /\ toDrain \subseteq Ids
    /\ aborted \in BOOLEAN

Queued == {e.id : e \in functionQueue}
Executing == {running[t].id : t \in Threads} \ {0}

\* Every function that was accepted is in exactly one place - queued, being
\* executed by exactly one thread, or finished - however the threads race for
\* the mutex after being woken together (lines 84-94 of scheduler.cc).
ExactlyOnce ==
    /\ 1 .. (nextId - 1) = Queued \cup Executing \cup finished
    /\ Queued \cap Executing = {}
    /\ Queued \cap finished = {}
    /\ Executing \cap finished = {}
    /\ \A t, u \in Threads :
         running[t].id = running[u].id /\ running[t] # NoFunction => t = u

\* ~Scheduler asserts LOG_ASSERT(thread_count_ == 0) after Stop(): once Stop
\* has returned every thread has left ProcessFunctionQueue and decremented the
\* counter exactly once, and no function is being executed.
StoppedIsQuiet ==
    owner = "stopped" /\ ~aborted =>
        /\ threadCount = 0
        /\ \A t \in Threads : running[t] = NoFunction

\* Stop(true) drains: when it returns, every function that was accepted before
\* it set stop_when_empty_ has finished, also those that were not due yet
\* (unless a Stop(false) has cut the drain short).
DrainIsComplete ==
    owner = "stopped" /\ ~stopRequested /\ ~aborted => toDrain \subseteq finished

\* A thread that will look at the queue, or wakes up by itself when the first
\* entry is due.
Attends(t) ==
    \/ thread[t] \in {"ready", "woken", "running"}
    \/ thread[t] = "timed" /\ \A e \in functionQueue : deadline[t] <= e.point

\* No wakeup is lost, and joining does not hang.  While an entry must be
\* executed - the scheduler is live, or the entry is one that Stop(true) has to
\* drain - a notify_one is on its way or some thread attends to the queue: the
\* threads are never all in wait(), or in wait_until() for a later entry.  And
\* once Stop has notified, no thread is in wait(), and none is in wait_until()
\* after a Stop(false).
NoLostWakeup ==
    /\ /\ ~aborted /\ ~stopRequested
       /\ IF owner = "live" THEN functionQueue # {} ELSE toDrain \cap Queued # {}
       => pendingNotify > 0 \/ \E t \in Threads : Attends(t)
    /\ owner = "joining" /\ ~aborted =>
         \A t \in Threads :
            /\ thread[t] # "waiting"
            /\ thread[t] = "timed" => ~stopRequested

\* No function starts before the time it was scheduled for: the comment above
\* the timed wait of ProcessFunctionQueue says the thread waits until the
\* first function is to be executed.
NeverEarly ==
    [][\A t \in Threads :
         running'[t] # running[t] /\ running'[t] # NoFunction
            => running'[t].point <= now]_vars

\* A function that was accepted is eventually executed unless the scheduler is
\* stopped: no wakeup is lost between insertion, notify_one and the two waits,
\* even if the notified thread is waiting for a later entry.
EventuallyExecuted ==
    \A i \in 1 .. MaxFunctions :
        i < nextId ~> i \in finished \/ owner # "live" \/ aborted

\* Stop returns: no thread stays in one of the two waits once a stop flag is
\* set, so joining them does not hang.
StopReturns == owner = "flagged" ~> owner = "stopped" \/ aborted
=============================================================================
