--------------------------- MODULE SchedulerProofs ---------------------------
(***************************************************************************)
(* Proofs about Scheduler for pools of any finite size, any time points    *)
(* and any number of functions.                                            *)
(***************************************************************************)
EXTENDS Scheduler, FiniteSetTheorems, TLAPS

\* The type invariant is inductive: no step of a caller, of a thread or of the
\* owner takes a variable of the scheduler out of its type.
LEMMA TypeStep == TypeOK /\ [Next]_vars => TypeOK'
<1> SUFFICES ASSUME TypeOK, [Next]_vars PROVE TypeOK'
    OBVIOUS
<1> USE SchedulerAssumption DEF TypeOK, queueVars, threadVars, stopVars
<1>1. CASE UNCHANGED vars
    BY <1>1 DEF vars
<1>2. ASSUME NEW p \in Points, Schedule(p) PROVE TypeOK'
  <2>1. [id |-> nextId, point |-> p] \in Entries
      BY DEF Entries
  <2> QED
      BY <1>2, <2>1 DEF Schedule, Ids
<1>3. ASSUME NEW state \in ThreadStates PROVE AfterWait(state) \in ThreadStates
    BY <1>3 DEF AfterWait, ThreadStates
<1>4. CASE NotifyOne
    BY <1>3, <1>4 DEF NotifyOne, Waiters
<1>5. ASSUME NEW t \in Threads, Exit(t)
      PROVE /\ thread' \in [Threads -> ThreadStates]
            /\ threadCount' \in Int
            /\ UNCHANGED <<functionQueue, deadline, running>>
    BY <1>5 DEF Exit, ThreadStates
<1>6. ASSUME NEW t \in Threads, EmptyQueue(t)
      PROVE /\ thread' \in [Threads -> ThreadStates]
            /\ threadCount' \in Int
            /\ UNCHANGED <<functionQueue, deadline, running>>
    BY <1>5, <1>6 DEF EmptyQueue, ThreadStates
<1>7. ASSUME NEW t \in Threads, LookAtQueue(t)
      PROVE /\ thread' \in [Threads -> ThreadStates]
            /\ threadCount' \in Int
            /\ deadline' \in [Threads -> Nat]
            /\ UNCHANGED <<functionQueue, running>>
    BY <1>5, <1>6, <1>7 DEF LookAtQueue, ThreadStates, Entries
<1>8. ASSUME NEW t \in Threads, TakeFirst(t)
      PROVE /\ thread' \in [Threads -> ThreadStates]
            /\ functionQueue' \subseteq Entries
            /\ running' \in [Threads -> Entries \cup {NoFunction}]
            /\ UNCHANGED <<deadline, threadCount>>
    BY <1>8 DEF TakeFirst, ThreadStates
<1>9. ASSUME NEW t \in Threads, Enter(t) PROVE TypeOK'
    BY <1>7, <1>9 DEF Enter
<1>10. ASSUME NEW t \in Threads, WaitUntilReturns(t) PROVE TypeOK'
    BY <1>5, <1>6, <1>7, <1>8, <1>10 DEF WaitUntilReturns
<1>11. ASSUME NEW t \in Threads, FunctionReturns(t) PROVE TypeOK'
  <2>1. running[t].id \in Nat
      BY DEF Entries, Ids, NoFunction
  <2> QED
      BY <1>11, <2>1, Zenon DEF FunctionReturns, ThreadStates
<1>12. ASSUME NEW t \in Threads, FunctionThrows(t) PROVE TypeOK'
    BY <1>12 DEF FunctionThrows, ThreadStates
<1>13. ASSUME NEW t \in Threads, Timeout(t) PROVE TypeOK'
    BY <1>3, <1>13 DEF Timeout
<1>14. ASSUME NEW t \in Threads, SpuriousWakeup(t) PROVE TypeOK'
    BY <1>3, <1>14 DEF SpuriousWakeup
<1>15. ASSUME NEW drain \in BOOLEAN, Stop(drain) PROVE TypeOK'
  <2>1. 1 .. (nextId - 1) \subseteq Ids
      BY DEF Ids
  <2>2. CASE drain
      BY <1>15, <2>1, <2>2, Zenon DEF Stop, OwnerStates
  <2>3. CASE ~drain
      BY <1>15, <2>3, Zenon DEF Stop, OwnerStates
  <2> QED
      BY <2>2, <2>3
<1>16. CASE NotifyAll
    BY <1>3, <1>16 DEF NotifyAll, OwnerStates
<1>17. CASE Join
    BY <1>17 DEF Join, OwnerStates
<1>18. CASE Tick
    BY <1>18 DEF Tick
<1> QED
    BY <1>1, <1>2, <1>4, <1>9, <1>10, <1>11, <1>12, <1>13, <1>14, <1>15, <1>16,
       <1>17, <1>18 DEF Next, ThreadStep

\* Every variable of the scheduler keeps its type.
THEOREM TypeCorrect == Spec => []TypeOK
<1>1. Init => TypeOK
  <2> SUFFICES ASSUME Init PROVE TypeOK
      OBVIOUS
  <2>1. Cardinality(Threads) \in Int
      BY SchedulerAssumption, FS_CardinalityType
  <2>2. /\ thread \in [Threads -> ThreadStates]
        /\ deadline \in [Threads -> Nat]
        /\ running \in [Threads -> Entries \cup {NoFunction}]
      BY DEF Init, ThreadStates
  <2>3. /\ nextId \in Ids
        /\ owner \in OwnerStates
      BY DEF Init, OwnerStates, Ids
  <2> QED
      BY <2>1, <2>2, <2>3, Zenon DEF Init, TypeOK
<1> QED
    BY <1>1, TypeStep, PTL DEF Spec

-----------------------------------------------------------------------------
(* Stop leaves a quiet scheduler behind.                                   *)

Live == {t \in Threads : thread[t] # "exited"}

\* thread_count_ counts the threads that have not left ProcessFunctionQueue,
\* a thread that is not executing holds no function, and Stop returns only
\* when all threads have left.
QuietInv ==
    /\ threadCount = Cardinality(Live)
    /\ owner = "stopped" => Live = {}
    /\ \A t \in Threads : thread[t] # "running" /\ ~aborted => running[t] = NoFunction
    /\ \A t \in Threads : thread[t] = "running" => running[t] \in Entries

\* The three kinds of steps a thread takes: it moves without leaving, it takes
\* a function, it leaves.
Moves(t) ==
    /\ thread' = [thread EXCEPT ![t] = thread'[t]]
    /\ thread[t] \notin {"exited", "running"}
    /\ thread'[t] \notin {"exited", "running"}
    /\ UNCHANGED <<functionQueue, running, threadCount>>

Leaves(t) ==
    /\ thread' = [thread EXCEPT ![t] = "exited"]
    /\ thread[t] # "exited"
    /\ threadCount' = threadCount - 1
    /\ UNCHANGED <<functionQueue, running>>

Takes(t) ==
    /\ thread' = [thread EXCEPT ![t] = "running"]
    /\ thread[t] \notin {"exited", "running"}
    /\ \E e \in functionQueue :
         /\ functionQueue' = functionQueue \ {e}
         /\ running' = [running EXCEPT ![t] = e]
    /\ UNCHANGED threadCount

\* Every step of a thread that is not the end of a function is of one of these
\* kinds; what the thread does not touch stays.
LEMMA ThreadStepKinds ==
    ASSUME TypeOK, NEW t \in Threads,
           Enter(t) \/ WaitUntilReturns(t) \/ Timeout(t) \/ SpuriousWakeup(t)
    PROVE  /\ Moves(t) \/ Leaves(t) \/ Takes(t)
           /\ ~aborted
           /\ UNCHANGED <<now, nextId, pendingNotify, finished, stopVars, aborted>>
<1> USE DEF TypeOK
<1>1. ASSUME LookAtQueue(t), thread[t] \notin {"exited", "running"}
      PROVE Moves(t) \/ Leaves(t)
    BY <1>1 DEF LookAtQueue, EmptyQueue, Exit, Moves, Leaves
<1>2. ASSUME EmptyQueue(t), thread[t] \notin {"exited", "running"}
      PROVE Moves(t) \/ Leaves(t)
    BY <1>2 DEF EmptyQueue, Exit, Moves, Leaves
<1>3. ASSUME TakeFirst(t), thread[t] \notin {"exited", "running"} PROVE Takes(t)
    BY <1>3, Zenon DEF TakeFirst, Takes
<1>4. ASSUME Exit(t), thread[t] \notin {"exited", "running"} PROVE Leaves(t)
    BY <1>4 DEF Exit, Leaves
<1>5. CASE Enter(t)
    BY <1>1, <1>5 DEF Enter
<1>6. CASE WaitUntilReturns(t)
    BY <1>1, <1>2, <1>3, <1>4, <1>6 DEF WaitUntilReturns
<1>7. CASE Timeout(t)
    BY <1>7 DEF Timeout, AfterWait, Moves, queueVars
<1>8. CASE SpuriousWakeup(t)
  <2>1. thread[t] \in {"waiting", "timed"}
      BY <1>8 DEF SpuriousWakeup, Waiters
  <2>2. AfterWait(thread[t]) \in {"ready", "woken"}
      BY <2>1 DEF AfterWait
  <2> QED
      BY <1>8, <2>1, <2>2 DEF SpuriousWakeup, Moves, queueVars
<1> QED
    BY <1>5, <1>6, <1>7, <1>8

\* A thread that leaves lowers the number of live threads by one.
LEMMA LeavingCounts ==
    ASSUME NEW t \in Threads, thread[t] # "exited", thread \in [Threads -> ThreadStates],
           thread' = [thread EXCEPT ![t] = "exited"]
    PROVE  /\ Live' = Live \ {t}
           /\ Cardinality(Live') = Cardinality(Live) - 1
<1>1. Live' = Live \ {t}
    BY DEF Live
<1>2. IsFiniteSet(Live)
    BY SchedulerAssumption, FS_Subset DEF Live
<1>3. t \in Live
    BY DEF Live
<1> QED
    BY <1>1, <1>2, <1>3, FS_RemoveElement, Zenon

\* QuietInv is inductive.
LEMMA QuietStep == TypeOK /\ QuietInv /\ [Next]_vars => QuietInv'
<1> SUFFICES ASSUME TypeOK, QuietInv, [Next]_vars PROVE QuietInv'
    OBVIOUS
<1>1. CASE UNCHANGED vars
    BY <1>1 DEF vars, threadVars, stopVars, QuietInv, Live
<1>2. ASSUME UNCHANGED <<thread, running, threadCount, owner, aborted>> PROVE QuietInv'
    BY <1>2 DEF QuietInv, Live
<1>3. ASSUME NEW p \in Points, Schedule(p) PROVE QuietInv'
    BY <1>2, <1>3 DEF Schedule, threadVars, stopVars
<1>4. CASE NotifyOne
  <2>1. Live' = Live
      BY <1>4 DEF NotifyOne, Live, Waiters, AfterWait, TypeOK
  <2>2. \A t \in Threads : thread'[t] = "running" <=> thread[t] = "running"
      BY <1>4 DEF NotifyOne, Waiters, AfterWait, TypeOK
  <2> QED
      BY <1>4, <2>1, <2>2 DEF NotifyOne, QuietInv, stopVars
<1>5. ASSUME NEW t \in Threads,
             Enter(t) \/ WaitUntilReturns(t) \/ Timeout(t) \/ SpuriousWakeup(t)
      PROVE QuietInv'
  <2>1. /\ Moves(t) \/ Leaves(t) \/ Takes(t)
        /\ ~aborted
        /\ UNCHANGED <<finished, stopVars, aborted>>
      BY <1>5, ThreadStepKinds
  <2>2. CASE Moves(t)
    <3>1. Live' = Live
        BY <2>2 DEF Moves, Live, TypeOK
    <3> QED
        BY <2>1, <2>2, <3>1 DEF Moves, QuietInv, stopVars, TypeOK
  <2>3. CASE Leaves(t)
    <3>1. Live' = Live \ {t} /\ Cardinality(Live') = Cardinality(Live) - 1
        BY <2>3, LeavingCounts, Zenon DEF Leaves, TypeOK
    <3>2. \A u \in Threads : thread'[u] # "running" => running[u] = NoFunction \/ u = t
        BY <2>1, <2>3 DEF Leaves, QuietInv, TypeOK
    <3>3. thread[t] # "running"
        BY <1>5 DEF Enter, WaitUntilReturns, Timeout, SpuriousWakeup, Waiters
    <3> QED
        BY <2>1, <2>3, <3>1, <3>2, <3>3 DEF Leaves, QuietInv, stopVars, TypeOK
  <2>4. CASE Takes(t)
    <3>1. Live' = Live
        BY <2>4 DEF Takes, Live, TypeOK
    <3>2. running'[t] \in Entries
        BY <2>4 DEF Takes, TypeOK
    <3>3. \A u \in Threads : u # t => running'[u] = running[u] /\ thread'[u] = thread[u]
        BY <2>4 DEF Takes, TypeOK
    <3> QED
        BY <2>1, <2>4, <3>1, <3>2, <3>3 DEF Takes, QuietInv, stopVars, TypeOK
  <2> QED
      BY <2>1, <2>2, <2>3, <2>4
<1>6. ASSUME NEW t \in Threads, FunctionReturns(t) PROVE QuietInv'
  <2>1. Live' = Live
      BY <1>6 DEF FunctionReturns, Live, TypeOK
  <2> QED
      BY <1>6, <2>1 DEF FunctionReturns, QuietInv, stopVars, TypeOK
<1>7. ASSUME NEW t \in Threads, FunctionThrows(t) PROVE QuietInv'
  <2>1. Live' = Live \ {t} /\ Cardinality(Live') = Cardinality(Live) - 1
      BY <1>7, LeavingCounts, Zenon DEF FunctionThrows, TypeOK
  <2> QED
      BY <1>7, <2>1 DEF FunctionThrows, QuietInv, stopVars, TypeOK
<1>8. ASSUME NEW drain \in BOOLEAN, Stop(drain) PROVE QuietInv'
    BY <1>8 DEF Stop, QuietInv, Live, threadVars
<1>9. CASE NotifyAll
  <2>1. Live' = Live
      BY <1>9 DEF NotifyAll, Live, AfterWait, TypeOK
  <2>2. \A t \in Threads : thread'[t] = "running" <=> thread[t] = "running"
      BY <1>9 DEF NotifyAll, AfterWait, TypeOK
  <2> QED
      BY <1>9, <2>1, <2>2 DEF NotifyAll, QuietInv
<1>10. CASE Join
    BY <1>10 DEF Join, QuietInv, Live, threadVars
<1>11. CASE Tick
    BY <1>2, <1>11 DEF Tick, threadVars, stopVars
<1> QED
    BY <1>1, <1>3, <1>4, <1>5, <1>6, <1>7, <1>8, <1>9, <1>10, <1>11 DEF Next, ThreadStep

\* After Stop() the destructor's LOG_ASSERT(thread_count_ == 0) holds and no
\* function is being executed, whatever the number of threads.
THEOREM StopIsQuiet == Spec => []StoppedIsQuiet
<1>1. Init => QuietInv
  <2> SUFFICES ASSUME Init PROVE QuietInv
      OBVIOUS
  <2>1. Live = Threads
      BY DEF Init, Live
  <2> QED
      BY <2>1 DEF Init, QuietInv
<1>2. QuietInv => StoppedIsQuiet
  <2> SUFFICES ASSUME QuietInv, owner = "stopped", ~aborted
               PROVE threadCount = 0 /\ \A t \in Threads : running[t] = NoFunction
      BY DEF StoppedIsQuiet
  <2>1. threadCount = 0
      BY FS_EmptySet DEF QuietInv
  <2>2. \A t \in Threads : thread[t] = "exited"
      BY DEF QuietInv, Live
  <2> QED
      BY <2>1, <2>2 DEF QuietInv
<1> QED
    BY <1>1, <1>2, TypeCorrect, QuietStep, PTL DEF Spec

-----------------------------------------------------------------------------
(* Every function is executed once.                                        *)

\* ExactlyOnce, together with: the number of a call of Schedule identifies its
\* entry.
OnceInv ==
    /\ ExactlyOnce
    /\ \A e, d \in functionQueue : e.id = d.id => e = d

\* A thread that takes an entry moves its id from Queued to Executing.
LEMMA TakingMoves ==
    ASSUME TypeOK, QuietInv, OnceInv, ~aborted, NEW t \in Threads, Takes(t)
    PROVE  \E e \in functionQueue :
             /\ Queued' = Queued \ {e.id}
             /\ Executing' = Executing \cup {e.id}
             /\ e.id \in Queued
             /\ running' = [running EXCEPT ![t] = e]
             /\ functionQueue' = functionQueue \ {e}
<1>1. PICK e \in functionQueue :
        /\ functionQueue' = functionQueue \ {e}
        /\ running' = [running EXCEPT ![t] = e]
    BY Zenon DEF Takes
<1>2. Queued' = Queued \ {e.id}
    BY <1>1 DEF Queued, OnceInv
<1>3. e.id # 0
    BY DEF TypeOK, Entries, Ids
<1>4. running[t].id = 0
    BY DEF Takes, QuietInv, NoFunction
<1>5. \A u \in Threads : u # t => running'[u] = running[u]
    BY <1>1 DEF TypeOK
<1>6. running'[t] = e
    BY <1>1 DEF TypeOK
<1>7. Executing' = Executing \cup {e.id}
    BY <1>3, <1>4, <1>5, <1>6 DEF Executing
<1> QED
    BY <1>1, <1>2, <1>7, Zenon DEF Queued

\* OnceInv is inductive.
LEMMA OnceStep == TypeOK /\ QuietInv /\ OnceInv /\ [Next]_vars => OnceInv'
<1> SUFFICES ASSUME TypeOK, QuietInv, OnceInv, [Next]_vars PROVE OnceInv'
    OBVIOUS
<1>1. ASSUME UNCHANGED <<functionQueue, nextId, running, finished>> PROVE OnceInv'
    BY <1>1 DEF OnceInv, ExactlyOnce, Queued, Executing
<1>2. CASE UNCHANGED vars
    BY <1>1, <1>2 DEF vars, queueVars, threadVars
<1>3. ASSUME NEW p \in Points, Schedule(p) PROVE OnceInv'
  <2>1. Queued' = Queued \cup {nextId}
    <3>1. PICK new : new = [id |-> nextId, point |-> p]
        BY Zenon
    <3>2. new.id = nextId
        BY <3>1
    <3>3. functionQueue' = functionQueue \cup {new}
        BY <1>3, <3>1 DEF Schedule
    <3> QED
        BY <3>2, <3>3 DEF Queued
  <2>2. Executing' = Executing /\ finished' = finished /\ running' = running
      BY <1>3 DEF Schedule, Executing, threadVars
  <2>3. nextId \in Nat /\ nextId > 0 /\ nextId' = nextId + 1
      BY <1>3 DEF Schedule, TypeOK, Ids
  <2>4. 1 .. (nextId' - 1) = (1 .. (nextId - 1)) \cup {nextId} /\ nextId \notin 1 .. (nextId - 1)
      BY <2>3
  <2>5. nextId \notin Queued /\ nextId \notin Executing /\ nextId \notin finished
      BY <2>4 DEF OnceInv, ExactlyOnce
  <2>6. ExactlyOnce'
      BY <2>1, <2>2, <2>4, <2>5 DEF OnceInv, ExactlyOnce
  <2>7. \A e \in functionQueue : e.id # nextId
      BY <2>5 DEF Queued
  <2>8. \A e, d \in functionQueue' : e.id = d.id => e = d
      BY <1>3, <2>7 DEF Schedule, OnceInv
  <2> QED
      BY <2>6, <2>8 DEF OnceInv
<1>4. CASE NotifyOne
    BY <1>1, <1>4 DEF NotifyOne
<1>5. ASSUME NEW t \in Threads,
             Enter(t) \/ WaitUntilReturns(t) \/ Timeout(t) \/ SpuriousWakeup(t)
      PROVE OnceInv'
  <2>1. /\ Moves(t) \/ Leaves(t) \/ Takes(t)
        /\ ~aborted
        /\ UNCHANGED <<nextId, finished>>
      BY <1>5, ThreadStepKinds
  <2>2. CASE Moves(t) \/ Leaves(t)
      BY <1>1, <2>1, <2>2 DEF Moves, Leaves
  <2>3. CASE Takes(t)
    <3>1. PICK e \in functionQueue :
             /\ Queued' = Queued \ {e.id}
             /\ Executing' = Executing \cup {e.id}
             /\ e.id \in Queued
             /\ running' = [running EXCEPT ![t] = e]
             /\ functionQueue' = functionQueue \ {e}
        BY <2>1, <2>3, TakingMoves
    <3>2. \A u \in Threads : running[u] # NoFunction => running[u].id \in Executing
        BY DEF Executing, TypeOK, Entries, Ids
    <3>3. \A u \in Threads : u # t => running'[u] = running[u]
        BY <3>1 DEF TypeOK
    <3>4. running'[t] = e
        BY <3>1 DEF TypeOK
    <3>5. e.id \notin Executing /\ e.id # 0 /\ NoFunction.id = 0
        BY <3>1 DEF OnceInv, ExactlyOnce, TypeOK, Entries, Ids, NoFunction
    <3>6. \A u, v \in Threads :
             running'[u].id = running'[v].id /\ running'[u] # NoFunction => u = v
      <4> SUFFICES ASSUME NEW u \in Threads, NEW v \in Threads,
                          running'[u].id = running'[v].id, running'[u] # NoFunction
                   PROVE  u = v
          OBVIOUS
      <4>1. CASE u = t /\ v # t
          BY <3>2, <3>3, <3>4, <3>5, <4>1
      <4>2. CASE u # t /\ v = t
          BY <3>2, <3>3, <3>4, <3>5, <4>2
      <4>3. CASE u # t /\ v # t
          BY <3>3, <4>3 DEF OnceInv, ExactlyOnce
      <4> QED
          BY <4>1, <4>2, <4>3
    <3>7. ExactlyOnce'
        BY <2>1, <3>1, <3>5, <3>6 DEF OnceInv, ExactlyOnce
    <3> QED
        BY <3>1, <3>7 DEF OnceInv
  <2> QED
      BY <2>1, <2>2, <2>3
<1>6. ASSUME NEW t \in Threads, FunctionReturns(t) PROVE OnceInv'
  <2> DEFINE i == running[t].id
  <2>1. running[t] \in Entries /\ i # 0 /\ running[t] # NoFunction
      BY <1>6 DEF FunctionReturns, QuietInv, Entries, Ids, NoFunction
  <2>2. \A u \in Threads : u # t => running'[u] = running[u] /\ running[u].id # i
      BY <1>6, <2>1 DEF FunctionReturns, OnceInv, ExactlyOnce, TypeOK
  <2>3. running'[t] = NoFunction /\ NoFunction.id = 0
      BY <1>6 DEF FunctionReturns, TypeOK, NoFunction
  <2>4. Executing' = Executing \ {i} /\ i \in Executing
      BY <2>1, <2>2, <2>3 DEF Executing
  <2>5. Queued' = Queued /\ functionQueue' = functionQueue
      BY <1>6 DEF FunctionReturns, queueVars, Queued
  <2>6. finished' = finished \cup {i} /\ nextId' = nextId
      BY <1>6 DEF FunctionReturns, queueVars
  <2>7. \A u, v \in Threads :
           running'[u].id = running'[v].id /\ running'[u] # NoFunction => u = v
    <3> SUFFICES ASSUME NEW u \in Threads, NEW v \in Threads,
                        running'[u].id = running'[v].id, running'[u] # NoFunction
                 PROVE  u = v
        OBVIOUS
    <3>1. u # t /\ running'[u] = running[u]
        BY <2>2, <2>3
    <3>2. running[u].id # 0
        BY <3>1 DEF TypeOK, Entries, Ids
    <3>3. v # t /\ running'[v] = running[v]
        BY <2>2, <2>3, <3>1, <3>2
    <3> QED
        BY <3>1, <3>3 DEF OnceInv, ExactlyOnce
  <2>8. ExactlyOnce'
      BY <2>4, <2>5, <2>6, <2>7 DEF OnceInv, ExactlyOnce
  <2> QED
      BY <2>5, <2>8 DEF OnceInv
<1>7. ASSUME NEW t \in Threads, FunctionThrows(t) PROVE OnceInv'
    BY <1>1, <1>7 DEF FunctionThrows, queueVars
<1>8. ASSUME NEW drain \in BOOLEAN, Stop(drain) PROVE OnceInv'
    BY <1>1, <1>8 DEF Stop, queueVars, threadVars
<1>9. CASE NotifyAll
    BY <1>1, <1>9 DEF NotifyAll, queueVars
<1>10. CASE Join
    BY <1>1, <1>10 DEF Join, queueVars, threadVars
<1>11. CASE Tick
    BY <1>1, <1>11 DEF Tick, queueVars, threadVars
<1> QED
    BY <1>2, <1>3, <1>4, <1>5, <1>6, <1>7, <1>8, <1>9, <1>10, <1>11 DEF Next, ThreadStep

\* Every function handed to Schedule is, at any time, queued, in execution by
\* one thread, or finished: no race among any number of threads loses a
\* function or executes it twice.
THEOREM ExecutedOnce == Spec => []ExactlyOnce
<1>1. Init => QuietInv /\ OnceInv
  <2> SUFFICES ASSUME Init PROVE QuietInv /\ OnceInv
      OBVIOUS
  <2>1. Live = Threads /\ QuietInv
      BY DEF Init, QuietInv, Live
  <2>2. Queued = {} /\ Executing = {}
      BY DEF Init, Queued, Executing, NoFunction
  <2> QED
      BY <2>1, <2>2 DEF Init, OnceInv, ExactlyOnce
<1>2. OnceInv => ExactlyOnce
    BY DEF OnceInv
<1> QED
    BY <1>1, <1>2, TypeCorrect, QuietStep, OnceStep, PTL DEF Spec

-----------------------------------------------------------------------------
(* A drain is complete.                                                    *)

\* Until somebody asks for a stop no thread leaves; in a drain a thread leaves
\* only when nothing that had to be drained is queued any more.
DrainInv ==
    /\ toDrain \subseteq 1 .. (nextId - 1)
    /\ owner = "live" => ~stopRequested /\ ~stopWhenEmpty
    /\ ~stopRequested /\ ~aborted /\ Live # Threads
          => stopWhenEmpty /\ toDrain \cap Queued = {}

\* DrainInv is inductive.
LEMMA DrainStep ==
    TypeOK /\ QuietInv /\ OnceInv /\ DrainInv /\ [Next]_vars => DrainInv'
<1> SUFFICES ASSUME TypeOK, QuietInv, OnceInv, DrainInv, [Next]_vars PROVE DrainInv'
    OBVIOUS
<1> USE DEF DrainInv
<1>1. CASE UNCHANGED vars
    BY <1>1 DEF vars, queueVars, threadVars, stopVars, Live, Queued
<1>2. ASSUME NEW p \in Points, Schedule(p) PROVE DrainInv'
  <2>1. \A e \in functionQueue' : e \in functionQueue \/ e.id = nextId
      BY <1>2 DEF Schedule
  <2>2. Queued' \subseteq Queued \cup {nextId}
      BY <2>1 DEF Queued
  <2>3. nextId \notin toDrain /\ toDrain \subseteq 1 .. (nextId' - 1)
      BY <1>2 DEF Schedule, TypeOK, Ids
  <2>4. UNCHANGED <<toDrain, owner, stopRequested, stopWhenEmpty, aborted, Live>>
      BY <1>2 DEF Schedule, stopVars, threadVars, Live
  <2> QED
      BY <2>2, <2>3, <2>4
<1>3. CASE NotifyOne
  <2>1. Live' = Live /\ Queued' = Queued
      BY <1>3 DEF NotifyOne, Live, Queued, Waiters, AfterWait, TypeOK
  <2> QED
      BY <1>3, <2>1 DEF NotifyOne, stopVars
<1>4. ASSUME NEW t \in Threads,
             Enter(t) \/ WaitUntilReturns(t) \/ Timeout(t) \/ SpuriousWakeup(t)
      PROVE DrainInv'
  <2>1. /\ Moves(t) \/ Leaves(t) \/ Takes(t)
        /\ UNCHANGED <<nextId, toDrain, owner, stopRequested, stopWhenEmpty, aborted>>
      BY <1>4, ThreadStepKinds DEF stopVars
  <2>2. CASE Moves(t) \/ Takes(t)
    <3>1. Live' = Live
        BY <2>2 DEF Moves, Takes, Live, TypeOK
    <3>2. Queued' \subseteq Queued
        BY <2>2 DEF Moves, Takes, Queued
    <3> QED
        BY <2>1, <3>1, <3>2
  <2>3. CASE Leaves(t)
    <3>1. Queued' = Queued
        BY <2>3 DEF Leaves, Queued
    <3>2. stopRequested \/ (stopWhenEmpty /\ functionQueue = {})
      <4>1. thread'[t] = "exited"
          BY <2>3 DEF Leaves, TypeOK
      <4>2. thread[t] # "exited"
          BY <2>3 DEF Leaves
      <4>3. CASE Enter(t)
          BY <4>1, <4>3 DEF Enter, LookAtQueue, EmptyQueue, TypeOK
      <4>4. CASE WaitUntilReturns(t)
          BY <4>1, <4>4 DEF WaitUntilReturns, LookAtQueue, EmptyQueue, TakeFirst, TypeOK
      <4>5. CASE Timeout(t) \/ SpuriousWakeup(t)
          BY <4>1, <4>2, <4>5 DEF Timeout, SpuriousWakeup, Waiters, AfterWait, TypeOK
      <4> QED
          BY <1>4, <4>3, <4>4, <4>5
    <3>3. functionQueue = {} => Queued = {}
        BY DEF Queued
    <3> QED
        BY <2>1, <3>1, <3>2, <3>3
  <2> QED
      BY <2>1, <2>2, <2>3
<1>5. ASSUME NEW t \in Threads, FunctionReturns(t) PROVE DrainInv'
    BY <1>5 DEF FunctionReturns, queueVars, stopVars, Live, Queued, TypeOK
<1>6. ASSUME NEW t \in Threads, FunctionThrows(t) PROVE DrainInv'
    BY <1>6 DEF FunctionThrows, queueVars, stopVars
<1>7. ASSUME NEW drain \in BOOLEAN, Stop(drain) PROVE DrainInv'
  <2>1. UNCHANGED <<Live, Queued, nextId, aborted>>
      BY <1>7 DEF Stop, Live, Queued, threadVars, queueVars
  <2>2. owner' = "flagged" /\ ~aborted
      BY <1>7 DEF Stop
  <2>3. CASE drain /\ owner = "live"
    <3>1. toDrain' = 1 .. (nextId - 1) /\ stopRequested' = stopRequested
        BY <1>7, <2>3 DEF Stop
    <3>2. Live = Threads
        BY <2>2, <2>3
    <3> QED
        BY <2>1, <2>2, <3>1, <3>2
  <2>4. CASE drain /\ owner # "live"
    <3>1. toDrain' = toDrain /\ stopRequested' = stopRequested /\ stopWhenEmpty' = TRUE
        BY <1>7, <2>4 DEF Stop
    <3> QED
        BY <2>1, <2>2, <3>1
  <2>5. CASE ~drain
      BY <1>7, <2>1, <2>2, <2>5, Zenon DEF Stop
  <2> QED
      BY <2>3, <2>4, <2>5
<1>8. CASE NotifyAll
  <2>1. Live' = Live /\ Queued' = Queued
      BY <1>8 DEF NotifyAll, Live, Queued, AfterWait, queueVars, TypeOK
  <2> QED
      BY <1>8, <2>1 DEF NotifyAll, queueVars
<1>9. CASE Join
    BY <1>9 DEF Join, Live, Queued, threadVars, queueVars
<1>10. CASE Tick
    BY <1>10 DEF Tick, Live, Queued, threadVars, queueVars, stopVars
<1> QED
    BY <1>1, <1>2, <1>3, <1>4, <1>5, <1>6, <1>7, <1>8, <1>9, <1>10 DEF Next, ThreadStep

\* When Stop(true) returns, every function accepted before it has finished.
THEOREM DrainCompletes == Spec => []DrainIsComplete
<1>1. Init => QuietInv /\ OnceInv /\ DrainInv
  <2> SUFFICES ASSUME Init PROVE QuietInv /\ OnceInv /\ DrainInv
      OBVIOUS
  <2>1. Live = Threads /\ QuietInv
      BY DEF Init, QuietInv, Live
  <2>2. Queued = {} /\ Executing = {}
      BY DEF Init, Queued, Executing, NoFunction
  <2> QED
      BY <2>1, <2>2 DEF Init, OnceInv, ExactlyOnce, DrainInv
<1>2. TypeOK /\ QuietInv /\ OnceInv /\ DrainInv => DrainIsComplete
  <2> SUFFICES ASSUME TypeOK, QuietInv, OnceInv, DrainInv,
                      owner = "stopped", ~stopRequested, ~aborted
               PROVE  toDrain \subseteq finished
      BY DEF DrainIsComplete
  <2>1. Live = {} /\ Live # Threads
      BY SchedulerAssumption DEF QuietInv
  <2>2. \A t \in Threads : running[t] = NoFunction
      BY <2>1 DEF QuietInv, Live
  <2>3. Executing = {}
      BY <2>2 DEF Executing, NoFunction
  <2> QED
      BY <2>1, <2>3 DEF DrainInv, OnceInv, ExactlyOnce
<1> QED
    BY <1>1, <1>2, TypeCorrect, QuietStep, OnceStep, DrainStep, PTL DEF Spec

-----------------------------------------------------------------------------
(* No wakeup is lost.                                                      *)

\* Some entry has to be executed.
Owed ==
    /\ ~aborted /\ ~stopRequested
    /\ IF owner = "live" THEN functionQueue # {} ELSE toDrain \cap Queued # {}

Attended == pendingNotify > 0 \/ \E t \in Threads : Attends(t)

NobodyInWait ==
    \A t \in Threads : thread[t] # "waiting" /\ (thread[t] = "timed" => ~stopRequested)

\* NoLostWakeup by parts, together with: outside "live" a stop flag is set.
WakeInv ==
    /\ owner # "live" => stopRequested \/ stopWhenEmpty
    /\ Owed => Attended
    /\ owner = "joining" /\ ~aborted => NobodyInWait

\* As long as something is owed the queue is not empty and no thread has left.
LEMMA OwedHasThreads ==
    ASSUME DrainInv, Owed
    PROVE  functionQueue # {} /\ Live = Threads
<1>1. functionQueue # {}
    BY DEF Owed, Queued
<1>2. Live = Threads
    BY DEF Owed, DrainInv
<1> QED
    BY <1>1, <1>2

\* One look at the queue: the thread leaves for a reason, goes to wait() when
\* there is nothing to do and nobody asked for a stop, or waits for the entry
\* that is due first.
LEMMA LookOutcome ==
    ASSUME TypeOK, NEW t \in Threads,
           \/ LookAtQueue(t)
           \/ ~stopRequested /\ EmptyQueue(t)
           \/ stopRequested /\ Exit(t)
    PROVE  /\ UNCHANGED functionQueue
           /\ thread' = [thread EXCEPT ![t] = thread'[t]]
           /\ \/ thread'[t] = "exited"
              \/ /\ thread'[t] = "waiting"
                 /\ functionQueue = {} /\ ~stopRequested /\ ~stopWhenEmpty
              \/ /\ thread'[t] = "timed" /\ ~stopRequested
                 /\ \A d \in functionQueue : deadline'[t] <= d.point
<1> USE DEF TypeOK
<1>1. ASSUME Exit(t)
      PROVE  /\ UNCHANGED functionQueue
             /\ thread' = [thread EXCEPT ![t] = thread'[t]]
             /\ thread'[t] = "exited"
    BY <1>1 DEF Exit
<1>2. CASE ~stopRequested /\ EmptyQueue(t)
    BY <1>1, <1>2 DEF EmptyQueue
<1>3. CASE /\ ~stopRequested
           /\ \E e \in functionQueue :
                IsBegin(e) /\ deadline' = [deadline EXCEPT ![t] = e.point]
           /\ thread' = [thread EXCEPT ![t] = "timed"]
           /\ UNCHANGED <<functionQueue, running, threadCount>>
  <2>1. PICK e \in functionQueue :
           IsBegin(e) /\ deadline' = [deadline EXCEPT ![t] = e.point]
      BY <1>3, Zenon
  <2>2. deadline'[t] = e.point /\ e.point \in Nat
      BY <2>1 DEF Entries
  <2>3. \A d \in functionQueue : e.point <= d.point
      BY <2>1, <2>2 DEF IsBegin, Precedes, Entries
  <2> QED
      BY <1>3, <2>2, <2>3
<1> QED
    BY <1>1, <1>2, <1>3 DEF LookAtQueue

\* A step of a thread that is not the end of a function: it looks at the queue,
\* takes an entry, or is woken from one of the two waits.
LEMMA ThreadOutcome ==
    ASSUME TypeOK, NEW t \in Threads,
           Enter(t) \/ WaitUntilReturns(t) \/ Timeout(t) \/ SpuriousWakeup(t)
    PROVE  /\ functionQueue' \subseteq functionQueue
           /\ thread' = [thread EXCEPT ![t] = thread'[t]]
           /\ \/ thread'[t] = "exited"
              \/ /\ thread'[t] = "waiting"
                 /\ functionQueue' = {} /\ ~stopRequested /\ ~stopWhenEmpty
              \/ /\ thread'[t] = "timed" /\ ~stopRequested
                 /\ \A d \in functionQueue' : deadline'[t] <= d.point
              \/ thread'[t] \in {"ready", "woken", "running"}
<1>1. CASE Enter(t)
    BY <1>1, LookOutcome DEF Enter
<1>2. CASE WaitUntilReturns(t)
  <2>1. CASE TakeFirst(t)
      BY <2>1 DEF TakeFirst, TypeOK
  <2> QED
      BY <1>2, <2>1, LookOutcome DEF WaitUntilReturns
<1>3. CASE Timeout(t) \/ SpuriousWakeup(t)
  <2>1. AfterWait(thread[t]) \in {"ready", "woken"}
      BY <1>3 DEF Timeout, SpuriousWakeup, Waiters, AfterWait
  <2> QED
      BY <1>3, <2>1 DEF Timeout, SpuriousWakeup, queueVars, TypeOK
<1> QED
    BY <1>1, <1>2, <1>3

\* WakeInv is inductive.
LEMMA WakeStep ==
    TypeOK /\ DrainInv /\ DrainInv' /\ QuietInv /\ WakeInv /\ [Next]_vars => WakeInv'
<1> SUFFICES ASSUME TypeOK, DrainInv, DrainInv', QuietInv, WakeInv, [Next]_vars
             PROVE  WakeInv'
    OBVIOUS
<1>1. ASSUME UNCHANGED <<functionQueue, thread, deadline, pendingNotify, stopVars, aborted>>
      PROVE  WakeInv'
    BY <1>1 DEF WakeInv, Owed, Attended, Attends, NobodyInWait, Queued, stopVars
<1>2. CASE UNCHANGED vars
    BY <1>1, <1>2 DEF vars, queueVars, threadVars
<1>3. ASSUME NEW p \in Points, Schedule(p) PROVE WakeInv'
  <2>1. Attended'
      BY <1>3 DEF Schedule, Attended, TypeOK
  <2> QED
      BY <1>3, <2>1 DEF Schedule, WakeInv, NobodyInWait, stopVars, threadVars
<1>4. CASE NotifyOne
  <2>1. UNCHANGED <<functionQueue, deadline, owner, stopRequested, stopWhenEmpty, toDrain, aborted>>
      BY <1>4 DEF NotifyOne, stopVars
  <2>2. ASSUME Owed' PROVE Attended'
    <3>1. Owed
        BY <2>1, <2>2 DEF Owed, Queued
    <3>2. Live = Threads
        BY <3>1, OwedHasThreads
    <3>3. CASE Waiters = {}
      <4>1. PICK t \in Threads : TRUE
          BY SchedulerAssumption
      <4>2. thread[t] \in {"ready", "woken", "running"}
          BY <3>2, <3>3 DEF Live, Waiters, TypeOK, ThreadStates
      <4>3. thread' = thread
          BY <1>4, <3>3 DEF NotifyOne
      <4> QED
          BY <4>2, <4>3 DEF Attended, Attends
    <3>4. CASE Waiters # {}
      <4>1. PICK t \in Waiters : thread' = [thread EXCEPT ![t] = AfterWait(@)]
          BY <1>4, <3>4 DEF NotifyOne
      <4>2. t \in Threads /\ thread'[t] \in {"ready", "woken"}
          BY <4>1 DEF Waiters, AfterWait, TypeOK
      <4> QED
          BY <4>2 DEF Attended, Attends
    <3> QED
        BY <3>3, <3>4
  <2>3. ASSUME NobodyInWait PROVE NobodyInWait'
    <3>1. \A t \in Threads : thread'[t] \in {thread[t], "ready", "woken"}
        BY <1>4 DEF NotifyOne, Waiters, AfterWait, TypeOK
    <3> QED
        BY <2>1, <2>3, <3>1 DEF NobodyInWait
  <2> QED
      BY <2>1, <2>2, <2>3 DEF WakeInv
<1>5. ASSUME NEW t \in Threads,
             Enter(t) \/ WaitUntilReturns(t) \/ Timeout(t) \/ SpuriousWakeup(t)
      PROVE WakeInv'
  <2>1. UNCHANGED <<nextId, pendingNotify, owner, stopRequested, stopWhenEmpty, toDrain, aborted>>
      BY <1>5, ThreadStepKinds DEF stopVars
  <2>2. /\ functionQueue' \subseteq functionQueue
        /\ thread' = [thread EXCEPT ![t] = thread'[t]]
        /\ \/ thread'[t] = "exited"
           \/ /\ thread'[t] = "waiting"
              /\ functionQueue' = {} /\ ~stopRequested /\ ~stopWhenEmpty
           \/ /\ thread'[t] = "timed" /\ ~stopRequested
              /\ \A d \in functionQueue' : deadline'[t] <= d.point
           \/ thread'[t] \in {"ready", "woken", "running"}
      BY <1>5, ThreadOutcome
  <2>3. ASSUME Owed' PROVE Attended'
    <3>1. functionQueue' # {} /\ Live' = Threads
        BY <2>3 DEF Owed, Queued, DrainInv
    <3>2. thread'[t] # "exited"
        BY <3>1 DEF Live
    <3>3. Attends(t)'
        BY <2>2, <3>1, <3>2 DEF Attends
    <3> QED
        BY <3>3 DEF Attended
  <2>4. ASSUME NobodyInWait, owner # "live" PROVE NobodyInWait'
    <3>1. thread'[t] # "waiting" /\ (thread'[t] = "timed" => ~stopRequested)
        BY <2>2, <2>4 DEF WakeInv
    <3>2. \A u \in Threads : u # t => thread'[u] = thread[u]
        BY <2>2 DEF TypeOK
    <3> QED
        BY <2>1, <2>4, <3>1, <3>2 DEF NobodyInWait
  <2> QED
      BY <2>1, <2>3, <2>4 DEF WakeInv
<1>6. ASSUME NEW t \in Threads, FunctionReturns(t) PROVE WakeInv'
  <2>1. thread'[t] = "ready" /\ (\A u \in Threads : u # t => thread'[u] = thread[u])
      BY <1>6 DEF FunctionReturns, TypeOK
  <2>2. Attended'
      BY <2>1 DEF Attended, Attends
  <2>3. UNCHANGED <<owner, stopRequested, stopWhenEmpty, aborted>>
      BY <1>6 DEF FunctionReturns, stopVars
  <2> QED
      BY <2>1, <2>2, <2>3 DEF WakeInv, NobodyInWait
<1>7. ASSUME NEW t \in Threads, FunctionThrows(t) PROVE WakeInv'
    BY <1>7 DEF FunctionThrows, WakeInv, Owed, stopVars
<1>8. ASSUME NEW drain \in BOOLEAN, Stop(drain) PROVE WakeInv'
  <2>1. /\ owner' = "flagged"
        /\ stopRequested' \/ stopWhenEmpty'
        /\ UNCHANGED <<functionQueue, thread, deadline, pendingNotify, aborted>>
      BY <1>8 DEF Stop, queueVars, threadVars
  <2>2. ASSUME Owed' PROVE Owed
      BY <1>8, <2>1, <2>2 DEF Stop, Owed, Queued
  <2>3. Attended => Attended'
      BY <2>1 DEF Attended, Attends
  <2> QED
      BY <2>1, <2>2, <2>3 DEF WakeInv
<1>9. CASE NotifyAll
  <2>1. UNCHANGED <<functionQueue, deadline, pendingNotify, stopRequested, stopWhenEmpty, toDrain, aborted>>
      BY <1>9 DEF NotifyAll, queueVars
  <2>2. \A t \in Threads :
           /\ thread'[t] \notin {"waiting", "timed"}
           /\ thread[t] \in {"ready", "woken", "running"} => thread'[t] = thread[t]
           /\ thread[t] = "timed" => thread'[t] = "woken"
      BY <1>9 DEF NotifyAll, AfterWait, TypeOK
  <2>3. NobodyInWait'
      BY <2>2 DEF NobodyInWait
  <2>4. ASSUME Attended PROVE Attended'
      BY <2>1, <2>2, <2>4 DEF Attended, Attends
  <2>5. owner = "flagged" /\ owner' = "joining" /\ (Owed' => Owed)
      BY <1>9, <2>1 DEF NotifyAll, Owed, Queued
  <2> QED
      BY <2>1, <2>3, <2>4, <2>5 DEF WakeInv
<1>10. CASE Join
  <2>1. UNCHANGED <<functionQueue, thread, deadline, pendingNotify, stopRequested, stopWhenEmpty, toDrain, aborted>>
      BY <1>10 DEF Join, queueVars, threadVars
  <2>2. owner = "joining" /\ owner' = "stopped" /\ (Owed' => Owed)
      BY <1>10, <2>1 DEF Join, Owed, Queued
  <2>3. Attended => Attended'
      BY <2>1 DEF Attended, Attends
  <2> QED
      BY <2>1, <2>2, <2>3 DEF WakeInv
<1>11. CASE Tick
    BY <1>1, <1>11 DEF Tick, queueVars, threadVars
<1> QED
    BY <1>2, <1>3, <1>4, <1>5, <1>6, <1>7, <1>8, <1>9, <1>10, <1>11 DEF Next, ThreadStep

\* No interleaving of insertions, notifications, timeouts and executions leaves
\* an entry that must be executed without a thread that attends to it, and none
\* leaves a thread that Stop joins in a wait that nobody ends: the state in
\* which EventuallyExecuted or StopReturns could fail is unreachable, whatever
\* the number of threads, functions and time points.
THEOREM WakeupNeverLost == Spec => []NoLostWakeup
<1>1. Init => QuietInv /\ OnceInv /\ DrainInv /\ WakeInv
  <2> SUFFICES ASSUME Init PROVE QuietInv /\ OnceInv /\ DrainInv /\ WakeInv
      OBVIOUS
  <2>1. Live = Threads /\ QuietInv
      BY DEF Init, QuietInv, Live
  <2>2. Queued = {} /\ Executing = {}
      BY DEF Init, Queued, Executing, NoFunction
  <2>3. WakeInv
      BY DEF Init, WakeInv, Owed
  <2> QED
      BY <2>1, <2>2, <2>3 DEF Init, OnceInv, ExactlyOnce, DrainInv
<1>2. WakeInv => NoLostWakeup
    BY SMTT(30) DEF WakeInv, Owed, Attended, NobodyInWait, NoLostWakeup
<1> QED
    BY <1>1, <1>2, TypeCorrect, QuietStep, OnceStep, DrainStep, WakeStep, PTL DEF Spec

-----------------------------------------------------------------------------
(* With a single thread nothing is executed early.                         *)

\* What a thread waits for is still there: some entry is due no later than the
\* deadline of the wait.  Another thread can make this false by taking the
\* entry, so it is an invariant of pools of one thread only.
WaitInv ==
    \A t \in Threads : thread[t] \in {"timed", "woken"}
        => \E e \in functionQueue : e.point <= deadline[t]

\* With one thread WaitInv is inductive.
LEMMA WaitStep ==
    ASSUME NEW solo, Threads = {solo}
    PROVE  TypeOK /\ WaitInv /\ [Next]_vars => WaitInv'
<1> SUFFICES ASSUME TypeOK, WaitInv, [Next]_vars PROVE WaitInv'
    OBVIOUS
<1> USE DEF WaitInv
<1>1. CASE UNCHANGED vars
    BY <1>1 DEF vars, queueVars, threadVars
<1>2. ASSUME NEW p \in Points, Schedule(p) PROVE WaitInv'
    BY <1>2 DEF Schedule, threadVars
<1>3. CASE NotifyOne
    BY <1>3 DEF NotifyOne, Waiters, AfterWait, TypeOK
<1>4. ASSUME NEW t \in Threads, LookAtQueue(t) PROVE WaitInv'
  <2>1. CASE stopRequested \/ functionQueue = {}
      BY <1>4, <2>1 DEF LookAtQueue, EmptyQueue, Exit, TypeOK
  <2>2. CASE ~stopRequested /\ functionQueue # {}
    <3>1. PICK e \in functionQueue : deadline' = [deadline EXCEPT ![t] = e.point]
        BY <1>4, <2>2 DEF LookAtQueue, EmptyQueue
    <3>2. functionQueue' = functionQueue
        BY <1>4, <2>2 DEF LookAtQueue, EmptyQueue
    <3>3. deadline'[t] = e.point /\ e.point <= e.point
        BY <3>1 DEF TypeOK, Entries
    <3> QED
        BY <3>2, <3>3
  <2> QED
      BY <2>1, <2>2
<1>5. ASSUME NEW t \in Threads, Enter(t) PROVE WaitInv'
    BY <1>4, <1>5 DEF Enter
<1>6. ASSUME NEW t \in Threads, WaitUntilReturns(t) PROVE WaitInv'
  <2>1. CASE LookAtQueue(t)
      BY <1>4, <2>1
  <2>2. CASE Exit(t) \/ EmptyQueue(t) \/ TakeFirst(t)
      BY <2>2 DEF Exit, EmptyQueue, TakeFirst, TypeOK
  <2> QED
      BY <1>6, <2>1, <2>2 DEF WaitUntilReturns
<1>7. ASSUME NEW t \in Threads, FunctionReturns(t) \/ FunctionThrows(t) PROVE WaitInv'
    BY <1>7 DEF FunctionReturns, FunctionThrows, queueVars, TypeOK
<1>8. ASSUME NEW t \in Threads, Timeout(t) \/ SpuriousWakeup(t) PROVE WaitInv'
    BY <1>8 DEF Timeout, SpuriousWakeup, Waiters, AfterWait, queueVars, TypeOK
<1>9. ASSUME NEW drain \in BOOLEAN, Stop(drain) PROVE WaitInv'
    BY <1>9 DEF Stop, queueVars, threadVars
<1>10. CASE NotifyAll
    BY <1>10 DEF NotifyAll, AfterWait, queueVars, TypeOK
<1>11. CASE Join
    BY <1>11 DEF Join, queueVars, threadVars
<1>12. CASE Tick
    BY <1>12 DEF Tick, queueVars, threadVars
<1> QED
    BY <1>1, <1>2, <1>3, <1>5, <1>6, <1>7, <1>8, <1>9, <1>10, <1>11, <1>12
       DEF Next, ThreadStep

\* A step that starts a function under WaitInv starts it on time.
LEMMA StartsOnTime ==
    ASSUME TypeOK, WaitInv, [Next]_vars, NEW t \in Threads,
           running'[t] # running[t], running'[t] # NoFunction
    PROVE  running'[t].point <= now
<1>1. WaitUntilReturns(t) /\ TakeFirst(t) /\ now >= deadline[t]
  <2>1. ASSUME NEW u \in Threads, LookAtQueue(u) \/ Exit(u) \/ EmptyQueue(u)
        PROVE  UNCHANGED running
      BY <2>1 DEF LookAtQueue, Exit, EmptyQueue
  <2>2. ASSUME NEW u \in Threads, TakeFirst(u) PROVE u = t
      BY <2>2 DEF TakeFirst, TypeOK
  <2>3. ASSUME NEW u \in Threads, FunctionReturns(u) PROVE FALSE
    <3>1. running' = [running EXCEPT ![u] = NoFunction]
        BY <2>3 DEF FunctionReturns
    <3>2. running'[t] \in {NoFunction, running[t]}
        BY <3>1, SMTT(30) DEF TypeOK
    <3> QED
        BY <3>2
  <2>4. ASSUME NEW u \in Threads, ThreadStep(u)
        PROVE  WaitUntilReturns(t) /\ TakeFirst(t) /\ now >= deadline[t]
      BY <2>1, <2>2, <2>3, <2>4 DEF ThreadStep, Enter, WaitUntilReturns, FunctionThrows,
         Timeout, SpuriousWakeup
  <2>5. ASSUME NEW p \in Points, Schedule(p) PROVE FALSE
      BY <2>5 DEF Schedule, threadVars
  <2>6. ASSUME NEW drain \in BOOLEAN, Stop(drain) PROVE FALSE
    <3>1. UNCHANGED threadVars
        BY <2>6 DEF Stop
    <3> QED
        BY <3>1, SMTT(30) DEF threadVars
  <2>7. CASE UNCHANGED vars \/ NotifyOne \/ NotifyAll \/ Join \/ Tick
      BY <2>7 DEF vars, threadVars, NotifyOne, NotifyAll, Join, Tick
  <2> QED
      BY <2>4, <2>5, <2>6, <2>7 DEF Next
<1>2. PICK e \in functionQueue : IsBegin(e) /\ running' = [running EXCEPT ![t] = e]
    BY <1>1, Zenon DEF TakeFirst
<1>3. PICK d \in functionQueue : d.point <= deadline[t]
    BY <1>1 DEF WaitUntilReturns, WaitInv
<1>4. e.point \in Nat /\ d.point \in Nat /\ deadline[t] \in Nat /\ now \in Nat
    BY DEF TypeOK, Entries
<1>5. e.point <= d.point
    BY <1>2, <1>4 DEF IsBegin, Precedes
<1>6. running'[t] = e
    BY <1>2 DEF TypeOK
<1> QED
    BY <1>1, <1>3, <1>4, <1>5, <1>6

\* A scheduler with one thread executes no function before its time.
THEOREM NeverEarlyAlone ==
    ASSUME NEW CONSTANT solo, Threads = {solo}
    PROVE  Spec => NeverEarly
<1>1. Init => WaitInv
    BY DEF Init, WaitInv
<1>2. TypeOK /\ WaitInv /\ [Next]_vars => WaitInv'
    BY WaitStep
<1>3. TypeOK /\ WaitInv /\ [Next]_vars =>
        [\A t \in Threads : running'[t] # running[t] /\ running'[t] # NoFunction
                               => running'[t].point <= now]_vars
    BY StartsOnTime
<1> QED
    BY <1>1, <1>2, <1>3, TypeCorrect, PTL DEF Spec, NeverEarly
=============================================================================
