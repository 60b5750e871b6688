---------------------------- MODULE WorkerProofs ----------------------------
(***************************************************************************)
(* Proofs about Worker for any period, any resolution of the scheduler's   *)
(* delays and any number of tasks, starts and turns.                       *)
(***************************************************************************)
EXTENDS Worker, TLAPS

-----------------------------------------------------------------------------
(* Sequences of handlers.                                                  *)

\* What taking the first handler of a queue leaves.
LEMMA RangeTail ==
    ASSUME NEW S, NEW s \in Seq(S), s # <<>>
    PROVE  /\ Head(s) \in S
           /\ Tail(s) \in Seq(S)
           /\ Range(s) = {Head(s)} \cup Range(Tail(s))
<1>1. Len(s) \in Nat /\ Len(s) > 0 /\ DOMAIN s = 1 .. Len(s)
    OBVIOUS
<1>2. Head(s) \in S /\ Head(s) = s[1] /\ Tail(s) \in Seq(S)
    BY <1>1
<1>3. Len(Tail(s)) = Len(s) - 1 /\ \A i \in 1 .. Len(s) - 1 : Tail(s)[i] = s[i + 1]
    BY <1>1
<1>4. DOMAIN Tail(s) = 1 .. Len(s) - 1
    BY <1>1, <1>2, <1>3
<1>5. ASSUME NEW x \in Range(s) PROVE x \in {Head(s)} \cup Range(Tail(s))
  <2>1. PICK i \in 1 .. Len(s) : x = s[i]
      BY <1>1, <1>5 DEF Range
  <2>2. CASE i = 1
      BY <1>2, <2>1, <2>2
  <2>3. CASE i # 1
    <3>1. i - 1 \in 1 .. Len(s) - 1 /\ s[i] = Tail(s)[i - 1]
        BY <1>1, <1>3, <2>1, <2>3
    <3> QED
        BY <1>4, <2>1, <3>1, Zenon DEF Range
  <2> QED
      BY <2>2, <2>3
<1>6. ASSUME NEW x \in Range(Tail(s)) PROVE x \in Range(s)
  <2>1. PICK i \in 1 .. Len(s) - 1 : x = Tail(s)[i]
      BY <1>4, <1>6 DEF Range
  <2>2. i + 1 \in 1 .. Len(s) /\ x = s[i + 1]
      BY <1>1, <1>3, <2>1
  <2> QED
      BY <1>1, <2>2 DEF Range
<1>7. Head(s) \in Range(s)
    BY <1>1, <1>2 DEF Range
<1> QED
    BY <1>2, <1>5, <1>6, <1>7

\* What queueing a handler adds.
LEMMA RangeAppend ==
    ASSUME NEW S, NEW s \in Seq(S), NEW e \in S
    PROVE  /\ Append(s, e) \in Seq(S)
           /\ Range(Append(s, e)) = Range(s) \cup {e}
<1>1. Append(s, e) \in Seq(S) /\ DOMAIN s = 1 .. Len(s) /\ Len(s) \in Nat
    OBVIOUS
<1>2. /\ DOMAIN Append(s, e) = 1 .. Len(s) + 1
      /\ \A i \in 1 .. Len(s) : Append(s, e)[i] = s[i]
      /\ Append(s, e)[Len(s) + 1] = e
    BY <1>1
<1>3. 1 .. Len(s) + 1 = (1 .. Len(s)) \cup {Len(s) + 1}
    BY <1>1
<1> QED
    BY <1>1, <1>2, <1>3 DEF Range

\* What running a handler inside the current one adds.
LEMMA RangePush ==
    ASSUME NEW S, NEW s \in Seq(S), NEW e \in S
    PROVE  /\ <<e>> \o s \in Seq(S)
           /\ <<e>> \o s # <<>> /\ Head(<<e>> \o s) = e
           /\ Range(<<e>> \o s) = Range(s) \cup {e}
           /\ IsInjective(s) /\ e \notin Range(s) => IsInjective(<<e>> \o s)
<1> DEFINE p == <<e>> \o s
<1>1. DOMAIN s = 1 .. Len(s) /\ Len(s) \in Nat /\ <<e>> \in Seq(S) /\ Len(<<e>>) = 1
    OBVIOUS
<1>2. /\ p \in Seq(S)
      /\ Len(p) = 1 + Len(s)
      /\ p[1] = e
      /\ \A i \in 1 .. Len(s) : p[i + 1] = s[i]
    BY <1>1
<1>3. DOMAIN p = 1 .. 1 + Len(s)
    BY <1>1, <1>2
<1>4. p # <<>> /\ Head(p) = e
    BY <1>1, <1>2
<1>5. ASSUME NEW j \in 1 .. 1 + Len(s), j # 1 PROVE j - 1 \in 1 .. Len(s) /\ p[j] = s[j - 1]
  <2>1. j - 1 \in 1 .. Len(s) /\ (j - 1) + 1 = j
      BY <1>1, <1>5
  <2> QED
      BY <1>2, <2>1
<1> HIDE DEF p
<1>6. Range(p) = Range(s) \cup {e}
  <2>1. ASSUME NEW x \in Range(s) PROVE x \in Range(p)
    <3>1. PICK i \in 1 .. Len(s) : x = s[i]
        BY <1>1, <2>1 DEF Range
    <3>2. i + 1 \in 1 .. 1 + Len(s) /\ x = p[i + 1]
        BY <1>1, <1>2, <3>1
    <3> QED
        BY <1>3, <3>2 DEF Range
  <2>2. 1 \in 1 .. 1 + Len(s)
      BY <1>1
  <2>3. e \in Range(p)
      BY <1>2, <1>3, <2>2 DEF Range
  <2>4. ASSUME NEW x \in Range(p) PROVE x \in Range(s) \cup {e}
    <3>1. PICK j \in 1 .. 1 + Len(s) : x = p[j]
        BY <1>3, <2>4 DEF Range
    <3> QED
        BY <1>1, <1>2, <1>5, <3>1, Zenon DEF Range
  <2> QED
      BY <2>1, <2>3, <2>4
<1>7. ASSUME IsInjective(s), e \notin Range(s) PROVE IsInjective(p)
  <2> SUFFICES ASSUME NEW i \in 1 .. 1 + Len(s), NEW j \in 1 .. 1 + Len(s), p[i] = p[j]
               PROVE  i = j
      BY <1>3 DEF IsInjective
  <2>1. \A k \in 1 .. Len(s) : s[k] # e
      BY <1>1, <1>7 DEF Range
  <2>2. CASE i = 1 \/ j = 1
      BY <1>2, <1>5, <2>1, <2>2
  <2>3. CASE i # 1 /\ j # 1
    <3>1. i - 1 = j - 1
        BY <1>1, <1>5, <1>7, <2>3 DEF IsInjective
    <3> QED
        BY <3>1
  <2> QED
      BY <2>2, <2>3
<1> QED
    BY <1>2, <1>4, <1>6, <1>7 DEF p

\* Taking the first of a queue without repetitions leaves one, and not that
\* handler; queueing a new handler keeps it without repetitions.
LEMMA NoRepetition ==
    ASSUME NEW S, NEW s \in Seq(S), IsInjective(s)
    PROVE  /\ s # <<>> => IsInjective(Tail(s)) /\ Head(s) \notin Range(Tail(s))
           /\ \A e \in S : e \notin Range(s) => IsInjective(Append(s, e))
<1>1. Len(s) \in Nat /\ DOMAIN s = 1 .. Len(s)
    OBVIOUS
<1>2. ASSUME s # <<>> PROVE IsInjective(Tail(s)) /\ Head(s) \notin Range(Tail(s))
  <2>1. Len(s) > 0 /\ Head(s) = s[1] /\ Tail(s) \in Seq(S)
      BY <1>1, <1>2
  <2>2. Len(Tail(s)) = Len(s) - 1 /\ \A i \in 1 .. Len(s) - 1 : Tail(s)[i] = s[i + 1]
      BY <1>1, <1>2
  <2>3. DOMAIN Tail(s) = 1 .. Len(s) - 1
      BY <1>1, <2>1, <2>2
  <2>4. ASSUME NEW i \in 1 .. Len(s) - 1, NEW j \in 1 .. Len(s) - 1, Tail(s)[i] = Tail(s)[j]
        PROVE  i = j
    <3>1. i + 1 \in 1 .. Len(s) /\ j + 1 \in 1 .. Len(s) /\ s[i + 1] = s[j + 1]
        BY <1>1, <2>2, <2>4
    <3>2. i + 1 = j + 1
        BY <1>1, <3>1 DEF IsInjective
    <3> QED
        BY <3>2
  <2>5. ASSUME NEW i \in 1 .. Len(s) - 1 PROVE Tail(s)[i] # Head(s)
    <3>1. i + 1 \in 1 .. Len(s) /\ 1 \in 1 .. Len(s) /\ i + 1 # 1 /\ Tail(s)[i] = s[i + 1]
        BY <1>1, <2>1, <2>2
    <3> QED
        BY <1>1, <2>1, <3>1 DEF IsInjective
  <2> QED
      BY <2>3, <2>4, <2>5 DEF IsInjective, Range
<1>3. ASSUME NEW e \in S, e \notin Range(s) PROVE IsInjective(Append(s, e))
  <2>1. /\ DOMAIN Append(s, e) = 1 .. Len(s) + 1
        /\ \A i \in 1 .. Len(s) : Append(s, e)[i] = s[i]
        /\ Append(s, e)[Len(s) + 1] = e
      BY <1>1
  <2>2. \A k \in 1 .. Len(s) : s[k] # e
      BY <1>1, <1>3 DEF Range
  <2>3. \A i \in 1 .. Len(s) + 1 : i \in 1 .. Len(s) \/ i = Len(s) + 1
      BY <1>1
  <2> QED
      BY <1>1, <2>1, <2>2, <2>3 DEF IsInjective
<1> QED
    BY <1>2, <1>3

\* Every handler of a sequence over a set is a member of that set.
LEMMA RangeIn ==
    ASSUME NEW S, NEW s \in Seq(S)
    PROVE  Range(s) \subseteq S
<1>1. DOMAIN s = 1 .. Len(s) /\ \A i \in 1 .. Len(s) : s[i] \in S
    OBVIOUS
<1> QED
    BY <1>1 DEF Range

\* A sequence over a set is one over any larger set.
LEMMA SeqMonotone ==
    ASSUME NEW S, NEW T, S \subseteq T, NEW s \in Seq(S)
    PROVE  s \in Seq(T)
OBVIOUS

-----------------------------------------------------------------------------
(* Types.                                                                  *)

\* The type invariant, with what it needs: a handler in the queue or on the
\* stack is a task that was posted, and the clock does not run backwards.
TypeInv ==
    /\ TypeOK
    /\ start <= now
    /\ queue \in Seq(0 .. posted)
    /\ stack \in Seq(0 .. posted)

\* No step of the owner, of the thread or of the scheduler leaves the types.
LEMMA TypeStep == TypeInv /\ [Next]_vars => TypeInv'
<1> SUFFICES ASSUME TypeInv, [Next]_vars PROVE TypeInv'
    OBVIOUS
<1> USE WorkerAssumption DEF TypeInv, TypeOK, OwnerStates, ThreadStates, TurnStates,
        threadVars, taskVars, turnVars, PeriodTask
<1>1. 0 .. posted \subseteq Handlers /\ 0 .. posted \subseteq 0 .. posted + 1
    BY DEF Handlers
<1>2. CASE UNCHANGED vars
    BY <1>2 DEF vars
<1>3. CASE Start
    BY <1>3 DEF Start
<1>4. CASE Stop
  <2>1. Range(queue) \subseteq 0 .. posted /\ Range(stack) \subseteq 0 .. posted
      BY RangeIn
  <2>2. owed' \subseteq 1 .. posted
      BY <1>4, <2>1 DEF Stop, Outstanding
  <2> QED
      BY <1>4, <2>2, Zenon DEF Stop
<1>5. CASE Join
    BY <1>5 DEF Join
<1>6. ASSUME posted < MaxTasks, posted' = posted + 1
      PROVE  /\ posted' \in 0 .. MaxTasks /\ 0 .. posted' \subseteq Handlers
             /\ queue \in Seq(0 .. posted') /\ stack \in Seq(0 .. posted')
             /\ posted + 1 \in 0 .. posted'
             /\ done \subseteq 1 .. posted' /\ owed \subseteq 1 .. posted'
    BY <1>1, <1>6, SeqMonotone DEF Handlers
<1>7. CASE PostTask
  <2>1. queue' \in Seq(0 .. posted')
      BY <1>6, <1>7, RangeAppend DEF PostTask
  <2>2. queue' \in Seq(Handlers)
      BY <1>6, <1>7, <2>1, SeqMonotone DEF PostTask
  <2> QED
      BY <1>6, <1>7, <2>1, <2>2 DEF PostTask
<1>8. CASE PostTaskInline
  <2>1. stack' \in Seq(0 .. posted')
      BY <1>6, <1>8, RangePush DEF PostTaskInline
  <2>2. stack' \in Seq(Handlers)
      BY <1>6, <1>8, <2>1, SeqMonotone DEF PostTaskInline
  <2> QED
      BY <1>6, <1>8, <2>1, <2>2 DEF PostTaskInline
<1>9. CASE TaskThrows
    BY <1>9 DEF TaskThrows
<1>10. CASE ScheduleEvery
    BY <1>10 DEF ScheduleEvery
<1>11. CASE Fire
  <2>1. queue' \in Seq(0 .. posted)
      BY <1>11, RangeAppend DEF Fire
  <2>2. queue' \in Seq(Handlers)
      BY <1>1, <2>1, SeqMonotone
  <2> QED
      BY <1>11, <2>1, <2>2 DEF Fire
<1>12. CASE Tick
    BY <1>12 DEF Tick
<1>13. CASE ThreadBegins
    BY <1>13 DEF ThreadBegins
<1>14. CASE TakeHandler
  <2>1. /\ Head(queue) \in 0 .. posted /\ queue' \in Seq(0 .. posted)
      BY <1>14, RangeTail DEF TakeHandler
  <2>2. stack' \in Seq(0 .. posted)
      BY <1>14, <2>1 DEF TakeHandler
  <2>3. queue' \in Seq(Handlers) /\ stack' \in Seq(Handlers)
      BY <1>1, <2>1, <2>2, SeqMonotone
  <2> QED
      BY <1>14, <2>1, <2>2, <2>3 DEF TakeHandler
<1>15. stack # <<>> => /\ Head(stack) \in 0 .. posted
                       /\ Tail(stack) \in Seq(0 .. posted)
                       /\ Tail(stack) \in Seq(Handlers)
    BY <1>1, RangeTail, SeqMonotone
<1>16. CASE TaskReturns
  <2>4. Head(stack) \in 1 .. posted
      BY <1>15, <1>16 DEF TaskReturns
  <2>1. done' = done \cup {Head(stack)}
      BY <1>16 DEF TaskReturns
  <2>2. /\ stack' \in Seq(0 .. posted) /\ stack' \in Seq(Handlers)
        /\ UNCHANGED <<threadVars, queue, posted, owed, now, turnVars>>
      BY <1>15, <1>16 DEF TaskReturns
  <2>3. done' \subseteq 1 .. posted
      BY <2>1, <2>4, Zenon
  <2> QED
      BY <2>2, <2>3
<1>17. CASE RunReturns
    BY <1>17 DEF RunReturns
<1>18. CASE Arm
  <2>1. PICK cut \in 0 .. Unit - 1 : cut <= Max(delay, 0) /\ due' = now + Max(delay, 0) - cut
      BY <1>18 DEF Arm
  <2>2. Max(delay, 0) \in Nat
      BY DEF Max
  <2>3. due' \in Nat
      BY <2>1, <2>2
  <2>4. stack' \in Seq(0 .. posted) /\ stack' \in Seq(Handlers)
      BY <1>15, <1>18, Zenon DEF Arm
  <2> QED
      BY <1>18, <2>3, <2>4 DEF Arm
<1>19. CASE TurnContinues
    BY <1>19 DEF TurnContinues
<1>20. CASE ScheduleAgain
    BY <1>20 DEF ScheduleAgain
<1>21. CASE TurnEnds
  <2>1. Range(stack) \subseteq 0 .. posted
      BY RangeIn
  <2>2. /\ stack' \in Seq(0 .. posted) /\ stack' \in Seq(Handlers)
        /\ turn' \in TurnStates
        /\ UNCHANGED <<threadVars, queue, posted, owed, now,
                       start, delay, due, rounds, slips, gap>>
      BY <1>21 DEF TurnEnds
  <2>3. Range(stack) \ {PeriodTask} \subseteq 1 .. posted
      BY <2>1
  <2>4. done' = done \cup (Range(stack) \ {PeriodTask})
      BY <1>21 DEF TurnEnds
  <2>5. done' \subseteq 1 .. posted
      BY <2>3, <2>4, Zenon
  <2> QED
      BY <2>2, <2>5
<1> QED
    BY <1>2, <1>3, <1>4, <1>5, <1>7, <1>8, <1>9, <1>10, <1>11, <1>12, <1>13, <1>14,
       <1>16, <1>17, <1>18, <1>19, <1>20, <1>21, SMTT(30) DEF Next, ThreadStep

\* A worker is made without a thread, without handlers and not running.
LEMMA InitTyped == Init => TypeInv
<1> SUFFICES ASSUME Init PROVE TypeInv
    OBVIOUS
<1>1. queue = <<>> /\ stack = <<>> /\ posted = 0
    BY DEF Init
<1>2. /\ queue \in Seq(0 .. posted) /\ stack \in Seq(0 .. posted)
      /\ queue \in Seq(Handlers) /\ stack \in Seq(Handlers)
    BY <1>1
<1>3. running \in BOOLEAN /\ guard = running
    BY Zenon DEF Init
<1>4. done \subseteq 1 .. posted /\ owed \subseteq 1 .. posted
    BY DEF Init
<1>5. /\ starts \in 0 .. MaxStarts /\ posted \in 0 .. MaxTasks /\ now \in 0 .. MaxTime
      /\ start \in Nat /\ delay \in Int /\ due \in Nat /\ start <= now
      /\ rounds \in Nat /\ slips \in Nat /\ gap \in Nat
    BY WorkerAssumption DEF Init
<1>6. owner \in OwnerStates /\ thread \in ThreadStates /\ turn \in TurnStates
    BY DEF Init, OwnerStates, ThreadStates, TurnStates
<1> QED
    BY <1>2, <1>3, <1>4, <1>5, <1>6 DEF TypeInv, TypeOK

\* The worker keeps its types: guard_ is reset exactly while running_ is false,
\* and what is done or owed was posted.
THEOREM TypeCorrect == Spec => []TypeOK
<1>1. TypeInv => TypeOK
    BY DEF TypeInv
<1> QED
    BY <1>1, InitTyped, TypeStep, PTL DEF Spec

-----------------------------------------------------------------------------
(* The grid of the periodic task.                                          *)

\* Reading and delay of the closure add up to its place on the grid, but for
\* the time between the two readings of each round; due follows from them.
Grid ==
    /\ turn = "none" => now = 0 /\ rounds = 0 /\ slips = 0
    /\ turn # "none" => start + delay = Place + slips
    /\ turn = "timer" => /\ start + gap + Max(delay, 0) - Unit < due
                         /\ due <= start + gap + Max(delay, 0)

\* Before ScheduleEvery is called, no turn waits for the worker.
NoTurn == turn = "none" => PeriodTask \notin Range(queue)

\* Only Fire queues a turn, and it does so after ScheduleEvery.
LEMMA NoTurnStep == TypeInv /\ NoTurn /\ [Next]_vars => NoTurn'
<1> SUFFICES ASSUME TypeInv, NoTurn, [Next]_vars, turn' = "none"
             PROVE  PeriodTask \notin Range(queue')
    BY DEF NoTurn
<1>1. posted \in Nat /\ queue \in Seq(0 .. posted) /\ queue \in Seq(0 .. posted + 1)
    BY WorkerAssumption, SeqMonotone DEF TypeInv, TypeOK
<1>2. CASE turn = "none" /\ queue' = queue
    BY <1>2 DEF NoTurn
<1>3. CASE PostTask
  <2>1. queue' = Append(queue, posted + 1) /\ turn = "none"
      BY <1>3 DEF PostTask, turnVars
  <2>2. Range(queue') = Range(queue) \cup {posted + 1}
      BY <1>1, <2>1, RangeAppend
  <2> QED
      BY <1>1, <2>1, <2>2 DEF NoTurn, PeriodTask
<1>4. CASE TakeHandler
  <2>1. turn = "none"
      BY <1>4 DEF TakeHandler
  <2>2. Range(queue') \subseteq Range(queue)
      BY <1>1, <1>4, RangeTail DEF TakeHandler
  <2> QED
      BY <2>1, <2>2 DEF NoTurn
<1>5. CASE Next /\ ~PostTask /\ ~TakeHandler
    BY <1>2, <1>5 DEF Next, ThreadStep, Start, Stop, Join, PostTaskInline, TaskThrows,
       ScheduleEvery, Fire, Tick, ThreadBegins, TaskReturns, RunReturns, Arm, TurnContinues,
       ScheduleAgain, TurnEnds, taskVars, turnVars
<1> QED
    BY <1>2, <1>3, <1>4, <1>5 DEF vars, taskVars, turnVars

\* Every turn keeps the grid, however late it runs.
LEMMA GridStep == TypeInv /\ NoTurn /\ Grid /\ [Next]_vars => Grid'
<1> SUFFICES ASSUME TypeInv, NoTurn, Grid, [Next]_vars PROVE Grid'
    OBVIOUS
<1>1. /\ now \in Nat /\ start \in Nat /\ delay \in Int /\ due \in Nat /\ start <= now
      /\ rounds \in Nat /\ slips \in Nat /\ gap \in Nat
      /\ Period \in Nat /\ Unit \in Nat \ {0}
    BY WorkerAssumption DEF TypeInv, TypeOK
<1>2. CASE UNCHANGED <<now, turnVars>>
    BY <1>2 DEF Grid, Place, turnVars
<1>3. CASE turn' = turn /\ UNCHANGED <<start, delay, due, rounds, slips, gap>> /\ turn # "none"
    BY <1>3 DEF Grid, Place
<1>4. CASE ScheduleEvery
    BY <1>1, <1>4 DEF ScheduleEvery, Grid, Place
<1>5. CASE Arm
  <2>1. PICK cut \in 0 .. Unit - 1 : cut <= Max(delay, 0) /\ due' = now + Max(delay, 0) - cut
      BY <1>5 DEF Arm
  <2>2. Max(delay, 0) \in Nat
      BY <1>1 DEF Max
  <2>3. /\ turn = "arm" /\ turn' = "timer" /\ gap' = now - start
        /\ UNCHANGED <<start, delay, rounds, slips>>
      BY <1>5 DEF Arm
  <2>4. Max(delay, 0)' = Max(delay, 0)
      BY <2>3 DEF Max
  <2>5. /\ start' + gap' + Max(delay, 0)' - Unit < due'
        /\ due' <= start' + gap' + Max(delay, 0)'
      BY <1>1, <2>1, <2>2, <2>3, <2>4
  <2>6. start' + delay' = Place' + slips'
      BY <2>3 DEF Grid, Place
  <2> QED
      BY <2>3, <2>5, <2>6 DEF Grid
<1>6. CASE turn' \in {"queue", "run", "end"} /\ turn # "none"
           /\ UNCHANGED <<start, delay, rounds, slips>>
    BY <1>6 DEF Grid, Place
<1>7. CASE TurnContinues
  <2>1. /\ turn = "run" /\ turn' = "again" /\ start' = now
        /\ delay' = Period - (now - start - delay)
        /\ rounds' = rounds + 1 /\ slips' = slips
      BY <1>7 DEF TurnContinues
  <2>2. start + delay = (rounds + 1) * Period + slips
      BY <2>1 DEF Grid, Place
  <2>3. (rounds' + 1) * Period = (rounds + 1) * Period + Period
      BY <1>1, <2>1
  <2>4. (rounds + 1) * Period \in Int
      BY <1>1
  <2>5. start' + delay' = (rounds' + 1) * Period + slips'
      BY <1>1, <2>1, <2>2, <2>3, <2>4
  <2> QED
      BY <2>1, <2>5 DEF Grid, Place
<1>8. CASE ScheduleAgain
  <2>1. /\ turn = "again" /\ turn' = "arm" /\ start' = now
        /\ slips' = slips + (now - start) /\ delay' = delay /\ rounds' = rounds
      BY <1>8 DEF ScheduleAgain
  <2>2. start + delay = Place + slips /\ Place' = Place /\ Place \in Int
      BY <1>1, <2>1 DEF Grid, Place
  <2>3. start' + delay' = Place' + slips'
      BY <1>1, <2>1, <2>2
  <2> QED
      BY <2>1, <2>3 DEF Grid
<1>9. CASE Tick
    BY <1>3, <1>9 DEF Tick, turnVars
<1>10. CASE Fire
    BY <1>6, <1>10 DEF Fire
<1>11. CASE TurnEnds
    BY <1>6, <1>11 DEF TurnEnds
<1>12. CASE TakeHandler
  <2>1. CASE Head(queue) = PeriodTask
    <3>1. queue \in Seq(0 .. posted) /\ queue # <<>>
        BY <1>12 DEF TakeHandler, TypeInv
    <3>2. turn # "none"
        BY <2>1, <3>1, RangeTail DEF NoTurn
    <3> QED
        BY <1>6, <1>12, <2>1, <3>2 DEF TakeHandler
  <2>2. CASE Head(queue) # PeriodTask
      BY <1>2, <1>12, <2>2 DEF TakeHandler, turnVars
  <2> QED
      BY <2>1, <2>2
<1>13. CASE \/ Start \/ Stop \/ Join \/ PostTask \/ PostTaskInline \/ TaskThrows
            \/ ThreadBegins \/ TaskReturns \/ RunReturns \/ UNCHANGED vars
    BY <1>2, <1>13 DEF Start, Stop, Join, PostTask, PostTaskInline, TaskThrows,
       ThreadBegins, TaskReturns, RunReturns, vars
<1> QED
    BY <1>4, <1>5, <1>7, <1>8, <1>9, <1>10, <1>11, <1>12, <1>13 DEF Next, ThreadStep

\* The periodic task of a worker neither runs ahead nor drifts: NoDrift follows
\* from the grid.
THEOREM NoDriftEver == Spec => []NoDrift
<1>1. Init => TypeInv /\ NoTurn /\ Grid
  <2> SUFFICES ASSUME Init PROVE TypeInv /\ NoTurn /\ Grid
      OBVIOUS
  <2>1. TypeInv
      BY InitTyped
  <2>2. queue = <<>> /\ turn = "none" /\ now = 0 /\ rounds = 0 /\ slips = 0
      BY DEF Init
  <2>3. Range(<<>>) = {}
      BY DEF Range
  <2> QED
      BY <2>1, <2>2, <2>3 DEF NoTurn, Grid
<1>2. TypeInv /\ Grid => NoDrift
  <2> SUFFICES ASSUME TypeInv, Grid, turn = "timer"
               PROVE  Place - Unit < due /\ (delay >= 0 => due <= Place + slips + gap)
      BY DEF NoDrift
  <2>1. /\ start \in Nat /\ delay \in Int /\ due \in Nat
        /\ rounds \in Nat /\ slips \in Nat /\ gap \in Nat /\ Period \in Nat /\ Unit \in Nat
      BY WorkerAssumption DEF TypeInv, TypeOK
  <2>2. Place \in Int
      BY <2>1 DEF Place
  <2>3. /\ start + delay = Place + slips
        /\ start + gap + Max(delay, 0) - Unit < due
        /\ due <= start + gap + Max(delay, 0)
      BY DEF Grid
  <2>4. Max(delay, 0) \in Int /\ Max(delay, 0) >= delay /\ (delay >= 0 => Max(delay, 0) = delay)
      BY <2>1 DEF Max
  <2> QED
      BY <2>1, <2>2, <2>3, <2>4
<1> QED
    BY <1>1, <1>2, TypeStep, NoTurnStep, GridStep, PTL DEF Spec

-----------------------------------------------------------------------------
(* Stop.                                                                   *)

\* While Stop waits, a task it owes is queued, running or done; once run() has
\* returned there is no task of the first two kinds left.
Drain ==
    /\ thread = "ended" => ~running
    /\ owner = "joining" => owed \subseteq done \cup Outstanding
    /\ owner = "joining" /\ thread = "ended" => owed \subseteq done

\* No step loses a task: a handler leaves the queue for the stack, and the
\* stack for done.
LEMMA DrainStep == TypeInv /\ Drain /\ [Next]_vars => Drain'
<1> SUFFICES ASSUME TypeInv, Drain, [Next]_vars PROVE Drain'
    OBVIOUS
<1>1. /\ queue \in Seq(0 .. posted) /\ stack \in Seq(0 .. posted)
      /\ posted \in Nat /\ owed \subseteq 1 .. posted
      /\ running \in BOOLEAN /\ guard = running
    BY WorkerAssumption DEF TypeInv, TypeOK
<1>2. CASE Start
    BY <1>2 DEF Start, Drain
<1>3. CASE Stop
    BY <1>3 DEF Stop, Drain, Outstanding
<1>4. CASE Join
    BY <1>4 DEF Join, Drain
<1>5. CASE ThreadBegins
    BY <1>5 DEF ThreadBegins, Drain
<1>6. CASE RunReturns
  <2>1. Range(<<>>) = {}
      BY DEF Range
  <2>2. Outstanding = {}
      BY <1>6, <2>1 DEF RunReturns, Outstanding
  <2> QED
      BY <1>1, <1>6, <2>2 DEF RunReturns, Drain, Outstanding, taskVars
\* A step that leaves the threads alone, and keeps or finishes every task.
<1>7. ASSUME UNCHANGED <<running, owner, thread, owed>>,
             done \subseteq done',
             Outstanding \ {PeriodTask} \subseteq done' \cup Outstanding'
      PROVE  Drain'
    BY <1>1, <1>7 DEF Drain, PeriodTask
<1>8. CASE PostTask
  <2>1. queue \in Seq(0 .. posted + 1)
      BY <1>1, SeqMonotone
  <2>2. posted + 1 \in 0 .. posted + 1 /\ queue' = Append(queue, posted + 1)
      BY <1>1, <1>8 DEF PostTask
  <2>3. Range(queue') = Range(queue) \cup {posted + 1}
    <3>1. Range(Append(queue, posted + 1)) = Range(queue) \cup {posted + 1}
        BY <2>1, <2>2, RangeAppend
    <3> QED
        BY <2>2, <3>1, Zenon
  <2> QED
      BY <1>7, <1>8, <2>3 DEF PostTask, threadVars, Outstanding
<1>9. CASE PostTaskInline
  <2>1. stack \in Seq(0 .. posted + 1)
      BY <1>1, SeqMonotone
  <2>2. stack' = <<posted + 1>> \o stack /\ posted + 1 \in 0 .. posted + 1
      BY <1>1, <1>9 DEF PostTaskInline
  <2>3. Range(stack) \subseteq Range(<<posted + 1>> \o stack)
      BY <2>1, <2>2, RangePush
  <2> QED
      BY <1>7, <1>9, <2>2, <2>3 DEF PostTaskInline, threadVars, Outstanding
<1>10. CASE Fire
  <2>1. Range(queue) \subseteq Range(queue')
      BY <1>1, <1>10, RangeAppend DEF Fire, PeriodTask
  <2> QED
      BY <1>7, <1>10, <2>1 DEF Fire, threadVars, Outstanding
<1>11. CASE TakeHandler
  <2>1. Range(queue) = {Head(queue)} \cup Range(queue')
      BY <1>1, <1>11, RangeTail DEF TakeHandler
  <2>2. Head(queue) \in Range(stack')
      BY <1>11 DEF TakeHandler, Range
  <2>3. Range(stack) = {}
      BY <1>11 DEF TakeHandler, Range
  <2> QED
      BY <1>7, <1>11, <2>1, <2>2, <2>3 DEF TakeHandler, threadVars, Outstanding
<1>12. CASE TaskReturns
  <2>1. Range(stack) = {Head(stack)} \cup Range(stack')
      BY <1>1, <1>12, RangeTail DEF TaskReturns
  <2> QED
      BY <1>7, <1>12, <2>1 DEF TaskReturns, threadVars, Outstanding
<1>13. CASE Arm
  <2>1. Range(stack) \ {PeriodTask} \subseteq Range(stack')
      BY <1>1, <1>13, RangeTail DEF Arm
  <2> QED
      BY <1>7, <1>13, <2>1 DEF Arm, threadVars, Outstanding
<1>14. CASE TurnEnds
    BY <1>7, <1>14 DEF TurnEnds, threadVars, Outstanding
<1>15. CASE TaskThrows
    BY <1>15 DEF TaskThrows, Drain, Outstanding, taskVars
<1>16. CASE ScheduleEvery \/ TurnContinues \/ ScheduleAgain \/ Tick \/ UNCHANGED vars
    BY <1>7, <1>16 DEF ScheduleEvery, TurnContinues, ScheduleAgain, Tick, vars,
       threadVars, taskVars, Outstanding
<1> QED
    BY <1>2, <1>3, <1>4, <1>5, <1>6, <1>8, <1>9, <1>10, <1>11, <1>12, <1>13, <1>14,
       <1>15, <1>16 DEF Next, ThreadStep

\* Stop drains the worker: whatever was queued or running when Stop was called
\* has been executed when join() returns.
THEOREM StopAlwaysDrains == Spec => []StopDrains
<1>1. Init => Drain
    BY DEF Init, Drain
<1>2. Drain => StopDrains
    BY DEF Drain, StopDrains
<1> QED
    BY <1>1, <1>2, InitTyped, TypeStep, DrainStep, PTL DEF Spec

-----------------------------------------------------------------------------
(* Nothing is lost.                                                        *)

\* Where the thread is, given what the owner has done: Start and Stop wait for
\* it, and only a thread that runs has handlers on its stack.
ThreadInv ==
    /\ thread = "starting" <=> owner = "starting"
    /\ owner = "starting" => running
    /\ owner = "free" => thread \in (IF running THEN {"run", "terminated"} ELSE {"none"})
    /\ owner = "joining" => ~running /\ thread \in {"run", "ended", "terminated"}
    /\ stack # <<>> => thread \in {"run", "terminated"}

\* ThreadInv is inductive.
LEMMA ThreadStepInv == TypeInv /\ ThreadInv /\ [Next]_vars => ThreadInv'
<1> SUFFICES ASSUME TypeInv, ThreadInv, [Next]_vars PROVE ThreadInv'
    OBVIOUS
<1> USE DEF ThreadInv, threadVars, taskVars
<1>1. owner \in OwnerStates /\ thread \in ThreadStates /\ guard = running
    BY DEF TypeInv, TypeOK
<1>2. CASE UNCHANGED vars
    BY <1>2 DEF vars
<1>3. ASSUME thread # "terminated", Start PROVE ThreadInv'
    BY <1>3 DEF Start
<1>4. CASE Stop
    BY <1>4 DEF Stop
<1>5. CASE Join
    BY <1>5 DEF Join
<1>6. CASE ThreadBegins
    BY <1>6 DEF ThreadBegins
<1>7. CASE RunReturns
    BY <1>1, <1>7 DEF RunReturns, OwnerStates
<1>8. CASE TaskThrows
    BY <1>1, <1>8 DEF TaskThrows, OwnerStates
<1>9. CASE TakeHandler
    BY <1>9 DEF TakeHandler
<1>10. CASE PostTask \/ Fire \/ ScheduleEvery \/ Tick \/ TurnContinues \/ ScheduleAgain
    BY <1>10 DEF PostTask, Fire, ScheduleEvery, Tick, TurnContinues, ScheduleAgain
<1>11. CASE PostTaskInline
    BY <1>11 DEF PostTaskInline
<1>12. CASE TaskReturns \/ Arm \/ TurnEnds
  <2>1. stack = <<>> => stack' = <<>>
      BY <1>12 DEF TaskReturns, Arm, TurnEnds
  <2> QED
      BY <1>12, <2>1 DEF TaskReturns, Arm, TurnEnds
<1> QED
    BY <1>2, <1>3, <1>4, <1>5, <1>6, <1>7, <1>8, <1>9, <1>10, <1>11, <1>12
       DEF Next, ThreadStep

\* Every task is in one place.
TaskPlaces ==
    /\ IsInjective(queue) /\ IsInjective(stack)
    /\ Range(queue) \cap Range(stack) = {}
    /\ Outstanding \cap done = {}
    /\ (Outstanding \ {PeriodTask}) \cup done = 1 .. posted

\* So is the closure of the periodic task, and when a turn has asked for the
\* next one it is the handler on top of the stack.
TurnPlace ==
    /\ PeriodTask \in Range(queue) <=> turn = "queue"
    /\ turn \in {"run", "again"} => PeriodTask \in Range(stack)
    /\ PeriodTask \in Range(stack) => turn \in {"run", "again", "arm"}
    /\ PeriodTask \in Range(stack) /\ turn # "run" => Head(stack) = PeriodTask

PlaceInv == TaskPlaces /\ TurnPlace

\* A new task has a number that no other has.
LEMMA NewTask ==
    ASSUME TypeInv, PlaceInv
    PROVE  /\ queue \in Seq(0 .. posted + 1) /\ stack \in Seq(0 .. posted + 1)
           /\ posted + 1 \in 0 .. posted + 1
           /\ posted + 1 \notin Range(queue) /\ posted + 1 \notin Range(stack)
           /\ posted + 1 \notin done
           /\ posted + 1 # PeriodTask
           /\ 1 .. posted + 1 = (1 .. posted) \cup {posted + 1}
<1>1. /\ posted \in Nat /\ queue \in Seq(0 .. posted) /\ stack \in Seq(0 .. posted)
      /\ done \subseteq 1 .. posted
    BY WorkerAssumption DEF TypeInv, TypeOK
<1>2. Range(queue) \subseteq 0 .. posted /\ Range(stack) \subseteq 0 .. posted
    BY <1>1, RangeIn
<1>3. 0 .. posted \subseteq 0 .. posted + 1
    BY <1>1
<1>4. queue \in Seq(0 .. posted + 1) /\ stack \in Seq(0 .. posted + 1)
    BY <1>1, <1>3, SeqMonotone
<1>5. /\ posted + 1 \in 0 .. posted + 1
      /\ posted + 1 \notin 0 .. posted /\ posted + 1 \notin 1 .. posted
      /\ posted + 1 # 0
      /\ 1 .. posted + 1 = (1 .. posted) \cup {posted + 1}
    BY <1>1
<1> QED
    BY <1>1, <1>2, <1>4, <1>5, Zenon DEF PeriodTask

\* PlaceInv is inductive: a handler moves from the queue to the stack and from
\* there to done, and only Fire and PostTask bring new ones.
LEMMA PlaceStep == TypeInv /\ PlaceInv /\ [Next]_vars => PlaceInv'
<1> SUFFICES ASSUME TypeInv, PlaceInv, [Next]_vars PROVE PlaceInv'
    OBVIOUS
<1>1. /\ posted \in Nat /\ queue \in Seq(0 .. posted) /\ stack \in Seq(0 .. posted)
      /\ done \subseteq 1 .. posted /\ PeriodTask \in 0 .. posted /\ PeriodTask \notin done
    BY WorkerAssumption DEF TypeInv, TypeOK, PeriodTask
<1>2. /\ IsInjective(queue) /\ IsInjective(stack)
    BY DEF PlaceInv, TaskPlaces
<1>3. Range(<<>>) = {} /\ IsInjective(<<>>)
    BY DEF Range, IsInjective
<1>4. ASSUME UNCHANGED <<queue, stack, posted, done>> PROVE TaskPlaces'
    BY <1>4 DEF PlaceInv, TaskPlaces, Outstanding
<1>5. CASE PostTask
  <2>1. /\ queue' = Append(queue, posted + 1) /\ posted' = posted + 1
        /\ UNCHANGED <<stack, done, turn>>
      BY <1>5 DEF PostTask, turnVars
  <2>2. Range(queue') = Range(queue) \cup {posted + 1} /\ IsInjective(queue')
      BY <1>2, <2>1, NewTask, RangeAppend, NoRepetition
  <2>3. TaskPlaces'
      BY <1>2, <2>1, <2>2, NewTask, ZenonT(30) DEF PlaceInv, TaskPlaces, Outstanding
  <2>4. TurnPlace'
      BY <2>1, <2>2, NewTask, Zenon DEF PlaceInv, TurnPlace
  <2> QED
      BY <2>3, <2>4 DEF PlaceInv
<1>6. CASE PostTaskInline
  <2>1. /\ stack # <<>> /\ (Head(stack) = PeriodTask => turn = "run")
        /\ stack' = <<posted + 1>> \o stack /\ posted' = posted + 1
        /\ UNCHANGED <<queue, done, turn>>
      BY <1>6 DEF PostTaskInline, turnVars
  <2>2. Range(stack') = Range(stack) \cup {posted + 1} /\ IsInjective(stack')
      BY <1>2, <2>1, NewTask, RangePush
  <2>3. TaskPlaces'
      BY <1>2, <2>1, <2>2, NewTask, ZenonT(30) DEF PlaceInv, TaskPlaces, Outstanding
  <2>4. TurnPlace'
      BY <2>1, <2>2, NewTask, Zenon DEF PlaceInv, TurnPlace
  <2> QED
      BY <2>3, <2>4 DEF PlaceInv
<1>7. CASE Fire
  <2>1. /\ queue' = Append(queue, PeriodTask) /\ turn = "timer" /\ turn' = "queue"
        /\ UNCHANGED <<stack, done, posted>>
      BY <1>7 DEF Fire
  <2>2. PeriodTask \notin Range(queue) /\ PeriodTask \notin Range(stack)
      BY <2>1 DEF PlaceInv, TurnPlace
  <2>3. Range(queue') = Range(queue) \cup {PeriodTask} /\ IsInjective(queue')
      BY <1>1, <1>2, <2>1, <2>2, RangeAppend, NoRepetition
  <2>4. TaskPlaces'
      BY <1>1, <1>2, <2>1, <2>2, <2>3, Zenon DEF PlaceInv, TaskPlaces, Outstanding
  <2>5. TurnPlace'
      BY <2>1, <2>2, <2>3 DEF TurnPlace
  <2> QED
      BY <2>4, <2>5 DEF PlaceInv
<1>8. CASE TakeHandler
  <2> DEFINE h == Head(queue)
  <2>1. /\ stack = <<>> /\ queue # <<>> /\ stack' = <<h>> /\ queue' = Tail(queue)
        /\ turn' = IF h = PeriodTask THEN "run" ELSE turn
        /\ UNCHANGED <<posted, done>>
      BY <1>8 DEF TakeHandler
  <2>2. Range(queue) = {h} \cup Range(queue')
      BY <1>1, <2>1, RangeTail
  <2>3. IsInjective(queue') /\ h \notin Range(queue')
      BY <1>1, <1>2, <2>1, NoRepetition
  <2>4. Range(stack) = {}
      BY <1>3, <2>1
  <2>5. Range(stack') = {h} /\ IsInjective(stack') /\ Head(stack') = h
      BY <2>1 DEF Range, IsInjective
  <2> HIDE DEF h
  <2>6. TaskPlaces'
      BY <2>1, <2>2, <2>3, <2>4, <2>5, Zenon DEF PlaceInv, TaskPlaces, Outstanding
  <2>7. PeriodTask \in Range(queue) <=> turn = "queue"
      BY DEF PlaceInv, TurnPlace
  <2>8. turn \notin {"run", "again"}
      BY <2>4 DEF PlaceInv, TurnPlace
  <2>9. TurnPlace'
      BY <2>1, <2>2, <2>3, <2>5, <2>7, <2>8 DEF TurnPlace
  <2> QED
      BY <2>6, <2>9 DEF PlaceInv
<1>9. CASE TaskReturns
  <2> DEFINE h == Head(stack)
  <2>1. /\ stack # <<>> /\ h # PeriodTask /\ stack' = Tail(stack)
        /\ done' = done \cup {h}
        /\ UNCHANGED <<queue, posted, turn>>
      BY <1>9 DEF TaskReturns, turnVars
  <2>2. Range(stack) = {h} \cup Range(stack')
      BY <1>1, <2>1, RangeTail
  <2>3. IsInjective(stack') /\ h \notin Range(stack')
      BY <1>1, <1>2, <2>1, NoRepetition
  <2>4. PeriodTask \in Range(stack) => turn = "run"
      BY <2>1 DEF PlaceInv, TurnPlace
  <2> HIDE DEF h
  <2>5. TaskPlaces'
      BY <2>1, <2>2, <2>3, Zenon DEF PlaceInv, TaskPlaces, Outstanding
  <2>6. TurnPlace'
      BY <2>1, <2>2, <2>4, Zenon DEF PlaceInv, TurnPlace
  <2> QED
      BY <2>5, <2>6 DEF PlaceInv
<1>10. CASE Arm
  <2>1. /\ turn = "arm" /\ turn' = "timer" /\ UNCHANGED <<queue, posted, done>>
        /\ stack' = IF stack # <<>> /\ Head(stack) = PeriodTask THEN Tail(stack) ELSE stack
      BY <1>10 DEF Arm
  <2>2. CASE PeriodTask \in Range(stack)
    <3>1. stack # <<>> /\ Head(stack) = PeriodTask
        BY <1>3, <2>1, <2>2 DEF PlaceInv, TurnPlace
    <3>2. Range(stack) = {PeriodTask} \cup Range(stack')
        BY <1>1, <2>1, <3>1, RangeTail
    <3>3. IsInjective(stack') /\ PeriodTask \notin Range(stack')
        BY <1>1, <1>2, <2>1, <3>1, NoRepetition
    <3>4. TaskPlaces'
        BY <2>1, <3>2, <3>3, Zenon DEF PlaceInv, TaskPlaces, Outstanding
    <3>5. TurnPlace'
        BY <2>1, <3>3 DEF PlaceInv, TurnPlace
    <3> QED
        BY <3>4, <3>5 DEF PlaceInv
  <2>3. CASE PeriodTask \notin Range(stack)
    <3>1. stack' = stack
      <4>1. stack # <<>> => Head(stack) \in Range(stack)
          BY <1>1, RangeTail
      <4> QED
          BY <2>1, <2>3, <4>1
    <3>2. TaskPlaces'
        BY <1>4, <2>1, <3>1
    <3>3. TurnPlace'
        BY <2>1, <2>3, <3>1 DEF PlaceInv, TurnPlace
    <3> QED
        BY <3>2, <3>3 DEF PlaceInv
  <2> QED
      BY <2>2, <2>3
<1>11. CASE TurnEnds
  <2>1. /\ turn = "run" /\ turn' = "end" /\ stack' = <<>>
        /\ done' = done \cup (Range(stack) \ {PeriodTask})
        /\ UNCHANGED <<queue, posted>>
      BY <1>11 DEF TurnEnds
  <2>2. Range(stack') = {} /\ IsInjective(stack')
      BY <1>3, <2>1
  <2>3. PeriodTask \notin Range(queue)
      BY <2>1 DEF PlaceInv, TurnPlace
  <2>4. TaskPlaces'
      BY <1>1, <2>1, <2>2, <2>3, Zenon DEF PlaceInv, TaskPlaces, Outstanding
  <2>5. TurnPlace'
      BY <2>1, <2>2, <2>3 DEF TurnPlace
  <2> QED
      BY <2>4, <2>5 DEF PlaceInv
<1>12. CASE ScheduleEvery \/ TurnContinues \/ ScheduleAgain
  <2>1. UNCHANGED <<queue, stack, posted, done>>
      BY <1>12 DEF ScheduleEvery, TurnContinues, ScheduleAgain, taskVars
  <2>2. TurnPlace'
      BY <1>12, <2>1 DEF ScheduleEvery, TurnContinues, ScheduleAgain, PlaceInv, TurnPlace
  <2> QED
      BY <1>4, <2>1, <2>2 DEF PlaceInv
<1>13. CASE UNCHANGED <<taskVars, turn>>
  <2>1. TurnPlace'
      BY <1>13 DEF PlaceInv, TurnPlace, taskVars
  <2> QED
      BY <1>4, <1>13, <2>1 DEF PlaceInv, taskVars
<1>14. ASSUME \/ UNCHANGED vars \/ Start \/ Join \/ TaskThrows \/ Tick \/ ThreadBegins
              \/ RunReturns
       PROVE  PlaceInv'
    BY <1>13, <1>14 DEF vars, Start, Join, TaskThrows, Tick, ThreadBegins, RunReturns, turnVars
<1>15. CASE Stop
  <2>1. UNCHANGED <<queue, stack, posted, done, turn>>
      BY <1>15 DEF Stop, turnVars
  <2>2. TurnPlace'
      BY <2>1 DEF PlaceInv, TurnPlace
  <2> QED
      BY <1>4, <2>1, <2>2 DEF PlaceInv
<1> QED
    BY <1>5, <1>6, <1>7, <1>8, <1>9, <1>10, <1>11, <1>12, <1>14, <1>15 DEF Next, ThreadStep

\* No task and no turn of the periodic task is lost or executed twice, whatever
\* the owner does in between, and Stop never waits for a thread that its own
\* guard keeps: what TasksRun, TurnsGoOn and StopReturns rest on.
THEOREM WorkerKeepsAll == Spec => []NothingLost
<1>1. Init => TypeInv /\ ThreadInv /\ PlaceInv
  <2> SUFFICES ASSUME Init PROVE ThreadInv /\ PlaceInv
      BY InitTyped
  <2>1. /\ queue = <<>> /\ stack = <<>> /\ posted = 0 /\ done = {} /\ turn = "none"
        /\ owner = "free" /\ thread = "none" /\ ~running
      BY DEF Init
  <2>2. Range(<<>>) = {} /\ IsInjective(<<>>) /\ 1 .. 0 = {}
      BY DEF Range, IsInjective
  <2>3. TaskPlaces /\ TurnPlace
      BY <2>1, <2>2 DEF TaskPlaces, TurnPlace, Outstanding
  <2>4. ThreadInv
      BY <2>1 DEF ThreadInv
  <2> QED
      BY <2>3, <2>4 DEF PlaceInv
<1>2. TypeInv /\ ThreadInv /\ PlaceInv => NothingLost
    BY DEF TypeInv, TypeOK, ThreadInv, PlaceInv, TaskPlaces, TurnPlace, NothingLost
<1> QED
    BY <1>1, <1>2, TypeStep, ThreadStepInv, PlaceStep, PTL DEF Spec
=============================================================================
