--------------------------- MODULE NuveApiProofs ---------------------------
(***************************************************************************)
(* Proofs about NuveApi for any number of calls.                           *)
(***************************************************************************)
EXTENDS NuveApi, TLAPS

\* TypeOK with what makes it inductive: while the chain of operations goes on,
\* the caller waits, no handler is under way and the promise is not set.
Chained ==
    /\ TypeOK
    /\ stage # "none" => caller = "waiting" /\ handler = "none" /\ sets = 0
    /\ caller = "using" => sets = 1

\* A chain is started by a call and ended by exactly one handler.
LEMMA ChainedStep == Chained /\ [Next]_vars => Chained'
<1> SUFFICES ASSUME Chained, [Next]_vars PROVE Chained'
    OBVIOUS
<1> USE NuveApiAssumption DEF Chained, TypeOK, Stages
<1>1. CASE UNCHANGED vars
    BY <1>1 DEF vars, callerVars, sessionVars
<1>2. ASSUME NEW o \in Ops, Call(o) PROVE Chained'
  <2>1. Blank \in Responses /\ NoReply \in Responses
      BY DEF Blank, NoReply, Responses, Bodies
  <2>2. deadline' \in BOOLEAN
      BY <1>2, Zenon DEF Call
  <2> QED
      BY <1>2, <2>1, <2>2 DEF Call
<1>3. CASE CopyResponse
    BY <1>3 DEF CopyResponse, sessionVars
<1>4. CASE Return
  <2>1. result' \in Results
      BY <1>4 DEF Return, Outcome, Results
  <2>2. abandoned' \in BOOLEAN
      BY <1>4, Zenon DEF Return
  <2> QED
      BY <1>4, <2>1, <2>2 DEF Return
<1>5. CASE OnResolve
  <2>1. CASE Proceed("resolve", "connect") /\ deadline' = TRUE
    <3>1. deadline' \in BOOLEAN
        BY <2>1
    <3> QED
        BY <2>1, <3>1 DEF Proceed, callerVars
  <2>2. CASE /\ stage = "resolve" /\ Fail
             /\ UNCHANGED <<deadline, response, callerVars, abandoned, reply, ended>>
      BY <2>2 DEF Fail, callerVars
  <2> QED
      BY <1>5, <2>1, <2>2, Zenon DEF OnResolve
<1>6. CASE OnConnect
    BY <1>6 DEF OnConnect, Proceed, callerVars
<1>7. CASE OnWrite
    BY <1>7 DEF OnWrite, Proceed, callerVars
<1>8. ASSUME NEW r \in Replies, OnRead(r) PROVE Chained'
  <2>1. r \in Responses
      BY DEF Replies, Responses
  <2> QED
      BY <1>8, <2>1 DEF OnRead, callerVars
<1>9. CASE OnError
    BY <1>9 DEF OnError, Fail, callerVars
<1>10. CASE SetFailure
  <2>1. response' \in Responses
      BY <1>10 DEF SetFailure, Responses
  <2> QED
      BY <1>10, <2>1 DEF SetFailure, callerVars
<1>11. CASE HandlerReturns
    BY <1>11 DEF HandlerReturns, callerVars
<1>12. CASE SelfJoin
    BY <1>12 DEF SelfJoin, callerVars, sessionVars
<1> QED
    BY <1>1, <1>2, <1>3, <1>4, <1>5, <1>6, <1>7, <1>8, <1>9, <1>10, <1>11, <1>12 DEF Next

\* Before the first call there is no session.
LEMMA InitChained == Init => Chained
<1> SUFFICES ASSUME Init PROVE Chained
    OBVIOUS
<1>1. Blank \in Responses /\ NoReply \in Responses
    BY DEF Blank, NoReply, Responses, Bodies
<1>2. deadline \in BOOLEAN /\ abandoned \in BOOLEAN /\ ended \in BOOLEAN
    BY Zenon DEF Init
<1> QED
    BY <1>1, <1>2, NuveApiAssumption DEF Init, Chained, TypeOK, Ops, Results, Stages

\* The promise of a call is set at most once, whatever fails.
THEOREM TypeCorrect == Spec => []TypeOK
<1>1. Chained => TypeOK
    BY DEF Chained
<1> QED
    BY <1>1, InitChained, ChainedStep, PTL DEF Spec

-----------------------------------------------------------------------------
\* While the caller waits, the promise is set or the chain goes on, and beyond
\* resolving it has its deadline.
Covered ==
    /\ caller = "waiting" /\ sets = 0 => stage # "none"
    /\ stage \in {"connect", "write", "read"} => deadline

\* Every handler that ends the chain sets the promise, and the chain leaves
\* "resolve" only with a deadline.
LEMMA CoveredStep == Chained /\ Covered /\ [Next]_vars => Covered'
<1> SUFFICES ASSUME Chained, Covered, [Next]_vars PROVE Covered'
    OBVIOUS
<1>1. sets \in {0, 1} /\ stage \in Stages /\ caller \in {"idle", "waiting", "using"}
    BY DEF Chained, TypeOK
<1> USE DEF Covered, callerVars, sessionVars
<1>2. CASE UNCHANGED vars
    BY <1>2 DEF vars
<1>3. ASSUME NEW o \in Ops, Call(o) PROVE Covered'
    BY <1>3 DEF Call
<1>4. CASE CopyResponse \/ Return
    BY <1>4 DEF CopyResponse, Return
<1>5. CASE OnResolve
    BY <1>1, <1>5 DEF OnResolve, Proceed, Fail
<1>6. CASE OnConnect \/ OnWrite
    BY <1>6 DEF OnConnect, OnWrite, Proceed
<1>7. ASSUME NEW r \in Replies, OnRead(r) PROVE Covered'
    BY <1>1, <1>7 DEF OnRead
<1>8. CASE OnError
    BY <1>1, <1>8 DEF OnError, Fail
<1>9. CASE SetFailure \/ HandlerReturns \/ SelfJoin
    BY <1>9 DEF SetFailure, HandlerReturns, SelfJoin
<1> QED
    BY <1>2, <1>3, <1>4, <1>5, <1>6, <1>7, <1>8, <1>9 DEF Next

\* The promise of a call is set at most once, and as long as it is not, what the
\* session waits for is bounded in time: what CallsReturn rests on.
THEOREM PromiseAlwaysKept == Spec => []PromiseKept
<1>1. Init => Covered
    BY DEF Init, Covered
<1>2. Chained /\ Covered => PromiseKept
    BY DEF Chained, TypeOK, Stages, Covered, PromiseKept
<1> QED
    BY <1>1, <1>2, InitChained, ChainedStep, CoveredStep, PTL DEF Spec

-----------------------------------------------------------------------------
\* A response is the server's, or it has no body and the server has not
\* answered.
Genuine(r) == r = reply \/ (reply = NoReply /\ r.body = "empty")

\* Whenever the caller copies response_, it is genuine: also between the
\* promise and the status of a failure.
Honest ==
    /\ stage # "none" \/ handler = "failing" => reply = NoReply /\ response.body = "empty"
    /\ calls > 0 => Genuine(response)
    /\ caller # "idle" => calls > 0
    /\ caller = "using" => Genuine(seen)
    /\ ResultFromServer

\* Neither the order of promise and response_ nor the copy lets a response be
\* taken for the server's that is not.
LEMMA HonestStep == Chained /\ Honest /\ [Next]_vars => Honest'
<1> SUFFICES ASSUME Chained, Honest, [Next]_vars PROVE Honest'
    OBVIOUS
<1>1. calls \in Nat /\ response \in Responses /\ reply \in Responses /\ seen \in Responses
    BY NuveApiAssumption DEF Chained, TypeOK
<1> USE DEF Honest
<1>2. CASE UNCHANGED vars
    BY <1>2 DEF vars, callerVars, sessionVars, Genuine, ResultFromServer
<1>3. ASSUME NEW o \in Ops, Call(o) PROVE Honest'
    BY <1>1, <1>3 DEF Call, Genuine, Blank, ResultFromServer
<1>4. CASE CopyResponse
    BY <1>4 DEF CopyResponse, sessionVars, Genuine, ResultFromServer
<1>5. CASE Return
  <2>1. Genuine(seen)
      BY <1>5 DEF Return
  <2>2. Body(seen) = "good" <=> reply = [status |-> "ok", body |-> "good"]
      BY <1>1, <2>1 DEF Genuine, Body, NoReply, Responses
  <2>3. result' \in {"value", "true"} <=> Body(seen) = "good"
      BY <1>5 DEF Return, Outcome
  <2>4. stage = "none"
      BY <1>5 DEF Return, Chained
  <2> QED
      BY <1>5, <2>2, <2>3, <2>4 DEF Return, Genuine, ResultFromServer
<1>6. CASE OnResolve \/ OnConnect \/ OnWrite \/ OnError
    BY <1>6 DEF OnResolve, OnConnect, OnWrite, OnError, Proceed, Fail, callerVars, Genuine,
       ResultFromServer
<1>7. ASSUME NEW r \in Replies, OnRead(r) PROVE Honest'
    BY <1>7 DEF OnRead, callerVars, Genuine, ResultFromServer, Chained
<1>8. CASE SetFailure
  <2>1. response'.body = response.body /\ stage = "none"
      BY <1>1, <1>8 DEF SetFailure, Responses, Chained
  <2> QED
      BY <1>8, <2>1 DEF SetFailure, callerVars, Genuine, ResultFromServer
<1>9. CASE HandlerReturns
    BY <1>9 DEF HandlerReturns, callerVars, Genuine, ResultFromServer
<1>10. CASE SelfJoin
    BY <1>10 DEF SelfJoin, callerVars, sessionVars, Genuine, ResultFromServer
<1> QED
    BY <1>2, <1>3, <1>4, <1>5, <1>6, <1>7, <1>8, <1>9, <1>10 DEF Next

\* A call succeeds exactly when the server answered it with success, although
\* error handlers set the promise before response_.
THEOREM ResultAlwaysFromServer == Spec => []ResultFromServer
<1>1. Init => Honest
    BY DEF Init, Honest, Genuine, ResultFromServer, Blank, NoReply
<1>2. Honest => ResultFromServer
    BY DEF Honest
<1> QED
    BY <1>1, <1>2, InitChained, ChainedStep, HonestStep, PTL DEF Spec
=============================================================================
