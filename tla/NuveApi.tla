------------------------------ MODULE NuveApi ------------------------------
(***************************************************************************)
(* The calls of LicodeNuveApi and the SimpleHttpSession each of them makes *)
(* (core/licode_nuve_api.cc).                                              *)
(*                                                                         *)
(* The caller's thread starts a chain of handlers on the session's own io  *)
(* thread, waits for the promise, copies response_ and drops its reference *)
(* to the session.  On an error the handler sets the promise first and     *)
(* response_ afterwards, so that the copy races with it.  Whoever drops    *)
(* the last reference runs the destructor, which joins the io thread.      *)
(*                                                                         *)
(* A response is its status and what its body is good for.  response_      *)
(* begins with status ok and an empty body, the defaults of boost::beast,  *)
(* and async_read leaves them so when it fails.                            *)
(***************************************************************************)
EXTENDS Naturals, FiniteSets

CONSTANT MaxCalls   \* bound: calls of the API

ASSUME NuveApiAssumption == MaxCalls \in Nat

VARIABLES
    calls,     \* calls made so far
    op,        \* the call in progress, or the last one
    caller,    \* what the caller's thread is doing
    seen,      \* the caller's copy of response_
    result,    \* what the last call returned
    stage,     \* the operation the session waits for
    handler,   \* what the io thread still has to do in a handler
    deadline,  \* expires_after has been called
    sets,      \* how often the promise has been set
    response,  \* response_
    abandoned, \* an io thread holds the last reference to its session
    reply,     \* history: what the server answered to this call
    ended      \* the process has ended

callerVars == <<calls, op, caller, seen, result>>
sessionVars == <<stage, handler, deadline, sets, response>>
vars == <<callerVars, sessionVars, abandoned, reply, ended>>

-----------------------------------------------------------------------------
Ops == {"create", "destroy", "get", "list", "token"}

\* "good" is what the call expects, "unparsable" is not that, and "undecodable"
\* is not even base64.
Bodies == {"empty", "good", "unparsable", "undecodable"}
Responses == [status : {"ok", "error", "unknown"}, body : Bodies]
Replies == [status : {"ok", "error"}, body : Bodies]
Blank == [status |-> "ok", body |-> "empty"]
NoReply == [status |-> "unknown", body |-> "empty"]

Stages == {"none", "resolve", "connect", "write", "read"}
Results == {"none", "nullopt", "value", "false", "true", "throws"}

Init ==
    /\ calls = 0
    /\ op = "list"
    /\ caller = "idle"
    /\ seen = Blank
    /\ result = "none"
    /\ stage = "none"
    /\ handler = "none"
    /\ deadline = FALSE
    /\ sets = 0
    /\ response = Blank
    /\ abandoned = FALSE
    /\ reply = NoReply
    /\ ended = FALSE

-----------------------------------------------------------------------------
(* The caller's thread.                                                    *)

\* SyncRequest up to future.get(): the new session starts its io thread and
\* begins to resolve.
Call(o) ==
    /\ caller = "idle"
    /\ calls < MaxCalls
    /\ calls' = calls + 1
    /\ op' = o
    /\ caller' = "waiting"
    /\ stage' = "resolve"
    /\ handler' = "none"
    /\ deadline' = FALSE
    /\ sets' = 0
    /\ response' = Blank
    /\ reply' = NoReply
    /\ UNCHANGED <<seen, result, abandoned, ended>>

\* get() returns and response_ is copied.
CopyResponse ==
    /\ caller = "waiting"
    /\ sets > 0
    /\ seen' = response
    /\ caller' = "using"
    /\ UNCHANGED <<calls, op, result, sessionVars, abandoned, reply, ended>>

\* A plausible bug: the status is not looked at.
BodyOfAnyStatus(r) == r.body

\* LicodeNuveApi::SyncRequest returns the body of a response that is ok.
Body(r) == IF r.status = "ok" THEN r.body ELSE "empty"

\* What the call makes of the string SyncRequest has returned.  Only
\* SyncCreateToken decodes it, and outside its try.
Outcome(o, body) ==
    CASE o = "destroy" -> IF body = "good" THEN "true" ELSE "false"
      [] o = "token" /\ body = "undecodable" -> "throws"
      [] OTHER -> IF body = "good" THEN "value" ELSE "nullopt"

\* SyncRequest drops the session and the call returns.  When the handler has
\* returned the destructor runs here and joins the io thread; otherwise the io
\* thread is left with the last reference.
Return ==
    /\ caller = "using"
    /\ caller' = "idle"
    /\ result' = Outcome(op, Body(seen))
    /\ abandoned' = (abandoned \/ handler # "none")
    /\ handler' = "none"
    /\ UNCHANGED <<calls, op, seen, stage, deadline, sets, response, reply, ended>>

-----------------------------------------------------------------------------
(* The io thread.                                                          *)

\* An error ends the chain: the handler sets the promise and goes on.
Fail ==
    /\ stage' = "none"
    /\ sets' = sets + 1
    /\ handler' = "failing"

\* A step of the chain succeeds: the next operation takes over the reference.
Proceed(from, to) ==
    /\ stage = from
    /\ stage' = to
    /\ UNCHANGED <<handler, sets, response, callerVars, abandoned, reply, ended>>

\* A plausible bug: without expires_after.
OnResolveNoDeadline ==
    \/ Proceed("resolve", "connect") /\ UNCHANGED deadline
    \/ /\ stage = "resolve"
       /\ Fail
       /\ UNCHANGED <<deadline, response, callerVars, abandoned, reply, ended>>

OnResolve ==
    \/ Proceed("resolve", "connect") /\ deadline' = TRUE
    \/ /\ stage = "resolve"
       /\ Fail
       /\ UNCHANGED <<deadline, response, callerVars, abandoned, reply, ended>>

OnConnect == Proceed("connect", "write") /\ UNCHANGED deadline

OnWrite == Proceed("write", "read") /\ UNCHANGED deadline

\* A plausible bug: without the return after the error.
OnErrorFallsThrough ==
    /\ stage \in {"connect", "write", "read"}
    /\ stage' = "none"
    /\ sets' = sets + 2
    /\ handler' = "failing"
    /\ UNCHANGED <<deadline, response, callerVars, abandoned, reply, ended>>

\* OnConnect, OnWrite and OnRead with an error, of the network or because the
\* deadline has passed.
OnError ==
    /\ stage \in {"connect", "write", "read"}
    /\ Fail
    /\ UNCHANGED <<deadline, response, callerVars, abandoned, reply, ended>>

OnRead(r) ==
    /\ stage = "read"
    /\ stage' = "none"
    /\ response' = r
    /\ reply' = r
    /\ sets' = sets + 1
    /\ handler' = "returning"
    /\ UNCHANGED <<deadline, callerVars, abandoned, ended>>

\* The rest of an error handler: result() and reason() after the promise.
SetFailure ==
    /\ handler = "failing"
    /\ response' = [response EXCEPT !.status = "unknown"]
    /\ handler' = "returning"
    /\ UNCHANGED <<stage, deadline, sets, callerVars, abandoned, reply, ended>>

\* The last handler returns, and with it its reference goes.
HandlerReturns ==
    /\ handler = "returning"
    /\ handler' = "none"
    /\ UNCHANGED <<stage, deadline, sets, response, callerVars, abandoned, reply, ended>>

\* It was the last reference: the destructor joins the thread it runs on.
SelfJoin ==
    /\ abandoned
    /\ ended' = TRUE
    /\ UNCHANGED <<callerVars, sessionVars, abandoned, reply>>

-----------------------------------------------------------------------------
Next ==
    /\ ~ended
    /\ \/ \E o \in Ops : Call(o)
       \/ CopyResponse
       \/ Return
       \/ OnResolve \/ OnConnect \/ OnWrite
       \/ \E r \in Replies : OnRead(r)
       \/ OnError
       \/ SetFailure
       \/ HandlerReturns
       \/ SelfJoin

Spec == Init /\ [][Next]_vars

\* The caller's thread goes on, resolving ends, an operation with a deadline
\* ends.  Nothing is asked of the server: it may accept and never answer.
Fairness ==
    /\ WF_vars(~ended /\ (CopyResponse \/ Return))
    /\ WF_vars(~ended /\ OnResolve)
    /\ WF_vars(~ended /\ deadline /\ OnError)
    /\ WF_vars(~ended /\ (SetFailure \/ HandlerReturns))

FairSpec == Spec /\ Fairness

-----------------------------------------------------------------------------
TypeOK ==
    /\ calls \in 0 .. MaxCalls
    /\ op \in Ops
    /\ caller \in {"idle", "waiting", "using"}
    /\ seen \in Responses
    /\ result \in Results
    /\ stage \in Stages
    /\ handler \in {"none", "failing", "returning"}
    /\ deadline \in BOOLEAN
    /\ sets \in {0, 1}
    /\ response \in Responses
    /\ reply \in Responses
    /\ abandoned \in BOOLEAN /\ ended \in BOOLEAN

\* What a call returns comes from the server: it succeeds exactly when the
\* server answered this very call with status ok and the expected body.  The
\* race between an error handler, which sets the promise before response_, and
\* the copy of response_ never makes a failure look like a success.
ResultFromServer ==
    caller = "idle" /\ calls > 0 =>
        (result \in {"value", "true"} <=> reply = [status |-> "ok", body |-> "good"])

\* The promise of a call is kept, once: it is never set twice, which would throw
\* in the io thread; as long as it is not set, the chain is resolving or is in
\* an operation that the deadline ends, although the deadline is set once for
\* three operations; and no operation is left once the caller has its copy.
PromiseKept ==
    /\ sets <= 1
    /\ caller = "waiting" /\ sets = 0 => stage = "resolve" \/ (stage # "none" /\ deadline)
    /\ caller # "waiting" => stage = "none"

\* A call returns although the server may never answer: the deadline that is
\* set before connecting covers connecting, writing and reading.
CallsReturn == caller = "waiting" ~> caller = "idle" \/ ended
=============================================================================
