---------------------------- MODULE RoomSession ----------------------------
(***************************************************************************)
(* Joining and leaving a room: the state_ of LicodeRoom, the state_ of     *)
(* LicodeSignaling and the websocket sessions that follow one another in   *)
(* websocket_ (core/licode_room.cc, core/licode_signaling.cc).             *)
(*                                                                         *)
(* Three kinds of threads meet here: the thread of the application (Join,  *)
(* Leave, the end of the room), one io thread per websocket session (all   *)
(* that arrives, and all that is posted to the session) and the worker     *)
(* thread (the keep-alive ping).  The variables user, at and worker say    *)
(* where each of them is: a function is split where another thread can     *)
(* come between two of its accesses to shared state.                       *)
(*                                                                         *)
(* A session lives as long as websocket_ or one of its handlers refers to  *)
(* it.  Resolving, connecting and the websocket handshake are one step     *)
(* here; module WebsocketSession has them in detail.                       *)
(***************************************************************************)
EXTENDS Naturals

CONSTANTS
    MaxSessions,  \* bound: number of websocket sessions
    MaxExtras     \* bound: what may happen any number of times (see Extra)

ASSUME RoomSessionAssumption ==
    MaxSessions \in Nat \ {0} /\ MaxExtras \in Nat

VARIABLES
    roomState,  \* LicodeRoom::state_
    sigState,   \* LicodeSignaling::state_
    cur,        \* websocket_: the number of the current session, 0 if null
    user,       \* where the application's thread is in Join, or "gone"
    phase,      \* per session: its chain of operations
    at,         \* per session: where its io thread is in a handler
    need,       \* per session: needCallback of ProcessDisconnect
    connected,  \* per session: connected_
    doDisconnect,  \* per session: do_disconnect_
    closes,     \* per session: number of DoClose posted
    sending,    \* per session: OnSend is posted, or async_write outstanding
    stuck,      \* per session: a write has failed, nothing is written any more
    hello,      \* per session: "40" has been received
    tokens,     \* per session: number of token messages accepted
    answer,     \* per session: the answer to the token
    farewell,   \* per session: "41" has been received
    loops,      \* number of keep-alive loops alive in the worker
    worker,     \* where the worker thread is in SocketIoPing
    extras,     \* bound: number of times Extra has happened
    ended,      \* how the process has ended, if it has
    interrupted,  \* history: sessions replaced in their ProcessDisconnect
    unfinished    \* history: sessions replaced while they had a handler left

stateVars == <<roomState, sigState>>
chainVars == <<phase, at, need, connected>>
closeVars == <<doDisconnect, closes>>
writeVars == <<sending, stuck>>
protocolVars == <<hello, tokens, answer, farewell>>
pingVars == <<loops, worker>>
history == <<interrupted, unfinished>>
vars == <<stateVars, cur, user, chainVars, closeVars, writeVars, protocolVars,
          pingVars, extras, ended, history>>

Sessions == 1 .. MaxSessions

RoomStates == {"kDisconnected", "kConnecting", "kConnected"}
SignalingStates == {"kDisconnect", "kConnecting", "kConnected"}
Phases == {"none",        \* not created
           "new",         \* callbacks being set
           "connecting",  \* from async_resolve to the handshake
           "read",        \* async_read outstanding, or its handler running
           "closing",     \* the same, but the next handler is DoClose
           "closed",      \* the stream is closed, async_read will fail
           "over"}        \* the chain has ended
Places == {"idle",        \* the io thread waits for its next handler
           "call",        \* in a callback, on the way back from the signaling
           "token",       \* "40": before InitToken
           "update", "dispose", "disconnect", "callback",  \* ProcessDisconnect
           "report",      \* an error: before abnormal_disconnect_callback_
           "return"}      \* before giving up the reference of the handler

Init ==
    /\ roomState = "kDisconnected"
    /\ sigState = "kDisconnect"
    /\ cur = 0
    /\ user = "idle"
    /\ phase = [s \in Sessions |-> "none"]
    /\ at = [s \in Sessions |-> "idle"]
    /\ need = [s \in Sessions |-> FALSE]
    /\ connected = [s \in Sessions |-> FALSE]
    /\ doDisconnect = [s \in Sessions |-> FALSE]
    /\ closes = [s \in Sessions |-> 0]
    /\ sending = [s \in Sessions |-> FALSE]
    /\ stuck = [s \in Sessions |-> FALSE]
    /\ hello = [s \in Sessions |-> FALSE]
    /\ tokens = [s \in Sessions |-> 0]
    /\ answer = [s \in Sessions |-> "none"]
    /\ farewell = [s \in Sessions |-> FALSE]
    /\ loops = 0
    /\ worker = "idle"
    /\ extras = 0
    /\ ended = "no"
    /\ interrupted = {}
    /\ unfinished = {}

\* The worker sends a ping, the application calls Leave, a message arrives that
\* changes no state, a write fails: any of these may happen at any time.
Extra == extras < MaxExtras /\ extras' = extras + 1

\* A handler of session s is outstanding, posted or running, and refers to it.
Held(s) ==
    \/ phase[s] \in {"connecting", "read", "closing", "closed"}
    \/ at[s] # "idle"
    \/ closes[s] > 0
    \/ sending[s]

\* Some thread has tested what it must and is about to use websocket_.
WebsocketInUse ==
    worker = "ping" \/ \E s \in Sessions : at[s] \in {"token", "dispose", "disconnect"}

-----------------------------------------------------------------------------
(* The application's thread.                                               *)

\* Join, up to the call of signaling_->Init.
Join ==
    /\ ended = "no"
    /\ user = "idle"
    /\ roomState = "kDisconnected"
    /\ roomState' = "kConnecting"
    /\ user' = "init"
    /\ UNCHANGED <<sigState, cur, chainVars, closeVars, writeVars, protocolVars,
                   pingVars, extras, ended, history>>

\* Init returns false unless the signaling is disconnected; Join ignores that.
InitTest ==
    /\ ended = "no"
    /\ user = "init"
    /\ user' = IF sigState = "kDisconnect" THEN "session" ELSE "idle"
    /\ UNCHANGED <<stateVars, cur, chainVars, closeVars, writeVars, protocolVars,
                   pingVars, extras, ended, history>>

\* websocket_ is replaced by a new session, whose connected_ is true from
\* SetOnReadyCallback to SetOnAbnormalDisconnectCallback.  A session that has
\* no handler left is destroyed here; a thread that is about to use websocket_
\* may have read the old pointer.
InitSession ==
    /\ ended = "no"
    /\ user = "session"
    /\ cur < MaxSessions
    /\ cur' = cur + 1
    /\ phase' = [phase EXCEPT ![cur + 1] = "new"]
    /\ connected' = [connected EXCEPT ![cur + 1] = TRUE]
    /\ user' = "callbacks"
    /\ \/ UNCHANGED ended
       \/ cur # 0 /\ ~Held(cur) /\ WebsocketInUse /\ ended' = "stale_websocket"
    /\ interrupted' = interrupted \cup
         {s \in Sessions : s = cur /\ at[s] \in {"update", "dispose", "disconnect"}}
    /\ unfinished' = unfinished \cup {s \in Sessions : s = cur /\ Held(s)}
    /\ UNCHANGED <<stateVars, at, need, closeVars, writeVars, protocolVars,
                   pingVars, extras>>

\* The rest of Init: the other callbacks, the state, Connect.
InitConnect ==
    /\ ended = "no"
    /\ user = "callbacks"
    /\ connected' = [connected EXCEPT ![cur] = FALSE]
    /\ doDisconnect' = [doDisconnect EXCEPT ![cur] = FALSE]
    /\ sigState' = "kConnecting"
    /\ phase' = [phase EXCEPT ![cur] = "connecting"]
    /\ user' = "idle"
    /\ UNCHANGED <<roomState, cur, at, need, closes, writeVars, protocolVars,
                   pingVars, extras, ended, history>>

\* WebsocketSession::Disconnect of websocket_
Disconnect ==
    /\ doDisconnect' = [doDisconnect EXCEPT ![cur] = TRUE]
    /\ closes' = [closes EXCEPT ![cur] = @ + 1]

\* Leave disposes of the session; neither of the two states changes.
Leave ==
    /\ ended = "no"
    /\ user = "idle"
    /\ roomState # "kDisconnected"
    /\ cur # 0
    /\ connected[cur]
    /\ Extra
    /\ Disconnect
    /\ UNCHANGED <<stateVars, cur, user, chainVars, writeVars, protocolVars,
                   pingVars, ended, history>>

\* ~LicodeRoom, ~LicodeSignaling: the callbacks of the current session are
\* cleared (which leaves its connected_ false) and websocket_ is given up.  A
\* room that was never joined has no session to clear.  Neither the sessions
\* nor the keep-alive task is stopped.
Destroy ==
    /\ ended = "no"
    /\ user = "idle"
    /\ user' = "gone"
    /\ IF cur = 0
       THEN ended' = "null_websocket" /\ UNCHANGED connected
       ELSE connected' = [connected EXCEPT ![cur] = FALSE] /\ UNCHANGED ended
    /\ UNCHANGED <<stateVars, cur, phase, at, need, closeVars, writeVars,
                   protocolVars, pingVars, extras, history>>

\* What becomes of a step that uses the room, its signaling, or a callback that
\* was cleared, after their end.
UseRoom == ended' = IF user = "gone" THEN "dangling" ELSE ended

-----------------------------------------------------------------------------
(* The io thread of a session.                                             *)

\* The thread of session s is free to run its next handler.
Idle(s) == ended = "no" /\ at[s] = "idle"

\* The thread of session s is in a handler, at place p.
At(s, p) == ended = "no" /\ at[s] = p

\* The thread of session s goes on to place p.
Go(s, p) == at' = [at EXCEPT ![s] = p]

\* A plausible bug: the destructor leaves the callbacks as they are.
ClearedNever(s) == FALSE

\* The callbacks of session s have been cleared.
Cleared(s) == s = cur /\ user = "gone"

\* OnRead hands over a message to the signaling.  What a session without
\* callbacks reads changes nothing.
CanRead(s) == Idle(s) /\ ~Cleared(s) /\ phase[s] = "read"

\* A handler gives up its reference.  If it was the last one to a session that
\* is no longer websocket_, ~WebsocketSession runs on the session's own thread:
\* the destructor joins that thread and the program is terminated.
DropReference(s) ==
    ended' = IF (s # cur \/ user = "gone") /\ ~Held(s)' THEN "self_join" ELSE "no"

\* The test of WebsocketSession::ProcessDisconnect
Reports(s) == ~doDisconnect[s] /\ ~Cleared(s)

\* The chain of session s ends with an error.
ChainEnds(s) ==
    /\ phase' = [phase EXCEPT ![s] = "over"]
    /\ Go(s, IF Reports(s) THEN "report" ELSE "return")
    /\ UNCHANGED <<need, connected>>

\* OnHandshake, up to the call of ready_callback_, or a failure of one of the
\* operations before it.
ConnectEnds(s) ==
    /\ Idle(s)
    /\ phase[s] = "connecting"
    /\ \/ /\ phase' = [phase EXCEPT ![s] = "read"]
          /\ connected' = [connected EXCEPT ![s] = TRUE]
          /\ Go(s, IF Cleared(s) THEN "idle" ELSE "call")
          /\ UNCHANGED need
       \/ ChainEnds(s)
    /\ UNCHANGED <<stateVars, cur, user, closeVars, writeVars, protocolVars,
                   pingVars, extras, ended, history>>

\* OnRead with an error: the stream was closed, or the connection is lost.
OnReadError(s) ==
    /\ Idle(s)
    /\ phase[s] \in {"read", "closed"}
    /\ ChainEnds(s)
    /\ UNCHANGED <<stateVars, cur, user, closeVars, writeVars, protocolVars,
                   pingVars, extras, ended, history>>

\* A plausible bug: the loss is shown by the state of the room at once, so the
\* application can join while the handler is still running.
OnWebsocketDisconnectShown(s) ==
    /\ At(s, "report")
    /\ sigState' = "kDisconnect"
    /\ roomState' = "kDisconnected"
    /\ Go(s, "return")
    /\ UseRoom
    /\ UNCHANGED <<cur, user, phase, need, connected, closeVars, writeVars,
                   protocolVars, pingVars, extras, history>>

\* abnormal_disconnect_callback_, LicodeSignaling::OnWebsocketDisconnect
OnWebsocketDisconnect(s) ==
    /\ At(s, "report")
    /\ sigState' = "kDisconnect"
    /\ Go(s, "return")
    /\ UseRoom
    /\ UNCHANGED <<roomState, cur, user, phase, need, connected, closeVars, writeVars,
                   protocolVars, pingVars, extras, history>>

\* The last handler of the chain returns.
Return(s) ==
    /\ At(s, "return")
    /\ Go(s, "idle")
    /\ UNCHANGED <<phase, closes, sending>>
    /\ DropReference(s)
    /\ UNCHANGED <<stateVars, cur, user, need, connected, doDisconnect, stuck,
                   protocolVars, pingVars, extras, history>>

\* WebsocketSession::SendMsg on websocket_
SendMsg ==
    sending' = IF connected[cur] THEN [sending EXCEPT ![cur] = TRUE] ELSE sending

\* OnWebsocketMsg "40": connected, start a keep-alive loop.
OnSocketIoConnect(s) ==
    /\ CanRead(s)
    /\ ~hello[s]
    /\ hello' = [hello EXCEPT ![s] = TRUE]
    /\ sigState' = "kConnected"
    /\ loops' = loops + 1
    /\ Go(s, "token")
    /\ UNCHANGED <<roomState, cur, user, phase, need, connected, closeVars, writeVars,
                   tokens, answer, farewell, worker, extras, ended, history>>

\* A plausible bug: the token is not sent.
InitTokenNever(s) ==
    /\ At(s, "token")
    /\ Go(s, "idle")
    /\ UseRoom
    /\ UNCHANGED <<stateVars, cur, user, phase, need, connected, closeVars, writeVars,
                   protocolVars, pingVars, extras, history>>

\* A plausible bug: the token is sent for the "0" packet and again for "40".
InitTokenTwice(s) ==
    /\ At(s, "token")
    /\ tokens' = IF connected[cur] THEN [tokens EXCEPT ![cur] = @ + 2] ELSE tokens
    /\ SendMsg
    /\ Go(s, "idle")
    /\ UseRoom
    /\ UNCHANGED <<stateVars, cur, user, phase, need, connected, closeVars, stuck,
                   hello, answer, farewell, pingVars, extras, history>>

\* The end of OnWebsocketMsg "40": the token is sent on websocket_.
InitToken(s) ==
    /\ At(s, "token")
    /\ tokens' = IF connected[cur] THEN [tokens EXCEPT ![cur] = @ + 1] ELSE tokens
    /\ SendMsg
    /\ Go(s, "idle")
    /\ UseRoom
    /\ UNCHANGED <<stateVars, cur, user, phase, need, connected, closeVars, stuck,
                   hello, answer, farewell, pingVars, extras, history>>

\* OnWebsocketMsg "43111", LicodeRoom::OnJoinRoom up to the change of its state.
\* Whether a token reaches the server if a write fails is left open.
OnInitTokenResponse(s) ==
    /\ CanRead(s)
    /\ tokens[s] > 0
    /\ answer[s] = "none"
    /\ \/ /\ answer' = [answer EXCEPT ![s] = "success"]
          /\ roomState' = "kConnected"
       \/ /\ answer' = [answer EXCEPT ![s] = "error"]
          /\ roomState' = "kDisconnected"
    /\ Go(s, "call")
    /\ UNCHANGED <<sigState, cur, user, phase, need, connected, closeVars, writeVars,
                   hello, tokens, farewell, pingVars, extras, ended, history>>

\* OnWebsocketMsg with any other message; none changes the state of the session.
OnOtherMsg(s) ==
    /\ CanRead(s)
    /\ Extra
    /\ Go(s, "call")
    /\ UNCHANGED <<stateVars, cur, user, phase, need, connected, closeVars, writeVars,
                   protocolVars, pingVars, ended, history>>

\* The last use of the room or the signaling by a callback, and DoRead.
CallReturns(s) ==
    /\ At(s, "call")
    /\ Go(s, "idle")
    /\ UseRoom
    /\ UNCHANGED <<stateVars, cur, user, phase, need, connected, closeVars, writeVars,
                   protocolVars, pingVars, extras, history>>

\* OnWebsocketMsg "41": ProcessDisconnect looks at the state.
ProcessDisconnect(s) ==
    /\ CanRead(s)
    /\ hello[s]
    /\ ~farewell[s]
    /\ farewell' = [farewell EXCEPT ![s] = TRUE]
    /\ need' = [need EXCEPT ![s] = sigState = "kConnected"]
    /\ Go(s, "update")
    /\ UNCHANGED <<stateVars, cur, user, phase, connected, closeVars, writeVars,
                   hello, tokens, answer, pingVars, extras, ended, history>>

\* UpdateState(kDisconnect)
UpdateState(s) ==
    /\ At(s, "update")
    /\ sigState' = "kDisconnect"
    /\ Go(s, "dispose")
    /\ UseRoom
    /\ UNCHANGED <<roomState, cur, user, phase, need, connected, closeVars, writeVars,
                   protocolVars, pingVars, extras, history>>

\* ProcessDisconnect goes on after Dispose.
AfterDispose(s) ==
    /\ Go(s, IF need[s] THEN "callback" ELSE "idle")
    /\ need' = [need EXCEPT ![s] = FALSE]

\* A plausible bug: Dispose leaves the session open.
DisposeNothing(s) ==
    /\ At(s, "dispose")
    /\ AfterDispose(s)
    /\ UseRoom
    /\ UNCHANGED <<stateVars, cur, user, phase, connected, closeVars, writeVars,
                   protocolVars, pingVars, extras, history>>

\* Dispose: websocket_->IsConnected()
Dispose(s) ==
    /\ At(s, "dispose")
    /\ IF connected[cur] THEN Go(s, "disconnect") /\ UNCHANGED need ELSE AfterDispose(s)
    /\ UseRoom
    /\ UNCHANGED <<stateVars, cur, user, phase, connected, closeVars, writeVars,
                   protocolVars, pingVars, extras, history>>

\* Dispose: websocket_->Disconnect().  DoClose is posted to the thread of
\* websocket_; if that is this thread, it runs before the next read completes.
DisposeDisconnects(s) ==
    /\ At(s, "disconnect")
    /\ Disconnect
    /\ phase' = IF s = cur THEN [phase EXCEPT ![s] = "closing"] ELSE phase
    /\ AfterDispose(s)
    /\ UseRoom
    /\ UNCHANGED <<stateVars, cur, user, connected, writeVars, protocolVars,
                   pingVars, extras, history>>

\* disconnect_callback_, LicodeRoom::OnLeaveRoom.
DisconnectCallback(s) ==
    /\ At(s, "callback")
    /\ roomState' = "kDisconnected"
    /\ Go(s, "idle")
    /\ UseRoom
    /\ UNCHANGED <<sigState, cur, user, phase, need, connected, closeVars, writeVars,
                   protocolVars, pingVars, extras, history>>

\* DoClose closes a stream that is open, and throws if the closing handshake
\* fails.
DoClose(s) ==
    /\ Idle(s)
    /\ closes[s] > 0
    /\ closes' = [closes EXCEPT ![s] = @ - 1]
    /\ phase' = IF phase[s] \in {"read", "closing"} THEN [phase EXCEPT ![s] = "closed"]
                                                     ELSE phase
    /\ UNCHANGED <<at, sending>>
    /\ \/ DropReference(s)
       \/ phase[s] \in {"read", "closing"} /\ ended' = "close_threw"
    /\ UNCHANGED <<stateVars, cur, user, need, connected, doDisconnect, stuck,
                   protocolVars, pingVars, extras, history>>

\* OnSend and OnWrite, up to the last message accepted: without a break a handler
\* holds the session from SendMsg until then.  A write fails on a stream that is
\* not open, and may fail on any other; what is in queue_ then stays there.
OnWrite(s) ==
    /\ Idle(s)
    /\ sending[s]
    /\ sending' = [sending EXCEPT ![s] = FALSE]
    /\ \/ /\ phase[s] \notin {"new", "connecting"}
          /\ UNCHANGED <<stuck, extras>>
       \/ /\ phase[s] \in {"new", "connecting"}
          /\ stuck' = [stuck EXCEPT ![s] = TRUE]
          /\ UNCHANGED extras
       \/ /\ phase[s] \in {"read", "closing"}
          /\ Extra
          /\ stuck' = [stuck EXCEPT ![s] = TRUE]
    /\ UNCHANGED <<phase, at, closes>>
    /\ DropReference(s)
    /\ UNCHANGED <<stateVars, cur, user, need, connected, doDisconnect, protocolVars,
                   pingVars, history>>

-----------------------------------------------------------------------------
(* The worker thread: SocketIoPing, rescheduled by ScheduleEvery as long as *)
(* it returns true.  The test and the use of websocket_ are two steps.      *)

\* A plausible bug: the loop goes on whatever the state.
PingsAlways == TRUE

\* SocketIoPing goes on: CurrentState() == kConnected.
Pings == sigState = "kConnected"

Ping ==
    /\ ended = "no"
    /\ worker = "idle"
    /\ loops > 0
    /\ \/ Pings /\ Extra /\ worker' = "ping" /\ UNCHANGED loops
       \/ ~Pings /\ loops' = loops - 1 /\ UNCHANGED <<worker, extras>>
    /\ UseRoom
    /\ UNCHANGED <<stateVars, cur, user, chainVars, closeVars, writeVars,
                   protocolVars, history>>

\* websocket_->SendMsg(SOCKET_IO_PING)
SendPing ==
    /\ ended = "no"
    /\ worker = "ping"
    /\ worker' = "idle"
    /\ SendMsg
    /\ UseRoom
    /\ UNCHANGED <<stateVars, cur, user, chainVars, closeVars, stuck,
                   protocolVars, loops, extras, history>>

-----------------------------------------------------------------------------
\* A step with which the thread of session s goes on in a handler.
Continue(s) ==
    \/ OnWebsocketDisconnect(s)
    \/ Return(s)
    \/ InitToken(s)
    \/ CallReturns(s)
    \/ UpdateState(s)
    \/ Dispose(s)
    \/ DisposeDisconnects(s)
    \/ DisconnectCallback(s)

Next ==
    \/ Join
    \/ InitTest
    \/ InitSession
    \/ InitConnect
    \/ Leave
    \/ Destroy
    \/ \E s \in Sessions :
         \/ ConnectEnds(s)
         \/ OnReadError(s)
         \/ OnSocketIoConnect(s)
         \/ OnInitTokenResponse(s)
         \/ OnOtherMsg(s)
         \/ ProcessDisconnect(s)
         \/ Continue(s)
         \/ DoClose(s)
         \/ OnWrite(s)
    \/ Ping
    \/ SendPing

Spec == Init /\ [][Next]_vars

\* Threads that have begun a call go on, posted handlers run, connecting and
\* writing end, a read on a closed stream returns.
Fairness ==
    /\ WF_vars(InitTest)
    /\ WF_vars(InitSession)
    /\ WF_vars(InitConnect)
    /\ WF_vars(Ping)
    /\ WF_vars(SendPing)
    /\ \A s \in Sessions :
         /\ WF_vars(ConnectEnds(s))
         /\ WF_vars(Continue(s))
         /\ WF_vars(DoClose(s))
         /\ WF_vars(OnWrite(s))
         /\ WF_vars(phase[s] = "closed" /\ OnReadError(s))

FairSpec == Spec /\ Fairness

\* A server that answers: it greets every session and answers every token that
\* reaches it.
ServerFairness ==
    \A s \in Sessions :
        /\ WF_vars(OnSocketIoConnect(s))
        /\ WF_vars(~stuck[s] /\ OnInitTokenResponse(s))

-----------------------------------------------------------------------------
TypeOK ==
    /\ roomState \in RoomStates
    /\ sigState \in SignalingStates
    /\ cur \in 0 .. MaxSessions
    /\ user \in {"idle", "init", "session", "callbacks", "gone"}
    /\ phase \in [Sessions -> Phases]
    /\ at \in [Sessions -> Places]
    /\ need \in [Sessions -> BOOLEAN]
    /\ connected \in [Sessions -> BOOLEAN]
    /\ doDisconnect \in [Sessions -> BOOLEAN]
    /\ closes \in [Sessions -> Nat]
    /\ sending \in [Sessions -> BOOLEAN]
    /\ stuck \in [Sessions -> BOOLEAN]
    /\ hello \in [Sessions -> BOOLEAN]
    /\ tokens \in [Sessions -> Nat]
    /\ answer \in [Sessions -> {"none", "success", "error"}]
    /\ farewell \in [Sessions -> BOOLEAN]
    /\ loops \in Nat
    /\ worker \in {"idle", "ping"}
    /\ extras \in Nat
    /\ ended \in {"no", "self_join", "close_threw", "null_websocket", "dangling",
                  "stale_websocket"}
    /\ interrupted \subseteq Sessions
    /\ unfinished \subseteq Sessions

\* Session s cannot disturb the session in websocket_: its chain is over, or
\* DoClose has run or comes before its next message, and its thread is past its
\* uses of state_ and websocket_.
Mute(s) ==
    /\ phase[s] = "over" \/ (doDisconnect[s] /\ phase[s] \in {"closing", "closed"})
    /\ at[s] \in {"idle", "callback", "return"}

\* A session that websocket_ no longer refers to is mute, so its handlers, which
\* act on the shared state_ and on websocket_, leave the new session alone.  The
\* exception is a Join that comes while ProcessDisconnect is between its test of
\* state_ and the end of Dispose: Dispose then closes the new session, the old
\* one stays open, and from it on the sessions may disturb one another.
OldSessionsMute ==
    \A s \in Sessions : s < cur => Mute(s) \/ \E r \in interrupted : r <= s

\* InitToken writes to websocket_, whichever session the "40" came from; still a
\* session gets the token at most once, and only after its own "40".  It takes
\* two sessions that go on after an interrupted ProcessDisconnect for a third
\* one to get a token that is not its own.
TokenOncePerSession ==
    \A s \in Sessions :
        \/ tokens[s] <= (IF hello[s] THEN 1 ELSE 0)
        \/ \E r \in interrupted : r + 1 < s

\* The room becomes kConnected only through the answer of the server to the
\* token of the current session, never through a late message of a session
\* that has been replaced, unless a ProcessDisconnect was interrupted.
JoinedByCurrentSession ==
    [][roomState # "kConnected" /\ roomState' = "kConnected" =>
         \/ cur' = cur /\ answer[cur] = "none" /\ answer'[cur] = "success"
         \/ interrupted # {}]_vars

\* The loss of the connection alone never makes ~WebsocketSession run on the
\* session's own thread, which would join itself: that takes the end of the
\* room, or a session that was replaced while it had a handler left, and that
\* the application could replace only because the server had refused its token,
\* or had said "41" to it or to a session before it.
SelfJoinNeedsCause ==
    ended = "self_join" =>
        \/ user = "gone"
        \/ \E s \in unfinished :
             answer[s] = "error" \/ \E r \in Sessions : r <= s /\ farewell[r]

\* Nothing of a room that is gone is still on its way to it: no keep-alive loop
\* and no callback of a session.  Its sessions may be in any phase.
Abandoned ==
    /\ user = "gone"
    /\ ended # "dangling"
    /\ loops = 0 /\ worker = "idle"
    /\ \A s \in Sessions : at[s] \in {"idle", "return"}
    /\ interrupted = {}

\* The destructor need not wait for the websocket: once the keep-alive loops
\* have ended and no callback is under way, whatever the sessions of a room
\* that is gone still read or lose, they never call into it.  That needs every
\* ProcessDisconnect to have closed its own session: the destructor clears the
\* callbacks of the last session only.
AbandonedStaysSo == [][Abandoned => Abandoned']_vars

\* The keep-alive loops of a connection that stays down come to an end.
LoopsEnd ==
    <>[](sigState # "kConnected") => <>[](loops = 0 \/ ended # "no")

\* What keeps a room connecting: the connection failed or was lost, the
\* application or the server ended it, the server refused the token before (Init
\* then does nothing), or a write failed, as the one of a ping does that hits the
\* session while Init is setting it up.
JoinFailed ==
    /\ cur # 0
    /\ \/ phase[cur] = "over"
       \/ doDisconnect[cur] \/ farewell[cur]
       \/ answer[cur] = "error"
       \/ stuck[cur]

\* A room that is left connecting by Join waits for something that can come: the
\* current session is being connected, or it reads and is owed the "40", the
\* token or the answer to it, and the signaling's state_ says which.  Otherwise
\* the join has failed, or a replaced session that was told "41" still has a
\* handler: its late disconnect_callback_ has undone a join that had succeeded,
\* or its ProcessDisconnect was interrupted.
JoinUnderWay ==
    roomState = "kConnecting" /\ user = "idle" /\ ended = "no" =>
        \/ cur # 0 /\ phase[cur] = "connecting" /\ sigState = "kConnecting"
        \/ /\ cur # 0 /\ phase[cur] = "read" /\ closes[cur] = 0 /\ answer[cur] = "none"
           /\ \/ ~hello[cur] /\ sigState = "kConnecting"
              \/ (tokens[cur] = 1 \/ at[cur] = "token") /\ sigState = "kConnected"
        \/ JoinFailed
        \/ \E s \in Sessions : s < cur /\ farewell[s] /\ Held(s)

\* With a server that answers, JoinFailed lists the only ways in which Join can
\* leave the room connecting, except for an interrupted ProcessDisconnect.  In
\* every other case the room gets its answer.
JoinEnds ==
    ServerFairness =>
        (roomState = "kConnecting" ~>
            \/ roomState # "kConnecting" \/ ended # "no" \/ user = "gone"
            \/ JoinFailed \/ interrupted # {})

\* The comments of RoomEvent name 'room-disconnected' for the user who has been
\* disconnected and 'room-error' for a connection that was not possible: once
\* the session is over, or could not be set up, the room says so.
SessionEndIsShown ==
    (cur # 0 /\ phase[cur] = "over") ~>
        roomState = "kDisconnected" \/ ended # "no" \/ user = "gone"
=============================================================================
