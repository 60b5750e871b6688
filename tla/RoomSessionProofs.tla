------------------------- MODULE RoomSessionProofs -------------------------
(***************************************************************************)
(* Proofs about RoomSession, for any number of sessions that follow one    *)
(* another.                                                                *)
(*                                                                         *)
(* That a replaced session is mute is not inductive: it rests on what the  *)
(* signaling's state_ says about the current session at the moment Init    *)
(* tests it (Ending).  Why a session could be replaced at all is told by   *)
(* what the server has sent (Causes), and who still holds it by            *)
(* OldHandlers.  What goes wrong after an interrupted ProcessDisconnect is *)
(* bounded by InterruptedFacts: the session was told "41", and it holds    *)
(* itself until it ends the process.                                       *)
(***************************************************************************)
EXTENDS RoomSession, TLAPS

\* The server has said "41" to session s or to one before it.
FarewellBy(s) == \E r \in Sessions : r <= s /\ farewell[r]

\* The ProcessDisconnect of session s or of one before it was interrupted.
CutBy(s) == \E r \in interrupted : r <= s

\* A session that has not been created is untouched.
Unused ==
    \A s \in Sessions : s > cur =>
        /\ phase[s] = "none" /\ at[s] = "idle" /\ closes[s] = 0 /\ tokens[s] = 0
        /\ ~doDisconnect[s] /\ ~sending[s] /\ ~farewell[s]

\* Only the session that Init is setting up is new.
SettingUp ==
    /\ user = "callbacks" => cur # 0 /\ phase[cur] = "new"
    /\ \A s \in Sessions : phase[s] = "new" => s = cur /\ user = "callbacks"

\* Where the thread of a session can be, and what it has received.
PlaceFacts(s) ==
    /\ phase[s] \in {"none", "new", "connecting"} =>
         at[s] = "idle" /\ ~hello[s] /\ answer[s] = "none"
    /\ at[s] \in {"call", "token", "update", "dispose", "disconnect"} => phase[s] = "read"
    /\ at[s] = "callback" => phase[s] \in {"read", "closing"}
    /\ at[s] \in {"report", "return"} => phase[s] = "over"

MessageFacts(s) ==
    /\ at[s] \in {"update", "dispose", "disconnect", "callback"} => farewell[s]
    /\ at[s] = "token" \/ farewell[s] => hello[s]
    /\ answer[s] # "none" => tokens[s] > 0
    /\ at[s] = "token" => tokens[s] = 0 \/ \E r \in interrupted : r + 1 < s

\* connected_ of the current session follows its chain.
ConnectedFacts ==
    cur # 0 /\ user # "gone" /\ phase[cur] = "read" => connected[cur]

\* A session is closed by its own Dispose or by Leave, unless a session before it
\* was interrupted.
CloseFacts(s) ==
    /\ phase[s] = "closing" => doDisconnect[s]
    /\ closes[s] > 0 \/ phase[s] = "closed" => doDisconnect[s] \/ interrupted # {}
    /\ phase[s] = "new" /\ (closes[s] > 0 \/ doDisconnect[s]) => interrupted # {}

\* A signaling that is disconnected, and not being set up, has a current
\* session that is mute or on its way through Dispose.
Ending ==
    /\ cur # 0 /\ user \notin {"callbacks", "gone"} /\ interrupted = {}
    /\ sigState = "kDisconnect" \/ user = "session"
    => Mute(cur) \/ at[cur] \in {"dispose", "disconnect"}

\* An interrupted session was told "41"; it has been replaced, and holds itself.
InterruptedFacts ==
    \A r \in interrupted :
        r < cur /\ farewell[r] /\ at[r] # "token" /\ (ended = "no" => Held(r))

\* A replaced session that has a handler left had one when it was replaced.
OldHandlers == \A s \in Sessions : s < cur /\ Held(s) => s \in unfinished

\* Why a room could be joined again.
Cause(s) == answer[s] = "error" \/ FarewellBy(s)

Causes ==
    /\ \A s \in Sessions : s < cur => Cause(s)
    /\ cur # 0 /\ (roomState = "kDisconnected" \/ user \in {"init", "session"}) => Cause(cur)
    /\ cur # 0 /\ roomState = "kDisconnected" /\ user \in {"init", "session"} => FarewellBy(cur)

\* Before the first session there is nothing but the call of Init.
FirstJoin ==
    cur = 0 =>
        /\ sigState = "kDisconnect" /\ user # "callbacks"
        /\ user = "idle" => roomState = "kDisconnected"
        /\ user \in {"init", "session"} => roomState = "kConnecting"

Inv ==
    /\ TypeOK /\ OldSessionsMute /\ TokenOncePerSession /\ SelfJoinNeedsCause
    /\ Unused /\ SettingUp /\ ConnectedFacts /\ Ending
    /\ \A s \in Sessions : PlaceFacts(s) /\ MessageFacts(s) /\ CloseFacts(s)
    /\ InterruptedFacts /\ OldHandlers /\ FirstJoin /\ Causes

-----------------------------------------------------------------------------
(* Types.                                                                  *)

\* Every step keeps the types of the state.
LEMMA TypeStep == TypeOK /\ [Next]_vars => TypeOK'
<1> SUFFICES ASSUME TypeOK, [Next]_vars PROVE TypeOK'
    OBVIOUS
<1> USE DEF TypeOK, stateVars, chainVars, closeVars, writeVars, protocolVars, pingVars, history
<1>1. CASE Join \/ InitTest \/ UNCHANGED vars
    BY <1>1 DEF Join, InitTest, vars, RoomStates
<1>2. CASE InitSession
  <2>1. connected' \in [Sessions -> BOOLEAN]
      BY <1>2, Zenon DEF InitSession
  <2>2. phase' \in [Sessions -> Phases]
      BY <1>2, Zenon DEF InitSession, Phases
  <2>3. cur' \in 0 .. MaxSessions
      BY <1>2, RoomSessionAssumption DEF InitSession
  <2>4. interrupted' \subseteq Sessions /\ unfinished' \subseteq Sessions
      BY <1>2, Zenon DEF InitSession
  <2> QED
      BY <1>2, <2>1, <2>2, <2>3, <2>4, Zenon DEF InitSession
<1>3. CASE InitConnect
    BY <1>3, Zenon DEF InitConnect, SignalingStates, Phases
<1>4. CASE Leave
  <2>1. doDisconnect' \in [Sessions -> BOOLEAN]
      BY <1>4, Zenon DEF Leave, Disconnect
  <2>2. closes' \in [Sessions -> Nat]
    <3>1. \A t \in Sessions : closes[t] + 1 \in Nat
        OBVIOUS
    <3> QED
        BY <1>4, <3>1, Zenon DEF Leave, Disconnect
  <2>3. extras' \in Nat
      BY <1>4 DEF Leave, Extra
  <2> QED
      BY <1>4, <2>1, <2>2, <2>3, Zenon DEF Leave
<1>5. CASE Destroy
    BY <1>5, Zenon DEF Destroy
<1>6. CASE Ping
    BY <1>6 DEF Ping, UseRoom, Extra
<1>7. CASE SendPing
    BY <1>7, Zenon DEF SendPing, UseRoom, SendMsg
<1>8. ASSUME NEW s \in Sessions, ConnectEnds(s) PROVE TypeOK'
    BY <1>8, Zenon DEF ConnectEnds, ChainEnds, Go, Phases, Places
<1>9. ASSUME NEW s \in Sessions, OnReadError(s) PROVE TypeOK'
    BY <1>9 DEF OnReadError, ChainEnds, Go, Phases, Places
<1>10. ASSUME NEW s \in Sessions, OnSocketIoConnect(s) PROVE TypeOK'
    BY <1>10 DEF OnSocketIoConnect, Go, Places, SignalingStates
<1>11. ASSUME NEW s \in Sessions, OnInitTokenResponse(s) PROVE TypeOK'
    BY <1>11 DEF OnInitTokenResponse, Go, Places, RoomStates
<1>12. ASSUME NEW s \in Sessions, OnOtherMsg(s) PROVE TypeOK'
    BY <1>12 DEF OnOtherMsg, Go, Extra, Places
<1>13. ASSUME NEW s \in Sessions, ProcessDisconnect(s) PROVE TypeOK'
    BY <1>13 DEF ProcessDisconnect, Go, Places
<1>14. ASSUME NEW s \in Sessions, OnWebsocketDisconnect(s) PROVE TypeOK'
    BY <1>14 DEF OnWebsocketDisconnect, Go, UseRoom, Places, SignalingStates
<1>15. ASSUME NEW s \in Sessions, Return(s) PROVE TypeOK'
    BY <1>15 DEF Return, Go, DropReference, Places
<1>16. ASSUME NEW s \in Sessions, InitToken(s) PROVE TypeOK'
  <2>1. sending' \in [Sessions -> BOOLEAN]
      BY <1>16, Zenon DEF InitToken, SendMsg
  <2>2. tokens' \in [Sessions -> Nat]
    <3>1. \A t \in Sessions : tokens[t] + 1 \in Nat
        OBVIOUS
    <3> QED
        BY <1>16, <3>1, Zenon DEF InitToken
  <2> QED
      BY <1>16, <2>1, <2>2, Zenon DEF InitToken, Go, UseRoom, Places
<1>17. ASSUME NEW s \in Sessions, CallReturns(s) PROVE TypeOK'
    BY <1>17 DEF CallReturns, Go, UseRoom, Places
<1>18. ASSUME NEW s \in Sessions, UpdateState(s) PROVE TypeOK'
    BY <1>18 DEF UpdateState, Go, UseRoom, Places, SignalingStates
<1>19. ASSUME NEW s \in Sessions, Dispose(s) PROVE TypeOK'
    BY <1>19, Zenon DEF Dispose, AfterDispose, Go, UseRoom, Places
<1>20. ASSUME NEW s \in Sessions, DisposeDisconnects(s) PROVE TypeOK'
  <2>1. doDisconnect' \in [Sessions -> BOOLEAN] /\ need' \in [Sessions -> BOOLEAN]
      BY <1>20, Zenon DEF DisposeDisconnects, Disconnect, AfterDispose
  <2>2. closes' \in [Sessions -> Nat]
    <3>1. \A t \in Sessions : closes[t] + 1 \in Nat
        OBVIOUS
    <3> QED
        BY <1>20, <3>1, Zenon DEF DisposeDisconnects, Disconnect
  <2>3. phase' \in [Sessions -> Phases] /\ at' \in [Sessions -> Places]
      BY <1>20 DEF DisposeDisconnects, AfterDispose, Go, Places, Phases
  <2> QED
      BY <1>20, <2>1, <2>2, <2>3, Zenon DEF DisposeDisconnects, UseRoom
<1>21. ASSUME NEW s \in Sessions, DisconnectCallback(s) PROVE TypeOK'
    BY <1>21 DEF DisconnectCallback, Go, UseRoom, Places, RoomStates
<1>22. ASSUME NEW s \in Sessions, DoClose(s) PROVE TypeOK'
    BY <1>22 DEF DoClose, DropReference, Phases
<1>23. ASSUME NEW s \in Sessions, OnWrite(s) PROVE TypeOK'
  <2>1. sending' \in [Sessions -> BOOLEAN] /\ stuck' \in [Sessions -> BOOLEAN]
      BY <1>23, Zenon DEF OnWrite
  <2>2. extras' \in Nat
      BY <1>23 DEF OnWrite, Extra
  <2> QED
      BY <1>23, <2>1, <2>2, Zenon DEF OnWrite, DropReference
<1> QED
    BY <1>1, <1>2, <1>3, <1>4, <1>5, <1>6, <1>7, <1>8, <1>9, <1>10, <1>11, <1>12, <1>13, <1>14,
       <1>15, <1>16, <1>17, <1>18, <1>19, <1>20, <1>21, <1>22, <1>23, Zenon DEF Next, Continue

-----------------------------------------------------------------------------
(* Sessions and the places of their threads.                               *)

\* The initial state satisfies the invariant.
LEMMA InitInv == Init => Inv
<1> SUFFICES ASSUME Init PROVE Inv
    OBVIOUS
<1> USE RoomSessionAssumption DEF Init
<1>1. TypeOK
    BY DEF TypeOK, RoomStates, SignalingStates, Phases, Places, Sessions
<1>2. Unused /\ OldSessionsMute /\ TokenOncePerSession
    BY DEF Unused, OldSessionsMute, TokenOncePerSession, Sessions
<1>3. SelfJoinNeedsCause /\ SettingUp /\ ConnectedFacts /\ Ending /\ InterruptedFacts
    BY DEF SelfJoinNeedsCause, SettingUp, ConnectedFacts, Ending, InterruptedFacts
<1>4. \A s \in Sessions : PlaceFacts(s) /\ MessageFacts(s) /\ CloseFacts(s)
    BY DEF PlaceFacts, MessageFacts, CloseFacts
<1>5. OldHandlers /\ Causes /\ FirstJoin
    BY DEF OldHandlers, Causes, FirstJoin, Sessions
<1> QED
    BY <1>1, <1>2, <1>3, <1>4, <1>5 DEF Inv

\* Only the current session, or one from an interrupted ProcessDisconnect on, is
\* being connected, reads, or runs a handler that acts on the shared state.
LEMMA Active ==
    ASSUME Inv, NEW s \in Sessions,
           phase[s] \in {"connecting", "read"} \/ at[s] \notin {"idle", "callback", "return"}
    PROVE  s <= cur /\ (s < cur => CutBy(s))
<1>1. s \in Nat /\ cur \in Nat
    BY DEF Inv, TypeOK, Sessions
<1>2. ~Mute(s)
    BY DEF Mute, Inv, TypeOK
<1>3. ~(s > cur)
    BY DEF Inv, Unused
<1> QED
    BY <1>1, <1>2, <1>3 DEF Inv, OldSessionsMute, CutBy

\* Only Init replaces the session.
LEMMA CurStays == [Next]_vars => InitSession \/ cur' = cur
    BY Zenon DEF Next, Continue, Join, InitTest, InitConnect, Leave, Destroy, Ping, SendPing, vars,
       ConnectEnds, OnReadError, OnSocketIoConnect, OnInitTokenResponse, OnOtherMsg,
       ProcessDisconnect, OnWebsocketDisconnect, Return, InitToken, CallReturns, UpdateState,
       Dispose, DisposeDisconnects, DisconnectCallback, DoClose, OnWrite

\* The sessions that were interrupted, or had a handler left, are noted by Init.
LEMMA HistoryStays == [Next]_vars => InitSession \/ UNCHANGED history
    BY Zenon DEF Next, Continue, Join, InitTest, InitConnect, Leave, Destroy, Ping, SendPing, vars,
       ConnectEnds, OnReadError, OnSocketIoConnect, OnInitTokenResponse, OnOtherMsg,
       ProcessDisconnect, OnWebsocketDisconnect, Return, InitToken, CallReturns, UpdateState,
       Dispose, DisposeDisconnects, DisconnectCallback, DoClose, OnWrite

\* What else changes, and by which actions.
LEMMA UserStays ==
    [Next]_vars => \/ Join \/ InitTest \/ InitSession \/ InitConnect \/ Destroy
                   \/ user' = user
    BY Zenon DEF Next, Continue, Leave, Ping, SendPing, vars, ConnectEnds, OnReadError,
       OnSocketIoConnect, OnInitTokenResponse, OnOtherMsg, ProcessDisconnect, OnWebsocketDisconnect,
       Return, InitToken, CallReturns, UpdateState, Dispose, DisposeDisconnects, DisconnectCallback,
       DoClose, OnWrite

LEMMA StatesStay ==
    [Next]_vars => \/ Join \/ InitConnect
                   \/ \E t \in Sessions : \/ OnWebsocketDisconnect(t) \/ OnSocketIoConnect(t)
                                          \/ OnInitTokenResponse(t) \/ UpdateState(t)
                                          \/ DisconnectCallback(t)
                   \/ UNCHANGED stateVars
    BY Zenon DEF Next, Continue, InitTest, InitSession, Leave, Destroy, Ping, SendPing, vars,
       ConnectEnds, OnReadError, OnOtherMsg, ProcessDisconnect, Return, InitToken, CallReturns,
       Dispose, DisposeDisconnects, DoClose, OnWrite

LEMMA ProtocolStays ==
    [Next]_vars => \/ \E t \in Sessions : \/ OnSocketIoConnect(t) \/ InitToken(t)
                                          \/ OnInitTokenResponse(t) \/ ProcessDisconnect(t)
                   \/ UNCHANGED protocolVars
    BY Zenon DEF Next, Continue, Join, InitTest, InitSession, InitConnect, Leave, Destroy, Ping,
       SendPing, vars, ConnectEnds, OnReadError, OnOtherMsg, OnWebsocketDisconnect, Return,
       CallReturns, UpdateState, Dispose, DisposeDisconnects, DisconnectCallback, DoClose, OnWrite

\* Nothing touches a session before it is created.
LEMMA UnusedStep == Inv /\ [Next]_vars => Unused'
<1> SUFFICES ASSUME Inv, [Next]_vars, NEW s \in Sessions, s > cur'
             PROVE  /\ phase'[s] = "none" /\ at'[s] = "idle" /\ closes'[s] = 0 /\ tokens'[s] = 0
                    /\ ~doDisconnect'[s] /\ ~sending'[s] /\ ~farewell'[s]
    BY Zenon DEF Unused
<1>0. TypeOK /\ s \in Nat /\ cur \in Nat
    BY DEF Inv, TypeOK, Sessions
<1> USE DEF stateVars, chainVars, closeVars, writeVars, protocolVars, pingVars, history
<1>1. CASE InitSession
  <2>1. s # cur + 1 /\ s > cur
      BY <1>0, <1>1 DEF InitSession
  <2> QED
      BY <1>0, <1>1, <2>1, Zenon DEF InitSession, Inv, Unused, TypeOK
<1>2. CASE cur' = cur
  <2>1. /\ phase[s] = "none" /\ at[s] = "idle" /\ closes[s] = 0 /\ tokens[s] = 0
        /\ ~doDisconnect[s] /\ ~sending[s] /\ ~farewell[s] /\ s # cur
      BY <1>0, <1>2 DEF Inv, Unused
  <2> USE <1>0, <2>1 DEF TypeOK
  <2>2. CASE Join \/ InitTest \/ Destroy \/ Ping \/ UNCHANGED vars
      BY <2>2, Zenon DEF Join, InitTest, Destroy, Ping, vars
  <2>3. CASE InitConnect \/ Leave \/ SendPing
      BY <2>3, Zenon DEF InitConnect, Leave, Disconnect, SendPing, SendMsg
  <2>4. ASSUME NEW t \in Sessions, \/ ConnectEnds(t) \/ OnReadError(t)
                                   \/ OnWebsocketDisconnect(t) \/ Return(t)
        PROVE  /\ t # s /\ phase'[s] = phase[s] /\ at'[s] = at[s]
               /\ UNCHANGED <<closes, tokens, doDisconnect, sending, farewell>>
      BY <2>4 DEF ConnectEnds, OnReadError, ChainEnds, OnWebsocketDisconnect, Return, Go, At
  <2>5. ASSUME NEW t \in Sessions, \/ OnSocketIoConnect(t) \/ OnInitTokenResponse(t)
                                   \/ OnOtherMsg(t) \/ ProcessDisconnect(t)
        PROVE  /\ t # s /\ at'[s] = at[s] /\ farewell'[s] = farewell[s]
               /\ UNCHANGED <<phase, closes, tokens, doDisconnect, sending>>
      BY <2>5 DEF OnSocketIoConnect, OnInitTokenResponse, OnOtherMsg, ProcessDisconnect,
         CanRead, Go
  <2>6. ASSUME NEW t \in Sessions, \/ CallReturns(t) \/ UpdateState(t) \/ Dispose(t)
                                   \/ DisconnectCallback(t)
        PROVE  /\ t # s /\ at'[s] = at[s]
               /\ UNCHANGED <<phase, closes, tokens, doDisconnect, sending, farewell>>
      BY <2>6 DEF CallReturns, UpdateState, Dispose, DisconnectCallback, AfterDispose, Go, At
  <2>7. ASSUME NEW t \in Sessions, InitToken(t)
        PROVE  /\ t # s /\ at'[s] = at[s] /\ tokens'[s] = tokens[s] /\ sending'[s] = sending[s]
               /\ UNCHANGED <<phase, closes, doDisconnect, farewell>>
      BY <2>7 DEF InitToken, SendMsg, Go, At
  <2>8. ASSUME NEW t \in Sessions, DisposeDisconnects(t)
        PROVE  /\ t # s /\ at'[s] = at[s] /\ phase'[s] = phase[s] /\ closes'[s] = closes[s]
               /\ doDisconnect'[s] = doDisconnect[s]
               /\ UNCHANGED <<tokens, sending, farewell>>
      BY <2>8 DEF DisposeDisconnects, Disconnect, AfterDispose, Go, At
  <2>9. ASSUME NEW t \in Sessions, DoClose(t) \/ OnWrite(t)
        PROVE  /\ t # s /\ phase'[s] = phase[s] /\ closes'[s] = closes[s]
               /\ sending'[s] = sending[s] /\ UNCHANGED <<at, tokens, doDisconnect, farewell>>
      BY <2>9 DEF DoClose, OnWrite
  <2> HIDE DEF TypeOK
  <2> QED
      BY <1>2, <2>2, <2>3, <2>4, <2>5, <2>6, <2>7, <2>8, <2>9 DEF Next, Continue, InitSession
<1>3. InitSession \/ cur' = cur
    BY CurStays
<1> QED
    BY <1>1, <1>2, <1>3

\* A session is new only while Init is setting it up.
LEMMA SettingUpStep == Inv /\ [Next]_vars => SettingUp'
<1> SUFFICES ASSUME Inv, [Next]_vars PROVE SettingUp'
    OBVIOUS
<1>0. TypeOK /\ SettingUp /\ Unused /\ cur \in Nat
    BY DEF Inv, TypeOK
<1> USE <1>0 DEF TypeOK, stateVars, chainVars, closeVars, writeVars, protocolVars, pingVars, history
<1>1. CASE Join \/ InitTest \/ Leave \/ Destroy \/ Ping \/ SendPing \/ UNCHANGED vars
    BY <1>1 DEF Join, InitTest, Leave, Destroy, Ping, SendPing, vars, SettingUp
<1>2. CASE InitSession
  <2>1. /\ cur' = cur + 1 /\ cur' \in Sessions /\ user = "session" /\ user' = "callbacks"
        /\ phase' = [phase EXCEPT ![cur + 1] = "new"] /\ cur' # 0
      BY <1>2, RoomSessionAssumption DEF InitSession, Sessions
  <2> QED
      BY <2>1, Zenon DEF SettingUp
<1>3. CASE InitConnect
    BY <1>3, Zenon DEF InitConnect, SettingUp
<1>4. ASSUME NEW t \in Sessions, \/ OnSocketIoConnect(t) \/ OnInitTokenResponse(t)
                                 \/ OnOtherMsg(t) \/ ProcessDisconnect(t)
                                 \/ OnWebsocketDisconnect(t) \/ Return(t) \/ InitToken(t)
                                 \/ CallReturns(t) \/ UpdateState(t) \/ Dispose(t)
                                 \/ DisconnectCallback(t) \/ OnWrite(t)
      PROVE  SettingUp'
    BY <1>4, Zenon DEF OnSocketIoConnect, OnInitTokenResponse, OnOtherMsg, ProcessDisconnect,
       OnWebsocketDisconnect, Return, InitToken, CallReturns, UpdateState, Dispose,
       DisconnectCallback, OnWrite, SettingUp
<1>5. ASSUME NEW t \in Sessions, ConnectEnds(t) \/ OnReadError(t) PROVE SettingUp'
  <2>1. PICK p \in {"read", "over"} : phase' = [phase EXCEPT ![t] = p]
      BY <1>5, Zenon DEF ConnectEnds, OnReadError, ChainEnds
  <2>2. phase[t] # "new" /\ UNCHANGED <<cur, user>>
      BY <1>5 DEF ConnectEnds, OnReadError
  <2> QED
      BY <2>1, <2>2 DEF SettingUp
<1>6. ASSUME NEW t \in Sessions, DisposeDisconnects(t) PROVE SettingUp'
  <2>1. phase[t] = "read"
      BY <1>6 DEF Inv, PlaceFacts, DisposeDisconnects, At
  <2> QED
      BY <1>6, <2>1 DEF DisposeDisconnects, SettingUp
<1>7. ASSUME NEW t \in Sessions, DoClose(t) PROVE SettingUp'
    BY <1>7 DEF DoClose, SettingUp
<1> QED
    BY <1>1, <1>2, <1>3, <1>4, <1>5, <1>6, <1>7, Zenon DEF Next, Continue

\* Where the thread of a session is goes with its chain and its messages.
LEMMA PlaceStep == ASSUME Inv, [Next]_vars, NEW s \in Sessions PROVE PlaceFacts(s)'
<1>0. TypeOK /\ SettingUp /\ Unused /\ cur \in Nat /\ s \in Nat
    BY DEF Inv, TypeOK, Sessions
<1>p. PlaceFacts(s)
    BY DEF Inv
<1> USE <1>0, <1>p DEF TypeOK, PlaceFacts, stateVars, chainVars, closeVars, writeVars, protocolVars,
        pingVars, history
<1>1. CASE Join \/ InitTest \/ Leave \/ Destroy \/ Ping \/ SendPing \/ UNCHANGED vars
    BY <1>1, Zenon DEF Join, InitTest, Leave, Destroy, Ping, SendPing, vars
<1>2. CASE InitSession
  <2>1. CASE s = cur + 1
    <3>1. phase[s] = "none"
        BY <2>1 DEF Unused
    <3> QED
        BY <1>2, <2>1, <3>1 DEF InitSession
  <2>2. CASE s # cur + 1
      BY <1>2, <2>2, Zenon DEF InitSession
  <2> QED
      BY <2>1, <2>2
<1>3. CASE InitConnect
  <2>1. s = cur => phase[s] = "new"
      BY <1>3 DEF InitConnect, SettingUp
  <2> QED
      BY <1>3, <2>1 DEF InitConnect
<1>4. ASSUME NEW t \in Sessions, ConnectEnds(t) \/ OnReadError(t) PROVE PlaceFacts(s)'
    BY <1>4 DEF ConnectEnds, OnReadError, ChainEnds, Go, Idle
<1>5. ASSUME NEW t \in Sessions, OnSocketIoConnect(t) PROVE PlaceFacts(s)'
    BY <1>5 DEF OnSocketIoConnect, CanRead, Go
<1>6. ASSUME NEW t \in Sessions, OnInitTokenResponse(t) PROVE PlaceFacts(s)'
    BY <1>6 DEF OnInitTokenResponse, CanRead, Go
<1>7. ASSUME NEW t \in Sessions, OnOtherMsg(t) \/ ProcessDisconnect(t) PROVE PlaceFacts(s)'
    BY <1>7 DEF OnOtherMsg, ProcessDisconnect, CanRead, Go
<1>8. ASSUME NEW t \in Sessions, \/ OnWebsocketDisconnect(t) \/ Return(t) \/ InitToken(t)
                                 \/ CallReturns(t) \/ UpdateState(t) \/ DisconnectCallback(t)
      PROVE  PlaceFacts(s)'
    BY <1>8 DEF OnWebsocketDisconnect, Return, InitToken, CallReturns, UpdateState,
       DisconnectCallback, Go, At
<1>9. ASSUME NEW t \in Sessions, Dispose(t) PROVE PlaceFacts(s)'
    BY <1>9 DEF Dispose, AfterDispose, Go, At
<1>10. ASSUME NEW t \in Sessions, DisposeDisconnects(t) PROVE PlaceFacts(s)'
    BY <1>10 DEF DisposeDisconnects, AfterDispose, Go, At
<1>11. ASSUME NEW t \in Sessions, DoClose(t) \/ OnWrite(t) PROVE PlaceFacts(s)'
    BY <1>11 DEF DoClose, OnWrite, Idle
<1> HIDE <1>0, <1>p DEF TypeOK, PlaceFacts
<1> QED
    BY <1>1, <1>2, <1>3, <1>4, <1>5, <1>6, <1>7, <1>8, <1>9, <1>10, <1>11, Zenon
       DEF Next, Continue

\* A token is sent to another session only if a session before the one that
\* sends it was interrupted: an interrupted session has had its "40".
LEMMA TokenElsewhere ==
    ASSUME Inv, NEW t \in Sessions, at[t] = "token", t < cur, CutBy(t)
    PROVE  \E r \in interrupted : r + 1 < cur
<1>1. PICK r \in interrupted : r <= t
    BY DEF CutBy
<1>2. at[r] # "token" /\ r \in Nat /\ t \in Nat /\ cur \in Nat
    BY <1>1 DEF Inv, InterruptedFacts, TypeOK, Sessions
<1>3. r # t
    BY <1>2
<1> QED
    BY <1>1, <1>2, <1>3

\* The messages a session has received go with the place of its thread.
LEMMA MessageStep == ASSUME Inv, [Next]_vars, NEW s \in Sessions PROVE MessageFacts(s)'
<1>0. TypeOK /\ cur \in Nat /\ s \in Nat
    BY DEF Inv, TypeOK, Sessions
<1>p. MessageFacts(s)
    BY DEF Inv
<1> USE <1>0, <1>p DEF TypeOK, MessageFacts, stateVars, chainVars, closeVars, writeVars,
        protocolVars, pingVars, history
<1>1. CASE \/ Join \/ InitTest \/ InitConnect \/ Leave \/ Destroy \/ Ping \/ SendPing
           \/ UNCHANGED vars
    BY <1>1, Zenon DEF Join, InitTest, InitConnect, Leave, Destroy, Ping, SendPing, vars
<1>2. CASE InitSession
  <2>1. interrupted \subseteq interrupted' /\ UNCHANGED <<at, farewell, hello, answer, tokens>>
      BY <1>2, Zenon DEF InitSession
  <2> QED
      BY <2>1, Zenon
<1>3. ASSUME NEW t \in Sessions, ConnectEnds(t) \/ OnReadError(t)
      PROVE  MessageFacts(s)'
    BY <1>3 DEF ConnectEnds, OnReadError, ChainEnds, Go
<1>4. ASSUME NEW t \in Sessions, OnSocketIoConnect(t) PROVE MessageFacts(s)'
  <2>1. \/ tokens[t] <= 0
        \/ \E r \in interrupted : r + 1 < t
      BY <1>4 DEF OnSocketIoConnect, Inv, TokenOncePerSession
  <2>2. tokens[t] = 0 \/ \E r \in interrupted : r + 1 < t
      BY <2>1
  <2>3. /\ at' = [at EXCEPT ![t] = "token"] /\ hello' = [hello EXCEPT ![t] = TRUE]
        /\ UNCHANGED <<tokens, answer, farewell, interrupted>>
      BY <1>4 DEF OnSocketIoConnect, Go
  <2>4. CASE s = t
      BY <2>2, <2>3, <2>4
  <2>5. CASE s # t
      BY <2>3, <2>5, Zenon
  <2> QED
      BY <2>4, <2>5
<1>5. ASSUME NEW t \in Sessions, OnInitTokenResponse(t) \/ OnOtherMsg(t) PROVE MessageFacts(s)'
    BY <1>5 DEF OnInitTokenResponse, OnOtherMsg, Go
<1>6. ASSUME NEW t \in Sessions, ProcessDisconnect(t) PROVE MessageFacts(s)'
    BY <1>6 DEF ProcessDisconnect, Go
<1>7. ASSUME NEW t \in Sessions, \/ OnWebsocketDisconnect(t) \/ Return(t) \/ CallReturns(t)
                                 \/ UpdateState(t) \/ DisconnectCallback(t)
      PROVE  MessageFacts(s)'
    BY <1>7 DEF OnWebsocketDisconnect, Return, CallReturns, UpdateState, DisconnectCallback, Go, At
<1>8. ASSUME NEW t \in Sessions, Dispose(t) \/ DisposeDisconnects(t) PROVE MessageFacts(s)'
    BY <1>8 DEF Dispose, DisposeDisconnects, AfterDispose, Go, At
<1>9. ASSUME NEW t \in Sessions, DoClose(t) \/ OnWrite(t) PROVE MessageFacts(s)'
    BY <1>9, Zenon DEF DoClose, OnWrite
\* The token goes to another session only after an interrupted ProcessDisconnect.
<1>10. ASSUME NEW t \in Sessions, InitToken(t) PROVE MessageFacts(s)'
  <2>1. /\ at[t] = "token" /\ at' = [at EXCEPT ![t] = "idle"]
        /\ tokens' = IF connected[cur] THEN [tokens EXCEPT ![cur] = @ + 1] ELSE tokens
        /\ UNCHANGED <<hello, answer, farewell, interrupted>>
      BY <1>10 DEF InitToken, At, Go
  <2>2. t <= cur /\ (t < cur => CutBy(t))
      BY <2>1, Active
  <2>3. at'[s] = "token" /\ s = cur => t < cur
      BY <2>1, <2>2 DEF Sessions
  <2>4. t < cur => \E r \in interrupted : r + 1 < cur
      BY <2>1, <2>2, TokenElsewhere
  <2>5. tokens[s] > 0 => tokens'[s] > 0
      BY <2>1
  <2>6. at'[s] = at[s] \/ at'[s] = "idle"
      BY <2>1
  <2>7. at'[s] = "token" => tokens'[s] = 0 \/ \E r \in interrupted' : r + 1 < s
    <3>1. CASE s = cur
        BY <2>1, <2>3, <2>4, <3>1
    <3>2. CASE s # cur
        BY <2>1, <2>6, <3>2
    <3> QED
        BY <3>1, <3>2
  <2> QED
      BY <2>1, <2>5, <2>6, <2>7
<1> HIDE <1>0, <1>p DEF TypeOK, MessageFacts
<1> QED
    BY <1>1, <1>2, <1>3, <1>4, <1>5, <1>6, <1>7, <1>8, <1>9, <1>10, Zenon DEF Next, Continue

\* A session gets the token once, after its "40".
LEMMA TokenStep == Inv /\ [Next]_vars => TokenOncePerSession'
<1> SUFFICES ASSUME Inv, [Next]_vars, NEW s \in Sessions
             PROVE  \/ tokens'[s] <= (IF hello'[s] THEN 1 ELSE 0)
                    \/ \E r \in interrupted' : r + 1 < s
    BY Zenon DEF TokenOncePerSession
<1>0. TypeOK /\ cur \in Nat /\ s \in Nat
    BY DEF Inv, TypeOK, Sessions
<1>p. tokens[s] <= (IF hello[s] THEN 1 ELSE 0) \/ \E r \in interrupted : r + 1 < s
    BY DEF Inv, TokenOncePerSession
<1> USE DEF stateVars, chainVars, closeVars, writeVars, protocolVars, pingVars, history
<1>1. CASE InitSession
  <2>1. interrupted \subseteq interrupted' /\ UNCHANGED <<hello, tokens>>
      BY <1>1, Zenon DEF InitSession
  <2> QED
      BY <1>p, <2>1, Zenon
<1>2. ASSUME NEW t \in Sessions, OnSocketIoConnect(t)
      PROVE  UNCHANGED <<tokens, interrupted>> /\ (hello[s] => hello'[s])
    BY <1>0, <1>2, Zenon DEF OnSocketIoConnect, TypeOK
<1>3. ASSUME NEW t \in Sessions, InitToken(t)
      PROVE  \/ tokens'[s] <= (IF hello'[s] THEN 1 ELSE 0)
             \/ \E r \in interrupted' : r + 1 < s
  <2>1. /\ at[t] = "token" /\ UNCHANGED <<hello, interrupted>>
        /\ tokens' = IF connected[cur] THEN [tokens EXCEPT ![cur] = @ + 1] ELSE tokens
      BY <1>3 DEF InitToken, At
  <2>2. t <= cur /\ (t < cur => CutBy(t))
      BY <2>1, Active
  <2>3. t < cur => \E r \in interrupted : r + 1 < cur
      BY <2>1, <2>2, TokenElsewhere
  <2>4. hello[t] /\ (tokens[t] = 0 \/ \E r \in interrupted : r + 1 < t)
      BY <2>1 DEF Inv, MessageFacts
  <2>5. CASE s = cur /\ t = cur
      BY <1>0, <2>1, <2>4, <2>5 DEF TypeOK
  <2>6. CASE s = cur /\ t < cur
      BY <2>1, <2>3, <2>6
  <2>7. CASE s # cur
      BY <1>0, <1>p, <2>1, <2>7 DEF TypeOK
  <2> QED
      BY <1>0, <2>2, <2>5, <2>6, <2>7 DEF Sessions
<1>4. ASSUME ~InitSession, \A t \in Sessions : ~OnSocketIoConnect(t) /\ ~InitToken(t)
      PROVE  UNCHANGED <<hello, tokens, interrupted>>
    BY <1>4, HistoryStays, ProtocolStays, Zenon DEF OnInitTokenResponse, ProcessDisconnect
<1> QED
    BY <1>0, <1>p, <1>1, <1>2, <1>3, <1>4 DEF TypeOK

-----------------------------------------------------------------------------
(* Replaced sessions.                                                      *)

\* A mute session stays mute.
LEMMA MuteStays == ASSUME Inv, [Next]_vars, NEW s \in Sessions, Mute(s) PROVE Mute(s)'
<1>0. TypeOK /\ SettingUp /\ Unused /\ cur \in Nat /\ s \in Nat
    BY DEF Inv, TypeOK, Sessions
<1> USE <1>0 DEF TypeOK, Mute, stateVars, chainVars, closeVars, writeVars, protocolVars, pingVars,
        history
<1>1. CASE Join \/ InitTest \/ Destroy \/ Ping \/ SendPing \/ UNCHANGED vars
    BY <1>1, Zenon DEF Join, InitTest, Destroy, Ping, SendPing, vars
<1>2. CASE InitSession
  <2>1. s # cur + 1
      BY DEF Unused
  <2> QED
      BY <1>2, <2>1, Zenon DEF InitSession
<1>3. CASE InitConnect
  <2>1. s # cur
      BY <1>3 DEF InitConnect, SettingUp
  <2> QED
      BY <1>3, <2>1, Zenon DEF InitConnect
<1>4. CASE Leave
  <2>1. doDisconnect[s] => doDisconnect'[s]
      BY <1>4, Zenon DEF Leave, Disconnect
  <2> QED
      BY <1>4, <2>1, Zenon DEF Leave
<1>5. ASSUME NEW t \in Sessions, ConnectEnds(t) PROVE Mute(s)'
    BY <1>5 DEF ConnectEnds, ChainEnds, Go
<1>6. ASSUME NEW t \in Sessions, OnReadError(t) PROVE Mute(s)'
    BY <1>6 DEF OnReadError, ChainEnds, Reports, Go
<1>7. ASSUME NEW t \in Sessions, \/ OnSocketIoConnect(t) \/ OnInitTokenResponse(t)
                                 \/ OnOtherMsg(t) \/ ProcessDisconnect(t)
      PROVE  Mute(s)'
    BY <1>7 DEF OnSocketIoConnect, OnInitTokenResponse, OnOtherMsg, ProcessDisconnect, CanRead, Go
<1>8. ASSUME NEW t \in Sessions, \/ OnWebsocketDisconnect(t) \/ Return(t) \/ InitToken(t)
                                 \/ CallReturns(t) \/ UpdateState(t) \/ DisconnectCallback(t)
      PROVE  Mute(s)'
    BY <1>8 DEF OnWebsocketDisconnect, Return, InitToken, CallReturns, UpdateState,
       DisconnectCallback, Go, At
<1>9. ASSUME NEW t \in Sessions, Dispose(t) PROVE Mute(s)'
    BY <1>9 DEF Dispose, AfterDispose, Go, At
<1>10. ASSUME NEW t \in Sessions, DisposeDisconnects(t) PROVE Mute(s)'
  <2>1. doDisconnect[s] => doDisconnect'[s]
      BY <1>10, Zenon DEF DisposeDisconnects, Disconnect
  <2>2. t # s
      BY <1>10 DEF DisposeDisconnects, At
  <2>3. phase'[s] = phase[s] /\ at'[s] = at[s]
      BY <1>10, <2>2, Zenon DEF DisposeDisconnects, AfterDispose, Go
  <2> QED
      BY <2>1, <2>3, Zenon
<1>11. ASSUME NEW t \in Sessions, DoClose(t) \/ OnWrite(t) PROVE Mute(s)'
    BY <1>11 DEF DoClose, OnWrite
<1> HIDE <1>0 DEF TypeOK, Mute
<1> QED
    BY <1>1, <1>2, <1>3, <1>4, <1>5, <1>6, <1>7, <1>8, <1>9, <1>10, <1>11, Zenon
       DEF Next, Continue

\* Replacing a session leaves it mute or interrupted.
LEMMA OldStep == Inv /\ [Next]_vars => OldSessionsMute'
<1> SUFFICES ASSUME Inv, [Next]_vars, NEW s \in Sessions, s < cur'
             PROVE  Mute(s)' \/ \E r \in interrupted' : r <= s
    BY Zenon DEF OldSessionsMute
<1>0. cur \in Nat /\ s \in Nat /\ OldSessionsMute /\ Ending
    BY DEF Inv, TypeOK, Sessions
<1>1. interrupted \subseteq interrupted'
    BY HistoryStays DEF InitSession, history
<1>2. CASE s < cur
    BY <1>0, <1>1, <1>2, MuteStays, Zenon DEF OldSessionsMute
<1>3. CASE ~(s < cur)
  <2>1. InitSession
      BY <1>3, CurStays
  <2>2. s = cur /\ cur # 0 /\ user = "session"
      BY <1>0, <1>3, <2>1 DEF InitSession, Sessions
  <2>3. CASE interrupted # {}
    <3>1. PICK r \in interrupted : r < cur
        BY <2>3 DEF Inv, InterruptedFacts
    <3>2. r \in Nat
        BY DEF Inv, TypeOK, Sessions
    <3>3. r <= s
        BY <1>0, <2>2, <3>1, <3>2
    <3> QED
        BY <1>1, <3>3
  <2>4. CASE Mute(cur)
      BY <2>2, <2>4, MuteStays
  <2>5. CASE at[cur] \in {"dispose", "disconnect"}
    <3>1. s \in interrupted'
        BY <2>1, <2>2, <2>5 DEF InitSession
    <3> QED
        BY <1>0, <3>1
  <2> QED
      BY <1>0, <2>2, <2>3, <2>4, <2>5 DEF Ending
<1> QED
    BY <1>2, <1>3

\* connected_ of the current session is set before it reads.
LEMMA ConnectedStep == Inv /\ [Next]_vars => ConnectedFacts'
<1> SUFFICES ASSUME Inv, [Next]_vars, cur' # 0, user' # "gone", phase'[cur'] = "read"
             PROVE  connected'[cur']
    BY DEF ConnectedFacts
<1>0. TypeOK /\ SettingUp /\ cur \in Nat /\ (cur # 0 => cur \in Sessions)
    BY DEF Inv, TypeOK, Sessions
<1>p. ConnectedFacts
    BY DEF Inv
<1> USE <1>0 DEF TypeOK, stateVars, chainVars, closeVars, writeVars, protocolVars, pingVars, history
<1>1. CASE Join \/ InitTest \/ Leave \/ Ping \/ SendPing \/ UNCHANGED vars
    BY <1>p, <1>1, Zenon DEF Join, InitTest, Leave, Ping, SendPing, vars, ConnectedFacts
<1>2. CASE InitSession \/ InitConnect \/ Destroy
  <2>1. ~Destroy
      BY DEF Destroy
  <2>2. ~InitConnect
      BY DEF InitConnect
  <2>3. InitSession => cur + 1 \in Sessions
      BY RoomSessionAssumption DEF InitSession, Sessions
  <2> QED
      BY <1>2, <2>1, <2>2, <2>3 DEF InitSession
<1>3. ASSUME NEW t \in Sessions, ConnectEnds(t) PROVE connected'[cur']
    BY <1>p, <1>3 DEF ConnectEnds, ChainEnds, ConnectedFacts
<1>4. ASSUME NEW t \in Sessions, OnReadError(t) PROVE connected'[cur']
    BY <1>p, <1>4 DEF OnReadError, ChainEnds, ConnectedFacts
<1>5. ASSUME NEW t \in Sessions, \/ OnSocketIoConnect(t) \/ OnInitTokenResponse(t)
                                 \/ OnOtherMsg(t) \/ ProcessDisconnect(t)
                                 \/ OnWebsocketDisconnect(t) \/ Return(t) \/ InitToken(t)
                                 \/ CallReturns(t) \/ UpdateState(t) \/ Dispose(t)
                                 \/ DisconnectCallback(t) \/ OnWrite(t)
      PROVE  connected'[cur']
    BY <1>p, <1>5, Zenon DEF OnSocketIoConnect, OnInitTokenResponse, OnOtherMsg, ProcessDisconnect,
       OnWebsocketDisconnect, Return, InitToken, CallReturns, UpdateState, Dispose,
       DisconnectCallback, OnWrite, ConnectedFacts
<1>6. ASSUME NEW t \in Sessions, DisposeDisconnects(t) \/ DoClose(t) PROVE connected'[cur']
    BY <1>p, <1>6 DEF DisposeDisconnects, DoClose, ConnectedFacts
<1> HIDE <1>0 DEF TypeOK
<1> QED
    BY <1>1, <1>2, <1>3, <1>4, <1>5, <1>6, Zenon DEF Next, Continue

\* Who closes a session.
LEMMA CloseStep == ASSUME Inv, [Next]_vars, NEW s \in Sessions PROVE CloseFacts(s)'
<1>0. TypeOK /\ SettingUp /\ Unused /\ cur \in Nat /\ s \in Nat
    BY DEF Inv, TypeOK, Sessions
<1>p. CloseFacts(s)
    BY DEF Inv
<1> USE <1>0, <1>p DEF TypeOK, CloseFacts, stateVars, chainVars, closeVars, writeVars, protocolVars,
        pingVars, history
<1>1. CASE Join \/ InitTest \/ Destroy \/ Ping \/ SendPing \/ UNCHANGED vars
    BY <1>1, Zenon DEF Join, InitTest, Destroy, Ping, SendPing, vars
<1>2. CASE InitSession
  <2>0. interrupted \subseteq interrupted' /\ UNCHANGED <<doDisconnect, closes>>
      BY <1>2, Zenon DEF InitSession
  <2>1. CASE s = cur + 1
    <3>1. closes[s] = 0 /\ ~doDisconnect[s] /\ phase'[s] = "new"
        BY <1>2, <2>1 DEF InitSession, Unused
    <3> QED
        BY <2>0, <3>1
  <2>2. CASE s # cur + 1
    <3>1. phase'[s] = phase[s]
        BY <1>2, <2>2, Zenon DEF InitSession
    <3> QED
        BY <2>0, <3>1, Zenon
  <2> QED
      BY <2>1, <2>2
<1>3. CASE InitConnect
  <2>1. s = cur => phase[s] = "new"
      BY <1>3 DEF InitConnect, SettingUp
  <2> QED
      BY <1>3, <2>1 DEF InitConnect
<1>4. CASE Leave
  <2>1. phase[s] # "new"
      BY <1>4 DEF Leave, SettingUp
  <2> QED
      BY <1>4, <2>1 DEF Leave, Disconnect
<1>5. ASSUME NEW t \in Sessions, ConnectEnds(t) \/ OnReadError(t) PROVE CloseFacts(s)'
    BY <1>5 DEF ConnectEnds, OnReadError, ChainEnds
<1>6. ASSUME NEW t \in Sessions, \/ OnSocketIoConnect(t) \/ OnInitTokenResponse(t)
                                 \/ OnOtherMsg(t) \/ ProcessDisconnect(t)
                                 \/ OnWebsocketDisconnect(t) \/ Return(t) \/ InitToken(t)
                                 \/ CallReturns(t) \/ UpdateState(t) \/ Dispose(t)
                                 \/ DisconnectCallback(t) \/ OnWrite(t)
      PROVE  CloseFacts(s)'
    BY <1>6, Zenon DEF OnSocketIoConnect, OnInitTokenResponse, OnOtherMsg, ProcessDisconnect,
       OnWebsocketDisconnect, Return, InitToken, CallReturns, UpdateState, Dispose,
       DisconnectCallback, OnWrite
<1>7. ASSUME NEW t \in Sessions, DisposeDisconnects(t) PROVE CloseFacts(s)'
  <2>1. at[t] = "disconnect" /\ phase[t] = "read"
      BY <1>7 DEF DisposeDisconnects, At, Inv, PlaceFacts
  <2>2. t <= cur /\ (t < cur => CutBy(t))
      BY <2>1, Active
  <2>3. t # cur => interrupted # {}
      BY <2>2 DEF CutBy, Sessions
  <2>4. s = cur /\ phase[s] = "new" => interrupted # {}
      BY <2>1, <2>3
  <2>5. CASE s = cur
      BY <1>7, <2>4, <2>5 DEF DisposeDisconnects, Disconnect
  <2>6. CASE s # cur
    <3>1. phase' = phase \/ t = cur
        BY <1>7 DEF DisposeDisconnects
    <3>2. /\ phase'[s] = phase[s] /\ closes'[s] = closes[s]
          /\ doDisconnect'[s] = doDisconnect[s] /\ UNCHANGED interrupted
        BY <1>7, <2>6, <3>1 DEF DisposeDisconnects, Disconnect
    <3> QED
        BY <3>2, Zenon
  <2> QED
      BY <2>5, <2>6
<1>8. ASSUME NEW t \in Sessions, DoClose(t) PROVE CloseFacts(s)'
    BY <1>8 DEF DoClose
<1> HIDE <1>0, <1>p DEF TypeOK, CloseFacts
<1> QED
    BY <1>1, <1>2, <1>3, <1>4, <1>5, <1>6, <1>7, <1>8, Zenon DEF Next, Continue

\* The thread of a session that is on its way through Dispose closes it.
LEMMA DisposeGoesOn ==
    ASSUME Inv, [Next]_vars, cur' = cur, cur # 0, user # "gone", at[cur] \in {"dispose", "disconnect"}
    PROVE  Mute(cur)' \/ at'[cur] \in {"dispose", "disconnect"}
<1>0. TypeOK /\ cur \in Sessions /\ phase[cur] = "read"
    BY DEF Inv, TypeOK, PlaceFacts, Sessions
<1>1. connected[cur]
    BY <1>0 DEF Inv, ConnectedFacts
<1> USE <1>0 DEF TypeOK, stateVars, chainVars, closeVars, writeVars, protocolVars, pingVars, history
<1>2. ASSUME NEW t \in Sessions, Dispose(t) PROVE at'[cur] \in {"dispose", "disconnect"}
    BY <1>1, <1>2 DEF Dispose, AfterDispose, Go
<1>3. ASSUME NEW t \in Sessions, DisposeDisconnects(t)
      PROVE  Mute(cur)' \/ at'[cur] \in {"dispose", "disconnect"}
  <2>1. CASE t = cur
    <3>1. phase'[cur] = "closing" /\ at'[cur] \in {"idle", "callback"}
        BY <1>3, <2>1 DEF DisposeDisconnects, AfterDispose, Go
    <3>2. doDisconnect'[cur]
        BY <1>3, <2>1, Zenon DEF DisposeDisconnects, Disconnect
    <3> QED
        BY <3>1, <3>2 DEF Mute
  <2>2. CASE t # cur
      BY <1>3, <2>2 DEF DisposeDisconnects, AfterDispose, Go
  <2> QED
      BY <2>1, <2>2
<1>4. ASSUME NEW t \in Sessions, ConnectEnds(t) \/ OnReadError(t)
      PROVE  at'[cur] = at[cur]
    BY <1>4 DEF ConnectEnds, OnReadError, ChainEnds, Idle, Go
<1>5. ASSUME NEW t \in Sessions, \/ OnSocketIoConnect(t) \/ OnInitTokenResponse(t)
                                 \/ OnOtherMsg(t) \/ ProcessDisconnect(t)
      PROVE  at'[cur] = at[cur]
    BY <1>5 DEF OnSocketIoConnect, OnInitTokenResponse, OnOtherMsg, ProcessDisconnect, CanRead,
       Idle, Go
<1>6. ASSUME NEW t \in Sessions, \/ OnWebsocketDisconnect(t) \/ Return(t) \/ InitToken(t)
                                 \/ CallReturns(t) \/ UpdateState(t) \/ DisconnectCallback(t)
      PROVE  at'[cur] = at[cur]
    BY <1>6 DEF OnWebsocketDisconnect, Return, InitToken, CallReturns, UpdateState,
       DisconnectCallback, Go, At
<1>7. ASSUME \/ Join \/ InitTest \/ InitSession \/ InitConnect \/ Leave \/ Destroy \/ Ping
             \/ SendPing \/ UNCHANGED vars \/ \E t \in Sessions : DoClose(t) \/ OnWrite(t)
      PROVE  at' = at
    BY <1>7, Zenon DEF Join, InitTest, InitSession, InitConnect, Leave, Destroy, Ping, SendPing,
       vars, DoClose, OnWrite
<1> HIDE <1>0 DEF TypeOK
<1> QED
    BY <1>2, <1>3, <1>4, <1>5, <1>6, <1>7 DEF Next, Continue

\* What kDisconnect says about the current session.
LEMMA EndingStep == Inv /\ [Next]_vars => Ending'
<1> SUFFICES ASSUME Inv, [Next]_vars, cur' # 0, user' \notin {"callbacks", "gone"},
                    interrupted' = {}, sigState' = "kDisconnect" \/ user' = "session"
             PROVE  Mute(cur)' \/ at'[cur'] \in {"dispose", "disconnect"}
    BY Zenon DEF Ending, Mute
<1>0. TypeOK /\ cur' = cur /\ cur \in Sessions
  <2>1. ~InitSession
      BY DEF InitSession
  <2> QED
      BY <2>1, CurStays DEF Inv, TypeOK, Sessions
<1>1. user \notin {"callbacks", "gone"} /\ interrupted = {}
  <2>1. ~InitConnect /\ ~InitSession
      BY DEF InitConnect, InitSession, stateVars
  <2>2. interrupted = {}
      BY <2>1, HistoryStays DEF history
  <2>3. user \notin {"callbacks", "gone"}
      BY <2>1, UserStays DEF Join, InitTest, Destroy
  <2> QED
      BY <2>2, <2>3
<1>2. CASE sigState = "kDisconnect" \/ user = "session"
  <2>1. Mute(cur) \/ at[cur] \in {"dispose", "disconnect"}
      BY <1>0, <1>1, <1>2 DEF Inv, Ending, TypeOK, Sessions
  <2> QED
      BY <1>0, <1>1, <2>1, MuteStays, DisposeGoesOn DEF Mute
<1>3. CASE sigState # "kDisconnect" /\ user # "session"
  <2>1. PICK t \in Sessions : OnWebsocketDisconnect(t) \/ UpdateState(t)
      BY <1>1, <1>3, StatesStay, UserStays DEF Join, InitTest, InitSession, InitConnect, Destroy,
         OnSocketIoConnect, OnInitTokenResponse, DisconnectCallback, stateVars
  <2>2. at[t] \in {"report", "update"}
      BY <2>1 DEF OnWebsocketDisconnect, UpdateState, At
  <2>3. t <= cur /\ (t < cur => CutBy(t))
      BY <2>2, Active
  <2>4. t = cur
      BY <1>0, <1>1, <2>3 DEF CutBy, Sessions
  <2>5. CASE OnWebsocketDisconnect(t)
    <3>1. phase[cur] = "over" /\ at[cur] = "report"
        BY <2>4, <2>5 DEF OnWebsocketDisconnect, At, Inv, PlaceFacts
    <3> QED
        BY <1>0, <2>4, <2>5, <3>1 DEF OnWebsocketDisconnect, Go, Mute, TypeOK
  <2>6. CASE UpdateState(t)
      BY <1>0, <2>4, <2>6 DEF UpdateState, Go, TypeOK
  <2> QED
      BY <2>1, <2>5, <2>6
<1> QED
    BY <1>2, <1>3

\* Nothing happens after the end of the process, and what the server has said
\* is not forgotten.
LEMMA Monotone ==
    ASSUME Inv, [Next]_vars, NEW s \in Sessions
    PROVE  /\ ended' = "no" => ended = "no"
           /\ farewell[s] => farewell'[s]
           /\ answer[s] # "none" => answer'[s] = answer[s]
           /\ unfinished \subseteq unfinished' /\ interrupted \subseteq interrupted'
<1>0. TypeOK
    BY DEF Inv
<1> USE DEF stateVars, chainVars, closeVars, writeVars, protocolVars, pingVars, history
<1>1. ended' = "no" => ended = "no"
    BY Zenon DEF Next, Continue, InitSession, Join, InitTest, InitConnect, Leave, Destroy, Ping,
       SendPing, vars, ConnectEnds, OnReadError, OnSocketIoConnect, OnInitTokenResponse, OnOtherMsg,
       ProcessDisconnect, OnWebsocketDisconnect, Return, InitToken, CallReturns, UpdateState,
       Dispose, DisposeDisconnects, DisconnectCallback, DoClose, OnWrite, CanRead, Idle, At
<1>2. ASSUME NEW t \in Sessions, OnInitTokenResponse(t)
      PROVE  /\ answer[s] # "none" => answer'[s] = answer[s]
             /\ UNCHANGED farewell
    BY <1>0, <1>2 DEF OnInitTokenResponse, TypeOK
<1>3. ASSUME NEW t \in Sessions, ProcessDisconnect(t)
      PROVE  (farewell[s] => farewell'[s]) /\ UNCHANGED answer
    BY <1>0, <1>3, Zenon DEF ProcessDisconnect, TypeOK
<1>4. ASSUME \A t \in Sessions : ~OnInitTokenResponse(t) /\ ~ProcessDisconnect(t)
      PROVE  UNCHANGED <<farewell, answer>>
    BY <1>4, ProtocolStays, Zenon DEF OnSocketIoConnect, InitToken
<1>5. unfinished \subseteq unfinished' /\ interrupted \subseteq interrupted'
    BY HistoryStays DEF InitSession
<1> QED
    BY <1>1, <1>2, <1>3, <1>4, <1>5

\* A replaced session gets no new handler, and when the last one goes it ends
\* the process.
LEMMA HandlersStay ==
    ASSUME Inv, [Next]_vars, NEW s \in Sessions, s <= cur, s < cur'
    PROVE  (Held(s)' => Held(s)) /\ (Held(s) /\ ended' = "no" => Held(s)')
<1>0. TypeOK /\ SettingUp /\ PlaceFacts(s) /\ s \in Nat /\ cur \in Nat
    BY DEF Inv, TypeOK, Sessions
<1> USE <1>0 DEF TypeOK, Held, stateVars, chainVars, closeVars, writeVars, protocolVars, pingVars,
        history
<1>1. CASE InitSession
  <2>1. s # cur + 1
      OBVIOUS
  <2> QED
      BY <1>1, <2>1, Zenon DEF InitSession
<1>2. CASE cur' = cur
  <2>0. s # cur
      BY <1>2
  <2>1. CASE Join \/ InitTest \/ Destroy \/ Ping \/ UNCHANGED vars
      BY <2>1, Zenon DEF Join, InitTest, Destroy, Ping, vars
  <2>2. CASE InitConnect \/ Leave \/ SendPing
      BY <2>0, <2>2, Zenon DEF InitConnect, Leave, Disconnect, SendPing, SendMsg
  <2>3. ASSUME NEW t \in Sessions, \/ OnSocketIoConnect(t) \/ OnInitTokenResponse(t)
                                   \/ OnOtherMsg(t) \/ ProcessDisconnect(t)
        PROVE  (Held(s)' => Held(s)) /\ (Held(s) => Held(s)')
      BY <2>3 DEF OnSocketIoConnect, OnInitTokenResponse, OnOtherMsg, ProcessDisconnect, CanRead, Go
  <2>4. ASSUME NEW t \in Sessions, ConnectEnds(t) \/ OnReadError(t)
        PROVE  (Held(s)' => Held(s)) /\ (Held(s) => Held(s)')
      BY <2>4 DEF ConnectEnds, OnReadError, ChainEnds, Go
  <2>5. ASSUME NEW t \in Sessions, OnWebsocketDisconnect(t)
        PROVE  (Held(s)' => Held(s)) /\ (Held(s) => Held(s)')
      BY <2>5 DEF OnWebsocketDisconnect, At, Go
  <2>6. ASSUME NEW t \in Sessions, CallReturns(t) \/ UpdateState(t) \/ Dispose(t)
        PROVE  (Held(s)' => Held(s)) /\ (Held(s) => Held(s)')
      BY <2>6 DEF CallReturns, UpdateState, Dispose, AfterDispose, At, Go, PlaceFacts
  <2>7. ASSUME NEW t \in Sessions, DisconnectCallback(t)
        PROVE  (Held(s)' => Held(s)) /\ (Held(s) => Held(s)')
      BY <2>7 DEF DisconnectCallback, At, Go, PlaceFacts
  <2>8. ASSUME NEW t \in Sessions, InitToken(t)
        PROVE  (Held(s)' => Held(s)) /\ (Held(s) => Held(s)')
      BY <2>0, <2>8 DEF InitToken, SendMsg, At, Go, PlaceFacts
  <2>9. ASSUME NEW t \in Sessions, DisposeDisconnects(t)
        PROVE  (Held(s)' => Held(s)) /\ (Held(s) => Held(s)')
      BY <2>0, <2>9 DEF DisposeDisconnects, Disconnect, AfterDispose, At, Go, PlaceFacts
  <2>10. ASSUME NEW t \in Sessions, Return(t) \/ DoClose(t) \/ OnWrite(t)
         PROVE  (Held(s)' => Held(s)) /\ (Held(s) /\ ended' = "no" => Held(s)')
    <3>1. CASE t = s
      <4>1. Held(s)
          BY <2>10, <3>1 DEF Return, DoClose, OnWrite, At
      <4>2. Held(s)' \/ ended' \in {"self_join", "close_threw"}
          BY <2>0, <2>10, <3>1, Zenon DEF Return, DoClose, OnWrite, DropReference
      <4> QED
          BY <4>1, <4>2
    <3>2. CASE t # s
        BY <2>10, <3>2 DEF Return, DoClose, OnWrite, Go
    <3> QED
        BY <3>1, <3>2
  <2> HIDE <1>0 DEF TypeOK, Held
  <2>11. CASE InitSession
      BY <1>1, <2>11
  <2> QED
      BY <2>1, <2>2, <2>3, <2>4, <2>5, <2>6, <2>7, <2>8, <2>9, <2>10, <2>11 DEF Next, Continue
<1> QED
    BY <1>1, <1>2, CurStays

\* An interrupted session has been told "41" and keeps its handler.
LEMMA InterruptedStep == Inv /\ [Next]_vars => InterruptedFacts'
<1> SUFFICES ASSUME Inv, [Next]_vars, NEW r \in interrupted'
             PROVE  r < cur' /\ farewell'[r] /\ at'[r] # "token" /\ (ended' = "no" => Held(r)')
    BY Zenon DEF InterruptedFacts
<1>0. TypeOK /\ TypeOK' /\ cur \in Nat /\ r \in Sessions /\ r \in Nat
  <2>1. TypeOK /\ TypeOK'
      BY TypeStep, Zenon DEF Inv
  <2>2. cur \in 0 .. MaxSessions /\ interrupted' \subseteq Sessions
      BY <2>1, Zenon DEF TypeOK
  <2> QED
      BY <2>1, <2>2 DEF Sessions
<1> USE DEF stateVars, chainVars, closeVars, writeVars, protocolVars, pingVars, history
<1>1. CASE r \in interrupted
  <2>1. r < cur /\ farewell[r] /\ at[r] # "token" /\ (ended = "no" => Held(r)) /\ hello[r]
      BY <1>0, <1>1 DEF Inv, InterruptedFacts, MessageFacts
  <2>2. cur' = cur \/ cur' = cur + 1
      BY CurStays DEF InitSession
  <2>3. r < cur'
      BY <1>0, <2>1, <2>2
  <2>4. farewell'[r] /\ (ended' = "no" => ended = "no")
      BY <1>0, <2>1, Monotone
  <2>5. ended' = "no" => Held(r)'
      BY <1>0, <2>1, <2>3, <2>4, HandlersStay
  <2>6. at'[r] # "token"
    <3>1. ASSUME NEW t \in Sessions, OnSocketIoConnect(t) PROVE at'[r] = at[r]
        BY <1>0, <2>1, <3>1 DEF OnSocketIoConnect, Go, TypeOK
    <3>2. ASSUME \A t \in Sessions : ~OnSocketIoConnect(t)
          PROVE  at' = at \/ \E t \in Sessions, p \in Places \ {"token"} : at' = [at EXCEPT ![t] = p]
      <4>1. CASE \/ Join \/ InitTest \/ InitSession \/ InitConnect \/ Leave \/ Destroy \/ Ping
                 \/ SendPing \/ UNCHANGED vars
          BY <4>1, Zenon DEF Join, InitTest, InitSession, InitConnect, Leave, Destroy, Ping,
             SendPing, vars
      <4>2. ASSUME NEW t \in Sessions, \/ ConnectEnds(t) \/ OnReadError(t)
                                       \/ OnInitTokenResponse(t) \/ OnOtherMsg(t)
                                       \/ ProcessDisconnect(t)
            PROVE  \E p \in Places \ {"token"} : at' = [at EXCEPT ![t] = p]
          BY <4>2, Zenon DEF ConnectEnds, OnReadError, ChainEnds, OnInitTokenResponse, OnOtherMsg,
             ProcessDisconnect, Go, Places
      <4>3. ASSUME NEW t \in Sessions, \/ OnWebsocketDisconnect(t) \/ Return(t) \/ InitToken(t)
                                       \/ CallReturns(t) \/ UpdateState(t)
                                       \/ DisconnectCallback(t)
            PROVE  \E p \in Places \ {"token"} : at' = [at EXCEPT ![t] = p]
          BY <4>3 DEF OnWebsocketDisconnect, Return, InitToken, CallReturns, UpdateState,
             DisconnectCallback, Go, Places
      <4>4. ASSUME NEW t \in Sessions, Dispose(t) \/ DisposeDisconnects(t)
            PROVE  \E p \in Places \ {"token"} : at' = [at EXCEPT ![t] = p]
          BY <4>4 DEF Dispose, DisposeDisconnects, AfterDispose, Go, Places
      <4>5. ASSUME NEW t \in Sessions, DoClose(t) \/ OnWrite(t) PROVE at' = at
          BY <4>5, Zenon DEF DoClose, OnWrite
      <4> QED
          BY <3>2, <4>1, <4>2, <4>3, <4>4, <4>5, Zenon DEF Next, Continue
    <3> QED
        BY <1>0, <2>1, <3>1, <3>2 DEF TypeOK
  <2> QED
      BY <2>3, <2>4, <2>5, <2>6
<1>2. CASE r \notin interrupted
  <2>1. InitSession
      BY <1>2, HistoryStays DEF history
  <2>2. /\ r = cur /\ at[r] \in {"update", "dispose", "disconnect"} /\ cur' = cur + 1
        /\ UNCHANGED <<at, farewell>>
    <3>1. /\ cur' = cur + 1 /\ UNCHANGED <<at, farewell>>
          /\ interrupted' = interrupted \cup
               {s \in Sessions : s = cur /\ at[s] \in {"update", "dispose", "disconnect"}}
        BY <2>1, Zenon DEF InitSession
    <3>2. r \in {s \in Sessions : s = cur /\ at[s] \in {"update", "dispose", "disconnect"}}
        BY <1>2, <3>1
    <3> QED
        BY <3>1, <3>2
  <2>3. farewell[r]
      BY <1>0, <2>2 DEF Inv, MessageFacts
  <2> QED
      BY <1>0, <2>2, <2>3 DEF Held
<1> QED
    BY <1>1, <1>2

\* Only a handler that was there when the session was replaced holds it.
LEMMA OldHandlersStep == Inv /\ [Next]_vars => OldHandlers'
<1> SUFFICES ASSUME Inv, [Next]_vars, NEW s \in Sessions, s < cur', Held(s)'
             PROVE  s \in unfinished'
    BY Zenon DEF OldHandlers, Held
<1>0. cur \in Nat /\ s \in Nat /\ unfinished \subseteq unfinished'
  <2>1. cur \in 0 .. MaxSessions
      BY Zenon DEF Inv, TypeOK
  <2> QED
      BY <2>1, Monotone DEF Sessions
<1>1. s <= cur
    BY <1>0, CurStays DEF InitSession
<1>2. Held(s)
    BY <1>1, HandlersStay
<1>3. CASE s < cur
    BY <1>0, <1>2, <1>3 DEF Inv, OldHandlers
<1>4. CASE s = cur
    BY <1>0, <1>2, <1>4, CurStays DEF InitSession
<1> QED
    BY <1>0, <1>1, <1>3, <1>4

\* The last handler of a session that has been replaced.
LEMMA SelfJoinStep == Inv /\ [Next]_vars => SelfJoinNeedsCause'
<1> SUFFICES ASSUME Inv, [Next]_vars, ended' = "self_join", user' # "gone"
             PROVE  \E s \in unfinished' : Cause(s)'
    BY DEF SelfJoinNeedsCause, Cause, FarewellBy
<1> USE DEF stateVars, chainVars, closeVars, writeVars, protocolVars, pingVars, history
<1>1. CASE UNCHANGED vars
    BY <1>1, Zenon DEF Inv, SelfJoinNeedsCause, Cause, FarewellBy, vars
<1>2. CASE Next
  <2>1. PICK s \in Sessions : Return(s) \/ DoClose(s) \/ OnWrite(s)
      BY <1>2, Zenon DEF Next, Continue, InitSession, Join, InitTest, InitConnect, Leave, Destroy,
         UseRoom, Ping, SendPing, ConnectEnds, OnReadError, OnSocketIoConnect,
         OnInitTokenResponse, OnOtherMsg, ProcessDisconnect, OnWebsocketDisconnect, InitToken,
         CallReturns, UpdateState, Dispose, DisposeDisconnects, DisconnectCallback, CanRead, Idle,
         At
  <2>2. /\ s # cur /\ Held(s)
        /\ UNCHANGED <<user, answer, farewell, unfinished>>
      BY <2>1 DEF Return, DoClose, OnWrite, DropReference, Held, At
  <2>3. s \in Nat /\ cur \in Nat /\ Unused /\ OldHandlers /\ Causes
      BY DEF Inv, TypeOK, Sessions
  <2>4. s < cur
      BY <2>2, <2>3 DEF Unused, Held
  <2>5. s \in unfinished /\ Cause(s)
      BY <2>2, <2>3, <2>4 DEF OldHandlers, Causes
  <2> QED
      BY <2>2, <2>5 DEF Cause, FarewellBy
<1> QED
    BY <1>1, <1>2

\* Nothing but Join happens before the first session.
LEMMA FirstJoinStep == Inv /\ [Next]_vars => FirstJoin'
<1> SUFFICES ASSUME Inv, [Next]_vars, cur' = 0 PROVE FirstJoin'
    BY DEF FirstJoin
<1>0. TypeOK /\ Unused /\ FirstJoin /\ cur \in Nat
    BY DEF Inv, TypeOK
<1>1. cur = 0 /\ ~InitSession
    BY <1>0, CurStays DEF InitSession
<1>2. \A s \in Sessions : phase[s] = "none" /\ at[s] = "idle" /\ closes[s] = 0 /\ ~sending[s]
    BY <1>0, <1>1 DEF Unused, Sessions
<1>3. \A s \in Sessions : ~(\/ ConnectEnds(s) \/ OnReadError(s) \/ OnSocketIoConnect(s)
                             \/ OnInitTokenResponse(s) \/ OnOtherMsg(s) \/ ProcessDisconnect(s)
                             \/ DoClose(s) \/ OnWrite(s))
  <2> SUFFICES ASSUME NEW s \in Sessions
               PROVE  ~(\/ ConnectEnds(s) \/ OnReadError(s) \/ OnSocketIoConnect(s)
                        \/ OnInitTokenResponse(s) \/ OnOtherMsg(s) \/ ProcessDisconnect(s)
                        \/ DoClose(s) \/ OnWrite(s))
      OBVIOUS
  <2>1. phase[s] = "none" /\ ~(closes[s] > 0) /\ ~sending[s]
      BY <1>2
  <2>2. ~(ConnectEnds(s) \/ OnReadError(s) \/ DoClose(s) \/ OnWrite(s))
      BY <2>1 DEF ConnectEnds, OnReadError, DoClose, OnWrite
  <2>3. ~CanRead(s)
      BY <2>1 DEF CanRead
  <2>4. ~(\/ OnSocketIoConnect(s) \/ OnInitTokenResponse(s) \/ OnOtherMsg(s)
          \/ ProcessDisconnect(s))
      BY <2>3, Zenon DEF OnSocketIoConnect, OnInitTokenResponse, OnOtherMsg, ProcessDisconnect
  <2> QED
      BY <2>2, <2>4
<1>4. \A s \in Sessions : ~Continue(s)
  <2> SUFFICES ASSUME NEW s \in Sessions, Continue(s) PROVE FALSE
      OBVIOUS
  <2>1. at[s] # "idle"
      BY DEF Continue, OnWebsocketDisconnect, Return, InitToken, CallReturns, UpdateState, Dispose,
         DisposeDisconnects, DisconnectCallback, At
  <2> QED
      BY <1>2, <2>1, Zenon
<1> QED
    BY <1>0, <1>1, <1>3, <1>4 DEF FirstJoin, Next, Join, InitTest, InitConnect, Leave, Destroy, Ping,
       SendPing, vars, stateVars

\* What the server has said stays a cause.
LEMMA CauseStays ==
    ASSUME Inv, [Next]_vars, NEW s \in Sessions
    PROVE  (FarewellBy(s) => FarewellBy(s)') /\ (Cause(s) => Cause(s)')
<1>1. FarewellBy(s) => FarewellBy(s)'
    BY Monotone, Zenon DEF FarewellBy
<1>2. answer[s] = "error" => answer'[s] = "error"
    BY Monotone
<1> QED
    BY <1>1, <1>2, Zenon DEF Cause

\* The room is disconnected by a refused token of the current session, or after
\* a "41".
LEMMA RoomDisconnects ==
    ASSUME Inv, [Next]_vars, cur \in Sessions,
           roomState # "kDisconnected", roomState' = "kDisconnected"
    PROVE  (answer[cur] = "none" /\ answer'[cur] = "error") \/ FarewellBy(cur)
<1>0. cur \in Nat /\ TypeOK
    BY DEF Inv, TypeOK
<1>1. PICK t \in Sessions : OnInitTokenResponse(t) \/ DisconnectCallback(t)
    BY StatesStay DEF Join, InitConnect, OnWebsocketDisconnect, OnSocketIoConnect, UpdateState,
       stateVars
<1>2. CASE OnInitTokenResponse(t)
  <2>1. phase[t] = "read" /\ answer[t] = "none" /\ answer'[t] = "error"
      BY <1>0, <1>2 DEF OnInitTokenResponse, CanRead, TypeOK
  <2>2. t <= cur /\ (t < cur => CutBy(t))
      BY <2>1, Active
  <2>3. CASE t < cur
    <3>1. PICK r \in interrupted : r <= t
        BY <2>2, <2>3 DEF CutBy
    <3>2. r \in Sessions /\ r \in Nat /\ t \in Nat /\ farewell[r]
        BY DEF Inv, TypeOK, InterruptedFacts, Sessions
    <3> QED
        BY <1>0, <2>3, <3>1, <3>2 DEF FarewellBy
  <2>4. CASE t = cur
      BY <2>1, <2>4
  <2> QED
      BY <1>0, <2>2, <2>3, <2>4 DEF Sessions
<1>3. CASE DisconnectCallback(t)
  <2>1. at[t] = "callback"
      BY <1>3 DEF DisconnectCallback, At
  <2>2. farewell[t]
      BY <2>1 DEF Inv, MessageFacts
  <2>3. ~(t > cur)
      BY <2>1 DEF Inv, Unused
  <2> QED
      BY <1>0, <2>2, <2>3 DEF FarewellBy, Sessions
<1> QED
    BY <1>1, <1>2, <1>3

\* Why the room can be joined again.
LEMMA CausesStep == Inv /\ [Next]_vars => Causes'
<1> SUFFICES ASSUME Inv, [Next]_vars PROVE Causes'
    OBVIOUS
<1>0. /\ TypeOK /\ Causes /\ FirstJoin /\ cur \in Nat
      /\ (cur # 0 => cur \in Sessions) /\ cur \in 0 .. MaxSessions
    BY DEF Inv, TypeOK, Sessions
<1>1. CASE InitSession
  <2>1. /\ cur' = cur + 1 /\ cur' \in Sessions /\ user = "session" /\ user' = "callbacks"
        /\ UNCHANGED roomState
      BY <1>0, <1>1, RoomSessionAssumption DEF InitSession, Sessions, stateVars
  <2>2. ASSUME NEW s \in Sessions, s < cur' PROVE Cause(s)'
    <3>1. s < cur \/ (s = cur /\ cur # 0)
        BY <1>0, <2>1, <2>2 DEF Sessions
    <3>2. Cause(s)
        BY <1>0, <2>1, <3>1 DEF Causes
    <3> QED
        BY <3>2, CauseStays
  <2>3. ASSUME roomState' = "kDisconnected" PROVE FarewellBy(cur)'
    <3>1. cur # 0
        BY <1>0, <2>1, <2>3 DEF FirstJoin
    <3>2. FarewellBy(cur)
        BY <1>0, <2>1, <2>3, <3>1 DEF Causes
    <3>3. PICK r \in Sessions : r <= cur /\ farewell[r]
        BY <3>2 DEF FarewellBy
    <3>4. r <= cur' /\ farewell'[r]
        BY <1>0, <2>1, <3>3, Monotone DEF Sessions
    <3> QED
        BY <3>4 DEF FarewellBy
  <2> QED
      BY <2>1, <2>2, <2>3 DEF Causes, Cause
<1>2. CASE cur' = cur /\ ~InitSession
  <2>1. ASSUME NEW s \in Sessions, s < cur' PROVE Cause(s)'
      BY <1>0, <1>2, <2>1, CauseStays DEF Causes
  <2>2. ASSUME cur # 0 PROVE (FarewellBy(cur) => FarewellBy(cur)') /\ (Cause(cur) => Cause(cur)')
    <3>1. cur \in Sessions
        BY <1>0, <2>2
    <3> QED
        BY <1>2, <3>1, CauseStays DEF FarewellBy, Cause
  <2>3. ASSUME cur # 0, roomState' = "kDisconnected" PROVE Cause(cur)'
    <3>1. CASE roomState = "kDisconnected"
        BY <1>0, <2>2, <2>3, <3>1 DEF Causes
    <3>2. CASE roomState # "kDisconnected"
        BY <1>0, <1>2, <2>2, <2>3, <3>2, RoomDisconnects DEF Cause
    <3> QED
        BY <3>1, <3>2
  <2>4. user' \in {"init", "session"} =>
          \/ user \in {"init", "session"}
          \/ roomState = "kDisconnected" /\ roomState' # "kDisconnected"
      BY <1>2, UserStays DEF Join, InitTest, InitConnect, Destroy
  <2>5. ASSUME cur # 0, user' \in {"init", "session"} PROVE Cause(cur)'
      BY <1>0, <2>2, <2>4, <2>5 DEF Causes
  <2>6. ASSUME cur # 0, roomState' = "kDisconnected", user' \in {"init", "session"}
        PROVE  FarewellBy(cur)'
    <3>1. user \in {"init", "session"}
        BY <2>4, <2>6
    <3>2. FarewellBy(cur)
      <4>1. CASE roomState = "kDisconnected"
          BY <1>0, <2>6, <3>1, <4>1 DEF Causes
      <4>2. CASE roomState # "kDisconnected"
        <5>1. Cause(cur)
            BY <1>0, <2>6, <3>1 DEF Causes
        <5> QED
            BY <1>0, <2>6, <4>2, <5>1, RoomDisconnects DEF Cause
      <4> QED
          BY <4>1, <4>2
    <3> QED
        BY <2>2, <2>6, <3>2
  <2> QED
      BY <1>2, <2>1, <2>3, <2>5, <2>6 DEF Causes
<1> QED
    BY <1>1, <1>2, CurStays

-----------------------------------------------------------------------------
(* The theorems.                                                           *)

\* Every step of the room, of its sessions and of the worker preserves Inv.
LEMMA NextInv == Inv /\ [Next]_vars => Inv'
<1> SUFFICES ASSUME Inv, [Next]_vars PROVE Inv'
    OBVIOUS
<1>1. TypeOK'
    BY TypeStep DEF Inv
<1>2. (\A s \in Sessions : PlaceFacts(s) /\ MessageFacts(s) /\ CloseFacts(s))'
    BY PlaceStep, MessageStep, CloseStep
<1> QED
    BY <1>1, <1>2, OldStep, TokenStep, SelfJoinStep, UnusedStep, SettingUpStep, ConnectedStep,
       EndingStep, InterruptedStep, OldHandlersStep, FirstJoinStep, CausesStep DEF Inv

\* The types of the state of the room and its sessions, for any number of
\* sessions.
THEOREM TypeCorrect == Spec => []TypeOK
<1> QED BY InitInv, NextInv, PTL DEF Spec, Inv

\* However often the room is joined again after a loss, a "41" or a refusal,
\* a session that Init has replaced hands over no further message and reports
\* no loss, unless it was replaced in the middle of ProcessDisconnect, or a
\* session before it was.
THEOREM OldSessionsStayMute == Spec => []OldSessionsMute
<1> QED BY InitInv, NextInv, PTL DEF Spec, Inv

\* InitToken writes the token to each session at most once, after its "40"; an
\* exception takes an interrupted session that is not the last one replaced.
THEOREM OneTokenPerSession == Spec => []TokenOncePerSession
<1> QED BY InitInv, NextInv, PTL DEF Spec, Inv

\* ~WebsocketSession joins its own thread only after the end of the room, or
\* after a refused token or a "41", and then for a session that had a handler
\* left when it was replaced: a lost connection alone is no cause.
THEOREM SelfJoinHasCause == Spec => []SelfJoinNeedsCause
<1> QED BY InitInv, NextInv, PTL DEF Spec, Inv

\* OnJoinRoom makes the room kConnected only for the current session, as long as
\* no ProcessDisconnect is interrupted.
THEOREM JoinIsByCurrent == Spec => JoinedByCurrentSession
<1>1. Inv /\ [Next]_vars =>
        [roomState # "kConnected" /\ roomState' = "kConnected" =>
           \/ cur' = cur /\ answer[cur] = "none" /\ answer'[cur] = "success"
           \/ interrupted # {}]_vars
  <2> SUFFICES ASSUME Inv, [Next]_vars, roomState # "kConnected", roomState' = "kConnected",
                      interrupted = {}
               PROVE  cur' = cur /\ answer[cur] = "none" /\ answer'[cur] = "success"
    BY Zenon DEF vars
  <2>1. PICK s \in Sessions : OnInitTokenResponse(s)
    BY StatesStay DEF Join, InitConnect, OnWebsocketDisconnect, OnSocketIoConnect, UpdateState,
       DisconnectCallback, stateVars
  <2>2. s <= cur /\ (s < cur => CutBy(s))
    BY <2>1, Active DEF OnInitTokenResponse, CanRead
  <2>3. s = cur
    BY <2>2 DEF CutBy, Inv, TypeOK, Sessions
  <2> QED BY <2>1, <2>3 DEF Inv, TypeOK, OnInitTokenResponse
<1> QED BY <1>1, InitInv, NextInv, PTL DEF Spec, JoinedByCurrentSession

\* Sessions that outlive the room never call into it: the callbacks of the
\* last one are cleared, the others are mute.
THEOREM AbandonedForGood == Spec => AbandonedStaysSo
<1>1. Inv /\ [Next]_vars => [Abandoned => Abandoned']_vars
  <2> SUFFICES ASSUME Inv, Next, Abandoned PROVE Abandoned'
    OBVIOUS
  <2>0. TypeOK /\ user = "gone" /\ interrupted = {} /\ cur \in Nat
    BY DEF Abandoned, Inv, TypeOK
  <2>1. ASSUME NEW s \in Sessions, phase[s] \in {"connecting", "read"} PROVE Cleared(s)
    <3>1. s <= cur /\ (s < cur => CutBy(s))
        BY <2>1, Active
    <3> QED
        BY <2>0, <3>1 DEF CutBy, Cleared, Sessions
  <2>2. ASSUME NEW s \in Sessions, phase[s] = "closed" PROVE ~Reports(s)
    <3>1. s <= cur
        BY <2>0, <2>2 DEF Inv, Unused, Sessions
    <3>2. s < cur => doDisconnect[s]
        BY <2>0, <2>2 DEF Inv, OldSessionsMute, Mute
    <3> QED
        BY <2>0, <3>1, <3>2 DEF Reports, Cleared, Sessions
  <2> USE DEF stateVars, chainVars, closeVars, writeVars, protocolVars, pingVars, history
  <2>3. ~(Join \/ InitTest \/ InitSession \/ InitConnect \/ Leave \/ Destroy \/ Ping \/ SendPing)
    <3>1. user \notin {"idle", "init", "session", "callbacks"} /\ ~(loops > 0) /\ worker # "ping"
        BY DEF Abandoned
    <3> QED
        BY <3>1, Zenon DEF Join, InitTest, InitSession, InitConnect, Leave, Destroy, Ping, SendPing
  <2>4. ASSUME NEW s \in Sessions, ConnectEnds(s) PROVE Abandoned'
    <3>1. Cleared(s)
        BY <2>1, <2>4 DEF ConnectEnds
    <3> QED
        BY <2>0, <2>4, <3>1 DEF ConnectEnds, ChainEnds, Reports, Go, Abandoned, TypeOK
  <2>5. ASSUME NEW s \in Sessions, OnReadError(s) PROVE Abandoned'
    <3>1. ~Reports(s)
        BY <2>1, <2>2, <2>5, Zenon DEF OnReadError, Reports
    <3> QED
        BY <2>0, <2>5, <3>1 DEF OnReadError, ChainEnds, Go, Abandoned, TypeOK
  <2>6. ASSUME NEW s \in Sessions
        PROVE  ~(\/ OnSocketIoConnect(s) \/ OnInitTokenResponse(s) \/ OnOtherMsg(s)
                 \/ ProcessDisconnect(s))
    BY <2>1, Zenon DEF OnSocketIoConnect, OnInitTokenResponse, OnOtherMsg, ProcessDisconnect, CanRead
  <2>7. ASSUME NEW s \in Sessions
        PROVE  ~(\/ OnWebsocketDisconnect(s) \/ InitToken(s) \/ CallReturns(s) \/ UpdateState(s)
                 \/ Dispose(s) \/ DisposeDisconnects(s) \/ DisconnectCallback(s))
    BY Zenon DEF Abandoned, OnWebsocketDisconnect, InitToken, CallReturns, UpdateState, Dispose,
       DisposeDisconnects, DisconnectCallback, At
  <2>8. ASSUME NEW s \in Sessions, Return(s) PROVE Abandoned'
    BY <2>0, <2>8 DEF Return, Go, DropReference, Abandoned, TypeOK
  <2>9. ASSUME NEW s \in Sessions, DoClose(s) \/ OnWrite(s) PROVE Abandoned'
    BY <2>0, <2>9 DEF DoClose, OnWrite, DropReference, Abandoned
  <2> QED
    BY <2>3, <2>4, <2>5, <2>6, <2>7, <2>8, <2>9, Zenon DEF Next, Continue
<1> QED BY <1>1, InitInv, NextInv, PTL DEF Spec, AbandonedStaysSo

-----------------------------------------------------------------------------
(* What a room that is connecting waits for.                               *)

\* A replaced session that was told "41" has a handler left.
Leftover == \E s \in Sessions : s < cur /\ farewell[s] /\ Held(s)

\* A current session that has been set up and has not failed is where the
\* signaling's state_ says.
InStep ==
    cur # 0 /\ ended = "no" /\ user \in {"idle", "init"} /\ ~JoinFailed /\ ~Leftover =>
        /\ phase[cur] \in {"connecting", "read"}
        /\ sigState = IF hello[cur] THEN "kConnected" ELSE "kConnecting"
        /\ hello[cur] => tokens[cur] = 1 \/ at[cur] = "token"
        /\ answer[cur] = "success" => roomState = "kConnected"

\* A session that has failed stays so until it is replaced.
LEMMA FailedStays ==
    ASSUME Inv, [Next]_vars, cur' = cur, ~InitConnect, JoinFailed
    PROVE  JoinFailed'
<1>0. TypeOK /\ cur \in Sessions /\ ~InitSession
  <2>1. ~InitSession
      BY DEF InitSession, Inv, TypeOK
  <2> QED
      BY <2>1 DEF Inv, TypeOK, JoinFailed, Sessions
<1>1. (farewell[cur] => farewell'[cur]) /\ (answer[cur] = "error" => answer'[cur] = "error")
    BY <1>0, Monotone
<1> USE DEF stateVars, chainVars, closeVars, writeVars, protocolVars, pingVars, history
<1>2. doDisconnect[cur] => doDisconnect'[cur]
  <2>1. CASE Leave \/ \E t \in Sessions : DisposeDisconnects(t)
      BY <1>0, <2>1, Zenon DEF Leave, DisposeDisconnects, Disconnect, TypeOK
  <2>2. CASE ~(Leave \/ \E t \in Sessions : DisposeDisconnects(t))
      BY <1>0, <2>2, Zenon DEF Next, Continue, Join, InitTest, Destroy, Ping, SendPing, vars,
         ConnectEnds, OnReadError, OnSocketIoConnect, OnInitTokenResponse, OnOtherMsg,
         ProcessDisconnect, OnWebsocketDisconnect, Return, InitToken, CallReturns, UpdateState,
         Dispose, DisconnectCallback, DoClose, OnWrite
  <2> QED
      BY <2>1, <2>2
<1>3. stuck[cur] => stuck'[cur]
  <2>1. ASSUME NEW t \in Sessions, OnWrite(t) PROVE stuck[cur] => stuck'[cur]
      BY <1>0, <2>1, Zenon DEF OnWrite, TypeOK
  <2>2. CASE ~(\E t \in Sessions : OnWrite(t))
      BY <1>0, <2>2, Zenon DEF Next, Continue, Join, InitTest, Leave, Destroy, Ping, SendPing, vars,
         ConnectEnds, OnReadError, OnSocketIoConnect, OnInitTokenResponse, OnOtherMsg,
         ProcessDisconnect, OnWebsocketDisconnect, Return, InitToken, CallReturns, UpdateState,
         Dispose, DisposeDisconnects, DisconnectCallback, DoClose
  <2> QED
      BY <2>1, <2>2
<1>4. phase[cur] = "over" => phase'[cur] = "over"
  <2> SUFFICES ASSUME phase[cur] = "over" PROVE phase'[cur] = "over"
      OBVIOUS
  <2>1. ASSUME NEW t \in Sessions, ConnectEnds(t) \/ OnReadError(t) \/ DoClose(t)
        PROVE  phase'[cur] = "over"
      BY <1>0, <2>1 DEF ConnectEnds, OnReadError, ChainEnds, DoClose, TypeOK
  <2>2. ASSUME NEW t \in Sessions, DisposeDisconnects(t) PROVE phase'[cur] = "over"
    <3>1. phase[t] = "read"
        BY <2>2, Zenon DEF DisposeDisconnects, At, Inv, PlaceFacts
    <3> QED
        BY <1>0, <2>2, <3>1 DEF DisposeDisconnects, TypeOK
  <2>3. CASE \A t \in Sessions : ~(\/ ConnectEnds(t) \/ OnReadError(t) \/ DoClose(t)
                                   \/ DisposeDisconnects(t))
      BY <1>0, <2>3, Zenon DEF Next, Continue, Join, InitTest, Leave, Destroy, Ping, SendPing, vars,
         OnSocketIoConnect, OnInitTokenResponse, OnOtherMsg, ProcessDisconnect,
         OnWebsocketDisconnect, Return, InitToken, CallReturns, UpdateState, Dispose,
         DisconnectCallback, OnWrite
  <2> QED
      BY <2>1, <2>2, <2>3
<1> QED
    BY <1>1, <1>2, <1>3, <1>4 DEF JoinFailed

\* A handler that is left stays.
LEMMA LeftoverStays ==
    ASSUME Inv, [Next]_vars, ended' = "no", Leftover
    PROVE  Leftover'
<1>1. PICK s \in Sessions : s < cur /\ farewell[s] /\ Held(s)
    BY DEF Leftover
<1>2. s \in Nat /\ cur \in Nat
    BY DEF Inv, TypeOK, Sessions
<1>3. s < cur' /\ s <= cur
    BY <1>1, <1>2, CurStays DEF InitSession
<1>4. farewell'[s] /\ Held(s)'
    BY <1>1, <1>3, Monotone, HandlersStay
<1> QED
    BY <1>3, <1>4 DEF Leftover

\* The signaling's state_ keeps in step with the current session.
LEMMA InStepStep == Inv /\ InStep /\ [Next]_vars => InStep'
<1> DEFINE Where == /\ phase[cur] \in {"connecting", "read"}
                    /\ sigState = IF hello[cur] THEN "kConnected" ELSE "kConnecting"
                    /\ hello[cur] => tokens[cur] = 1 \/ at[cur] = "token"
                    /\ answer[cur] = "success" => roomState = "kConnected"
<1> SUFFICES ASSUME Inv, InStep, [Next]_vars, cur' # 0, ended' = "no", user' \in {"idle", "init"},
                    ~JoinFailed', ~Leftover'
             PROVE  Where'
    BY DEF InStep
<1>0. TypeOK /\ Unused /\ cur' = cur /\ cur \in Sessions /\ cur \in Nat
  <2>1. ~InitSession
      BY DEF InitSession
  <2> QED
      BY <2>1, CurStays DEF Inv, TypeOK, Sessions
<1>1. ended = "no" /\ ~Leftover
    BY <1>0, Monotone, LeftoverStays
<1>2. interrupted = {}
  <2> SUFFICES ASSUME NEW r \in interrupted PROVE FALSE
      OBVIOUS
  <2>1. r \in Sessions /\ r < cur /\ farewell[r] /\ Held(r)
      BY <1>1 DEF Inv, InterruptedFacts, TypeOK
  <2> QED
      BY <1>1, <2>1 DEF Leftover
<1> USE DEF stateVars, chainVars, closeVars, writeVars, protocolVars, pingVars, history
<1>3. CASE InitConnect
  <2>1. phase[cur] = "new"
      BY <1>3 DEF InitConnect, Inv, SettingUp
  <2>2. ~hello[cur] /\ answer[cur] = "none"
      BY <1>0, <2>1 DEF Inv, PlaceFacts
  <2>3. phase'[cur] = "connecting" /\ sigState' = "kConnecting" /\ UNCHANGED <<hello, answer>>
      BY <1>0, <1>3 DEF InitConnect, TypeOK
  <2> QED
      BY <1>0, <2>2, <2>3
<1>4. CASE ~InitConnect
  <2>1. ~JoinFailed
      BY <1>0, <1>4, FailedStays
  <2>2. user \in {"idle", "init"}
      BY <1>4, UserStays DEF Join, InitTest, InitSession, Destroy
  <2>3. Where
      BY <1>0, <1>1, <2>1, <2>2 DEF InStep, Sessions
  <2>4. /\ phase[cur] # "over" /\ ~doDisconnect[cur] /\ ~farewell[cur] /\ answer[cur] # "error"
        /\ phase'[cur] # "over" /\ ~farewell'[cur] /\ answer'[cur] # "error"
      BY <1>0, <2>1 DEF JoinFailed, Sessions
  \* Only the current session is active.
  <2>5. ASSUME NEW t \in Sessions,
               \/ phase[t] \in {"connecting", "read"}
               \/ at[t] \notin {"idle", "callback", "return"}
        PROVE  t = cur
    <3>1. t <= cur /\ (t < cur => CutBy(t))
        BY <2>5, Active
    <3> QED
        BY <1>0, <1>2, <3>1 DEF CutBy, Sessions
  <2>6. MessageFacts(cur) /\ PlaceFacts(cur) /\ CloseFacts(cur)
      BY <1>0 DEF Inv
  \* A step that leaves the current session and both states alone.
  <2>7. ASSUME UNCHANGED <<sigState, roomState>>, phase'[cur] = phase[cur],
               hello'[cur] = hello[cur], tokens'[cur] = tokens[cur],
               answer'[cur] = answer[cur], at'[cur] = at[cur]
        PROVE  Where'
      BY <1>0, <2>3, <2>7, Zenon
  <2>8. CASE \/ InitTest \/ Leave \/ Ping \/ SendPing \/ UNCHANGED vars
             \/ \E t \in Sessions : OnWrite(t)
      BY <2>7, <2>8, Zenon DEF InitTest, Leave, Ping, SendPing, vars, OnWrite
  <2>9. CASE Join
    <3>1. answer[cur] # "success" /\ UNCHANGED <<sigState, chainVars, protocolVars>>
        BY <2>3, <2>9 DEF Join
    <3> QED
        BY <1>0, <2>3, <3>1, Zenon
  <2>10. CASE InitSession \/ Destroy
      BY <1>0, <2>10 DEF InitSession, Destroy
  <2>11. ASSUME NEW t \in Sessions, ConnectEnds(t) PROVE Where'
    <3>1. t = cur /\ phase[cur] = "connecting"
        BY <2>5, <2>11 DEF ConnectEnds
    <3>2. phase'[cur] = "read" /\ UNCHANGED <<sigState, roomState, protocolVars>>
        BY <1>0, <2>4, <2>11, <3>1 DEF ConnectEnds, ChainEnds, TypeOK
    <3>3. ~hello[cur]
        BY <2>6, <3>1, Zenon DEF PlaceFacts
    <3> QED
        BY <1>0, <2>3, <3>2, <3>3
  <2>12. ASSUME NEW t \in Sessions, OnReadError(t) PROVE Where'
    <3>1. t # cur
        BY <1>0, <2>4, <2>12 DEF OnReadError, ChainEnds, TypeOK
    <3> QED
        BY <1>0, <2>7, <2>12, <3>1, Zenon DEF OnReadError, ChainEnds, Go, TypeOK
  <2>13. ASSUME NEW t \in Sessions, OnSocketIoConnect(t) PROVE Where'
    <3>1. t = cur /\ phase[cur] = "read" /\ ~hello[cur]
        BY <2>5, <2>13 DEF OnSocketIoConnect, CanRead
    <3>2. tokens[cur] = 0
        BY <1>0, <1>2, <3>1 DEF Inv, TokenOncePerSession, TypeOK
    <3>3. answer[cur] = "none"
        BY <2>6, <3>2 DEF MessageFacts
    <3>4. /\ sigState' = "kConnected" /\ hello'[cur] /\ at'[cur] = "token"
          /\ UNCHANGED <<phase, answer>>
        BY <1>0, <2>13, <3>1 DEF OnSocketIoConnect, Go, TypeOK
    <3> QED
        BY <1>0, <3>1, <3>3, <3>4
  <2>14. ASSUME NEW t \in Sessions, OnInitTokenResponse(t) PROVE Where'
    <3>1. t = cur /\ at[cur] = "idle"
        BY <2>5, <2>14 DEF OnInitTokenResponse, CanRead, Idle
    <3>2. roomState' = "kConnected" /\ UNCHANGED <<sigState, phase, hello, tokens>>
        BY <1>0, <2>4, <2>14, <3>1 DEF OnInitTokenResponse, TypeOK
    <3> QED
        BY <1>0, <2>3, <3>1, <3>2
  <2>15. ASSUME NEW t \in Sessions, OnOtherMsg(t) \/ CallReturns(t) PROVE Where'
    <3>1. at[cur] \in {"idle", "call"}
        BY <2>5, <2>15 DEF OnOtherMsg, CallReturns, CanRead, Idle, At
    <3>2. UNCHANGED <<sigState, roomState, phase, hello, tokens, answer>>
        BY <2>15, Zenon DEF OnOtherMsg, CallReturns
    <3> QED
        BY <1>0, <2>3, <3>1, <3>2
  <2>16. ASSUME NEW t \in Sessions, ProcessDisconnect(t) PROVE FALSE
    <3>1. t = cur
        BY <2>5, <2>16 DEF ProcessDisconnect, CanRead
    <3> QED
        BY <1>0, <2>4, <2>16, <3>1 DEF ProcessDisconnect, TypeOK
  <2>17. ASSUME NEW t \in Sessions, \/ OnWebsocketDisconnect(t) \/ UpdateState(t) \/ Dispose(t)
                                    \/ DisposeDisconnects(t)
         PROVE  FALSE
    <3>1. at[t] \in {"report", "update", "dispose", "disconnect"}
        BY <2>17 DEF OnWebsocketDisconnect, UpdateState, Dispose, DisposeDisconnects, At
    <3>2. t = cur
        BY <2>5, <3>1
    <3> QED
        BY <2>4, <2>6, <3>1, <3>2 DEF PlaceFacts, MessageFacts
  <2>18. ASSUME NEW t \in Sessions, Return(t) PROVE Where'
    <3>1. t # cur
        BY <2>4, <2>6, <2>18 DEF Return, At, PlaceFacts
    <3> QED
        BY <1>0, <2>7, <2>18, <3>1, Zenon DEF Return, Go, TypeOK
  <2>19. ASSUME NEW t \in Sessions, InitToken(t) PROVE Where'
    <3>1. t = cur /\ at[cur] = "token"
        BY <2>5, <2>19 DEF InitToken, At
    <3>2. hello[cur] /\ tokens[cur] = 0 /\ phase[cur] = "read"
        BY <1>2, <2>6, <3>1 DEF MessageFacts, PlaceFacts
    <3>3. connected[cur]
        BY <1>0, <2>2, <3>2 DEF Inv, ConnectedFacts, Sessions
    <3>4. tokens'[cur] = 1 /\ UNCHANGED <<sigState, roomState, phase, hello, answer>>
        BY <1>0, <2>19, <3>2, <3>3 DEF InitToken, TypeOK
    <3> QED
        BY <1>0, <2>3, <3>4
  <2>20. ASSUME NEW t \in Sessions, DisconnectCallback(t) PROVE FALSE
    <3>1. at[t] = "callback"
        BY <2>20 DEF DisconnectCallback, At
    <3>2. farewell[t] /\ Held(t)
        BY <3>1 DEF Inv, MessageFacts, Held
    <3>3. t # cur /\ ~(t > cur)
        BY <1>0, <2>4, <3>1, <3>2 DEF Unused
    <3> QED
        BY <1>0, <1>1, <3>2, <3>3 DEF Leftover, Sessions
  <2>21. ASSUME NEW t \in Sessions, DoClose(t) PROVE Where'
    <3>1. t # cur
        BY <1>2, <2>4, <2>6, <2>21 DEF DoClose, CloseFacts
    <3> QED
        BY <1>0, <2>7, <2>21, <3>1, Zenon DEF DoClose, TypeOK
  <2> HIDE DEF Where
  <2> QED
      BY <1>4, <2>8, <2>9, <2>10, <2>11, <2>12, <2>13, <2>14, <2>15, <2>16, <2>17, <2>18, <2>19,
         <2>20, <2>21, Zenon DEF Next, Continue
<1> QED
    BY <1>3, <1>4

\* A join that has neither failed nor been undone by the "41" of a session that
\* was replaced is still under way, for any number of sessions: this is the part
\* of JoinEnds that does not depend on fairness.
THEOREM JoinNeverStalls == Spec => []JoinUnderWay
<1>1. Init => InStep
    BY DEF Init, InStep
<1>2. Inv /\ InStep => JoinUnderWay
  <2> SUFFICES ASSUME Inv, InStep, roomState = "kConnecting", user = "idle", ended = "no",
                      ~JoinFailed, ~Leftover
               PROVE  JoinUnderWay
      BY DEF JoinUnderWay, Leftover
  <2>1. cur # 0 /\ cur \in Sessions /\ TypeOK
      BY DEF Inv, FirstJoin, TypeOK, Sessions
  <2>2. interrupted = {}
    <3> SUFFICES ASSUME NEW r \in interrupted PROVE FALSE
        OBVIOUS
    <3>1. r \in Sessions /\ r < cur /\ farewell[r] /\ Held(r)
        BY DEF Inv, InterruptedFacts, TypeOK
    <3> QED
        BY <3>1 DEF Leftover
  <2>3. ~doDisconnect[cur] /\ answer[cur] # "error"
      BY <2>1 DEF JoinFailed
  <2>4. closes[cur] = 0
      BY <2>1, <2>2, <2>3 DEF Inv, CloseFacts, TypeOK
  <2>5. phase[cur] = "connecting" => ~hello[cur]
      BY <2>1 DEF Inv, PlaceFacts
  <2>6. answer[cur] = "none"
      BY <2>1, <2>3 DEF InStep, TypeOK
  <2> QED
      BY <2>1, <2>4, <2>5, <2>6 DEF InStep, JoinUnderWay
<1> QED
    BY <1>1, <1>2, InitInv, NextInv, InStepStep, PTL DEF Spec
=============================================================================
