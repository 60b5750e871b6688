-------------------------- MODULE WebsocketSession --------------------------
(***************************************************************************)
(* One WebsocketSession of messenger/websocket_session.cc: the chain of    *)
(* asynchronous operations that connects and reads, the handlers posted to *)
(* its io_context by other threads, and the write queue.                   *)
(*                                                                         *)
(* One io thread runs every handler, so a handler is one step.  SendMsg,   *)
(* Disconnect and the setters run on the threads of the callers.  What     *)
(* boost::beast reports to a completion handler is a free choice, except   *)
(* that a stream that is not open reads and writes nothing.                *)
(***************************************************************************)
EXTENDS Naturals, Sequences

CONSTANTS MaxMsgs,    \* bound: number of messages accepted by SendMsg
          MaxReads,   \* bound: number of messages received
          MaxPosted   \* bound: handlers waiting in the io_context

ASSUME WebsocketAssumption ==
    MaxMsgs \in Nat /\ MaxReads \in Nat /\ MaxPosted \in Nat

VARIABLES
    setup,         \* how far the owner, LicodeSignaling::Init, has got
    op,            \* the outstanding operation of the connection
    connected,     \* connected_
    doDisconnect,  \* do_disconnect_
    open,          \* ws_.is_open()
    posted,        \* handlers posted to the io_context, first to run first
    queue,         \* queue_
    writes,        \* number of outstanding async_write operations
    doomed,        \* the last async_write was begun on a stream not open
    writeFailed,   \* OnWrite has been given an error
    sent,          \* number of messages accepted by SendMsg
    early,         \* how many of them before the callbacks were all set
    wire,          \* messages written, in order
    received,      \* number of calls of receive_msg_callback_
    reports,       \* number of calls of abnormal_disconnect_callback_
    terminated     \* ws_.close threw in DoClose: the process has ended

connVars == <<setup, op, connected, doDisconnect, open>>
writeVars == <<queue, writes, doomed, writeFailed, wire>>
vars == <<connVars, writeVars, posted, sent, early, received, reports, terminated>>

-----------------------------------------------------------------------------
\* A posted handler: OnSend of message number m > 0, or DoClose.
DoCloseHandler == 0

Init ==
    /\ setup = "new"
    /\ op = "none"
    /\ connected = FALSE
    /\ doDisconnect = FALSE
    /\ open = FALSE
    /\ posted = <<>>
    /\ queue = <<>>
    /\ writes = 0
    /\ doomed = FALSE
    /\ writeFailed = FALSE
    /\ sent = 0
    /\ early = 0
    /\ wire = <<>>
    /\ received = 0
    /\ reports = 0
    /\ terminated = FALSE

-----------------------------------------------------------------------------
(* The owner sets the callbacks, in this order, and connects.              *)

\* The setter also sets connected_, before there is a connection.
SetOnReadyCallback ==
    /\ ~terminated
    /\ setup = "new"
    /\ setup' = "ready_callback"
    /\ connected' = TRUE
    /\ UNCHANGED <<op, doDisconnect, open, writeVars, posted, sent, early, received,
                   reports, terminated>>

\* A plausible bug: the setter leaves connected_ as SetOnReadyCallback set it.
SetOnAbnormalDisconnectCallbackOnly ==
    /\ ~terminated
    /\ setup = "ready_callback"
    /\ setup' = "callbacks"
    /\ UNCHANGED <<op, connected, doDisconnect, open, writeVars, posted, sent, early,
                   received, reports, terminated>>

\* Set last, this one takes connected_ back.
SetOnAbnormalDisconnectCallback ==
    /\ ~terminated
    /\ setup = "ready_callback"
    /\ setup' = "callbacks"
    /\ connected' = FALSE
    /\ UNCHANGED <<op, doDisconnect, open, writeVars, posted, sent, early, received,
                   reports, terminated>>

\* Returns at once if connected_; the owner calls it once.
Connect ==
    /\ ~terminated
    /\ setup = "callbacks"
    /\ ~connected
    /\ setup' = "started"
    /\ doDisconnect' = FALSE
    /\ connected' = FALSE
    /\ op' = "resolve"
    /\ UNCHANGED <<open, writeVars, posted, sent, early, received, reports, terminated>>

-----------------------------------------------------------------------------
(* Callers on other threads, and callbacks on the io thread.               *)

\* A plausible bug: messages are accepted whether or not the session is
\* connected.
SendMsgAlways ==
    /\ ~terminated
    /\ setup = "started"
    /\ sent < MaxMsgs
    /\ Len(posted) < MaxPosted
    /\ sent' = sent + 1
    /\ posted' = Append(posted, sent + 1)
    /\ UNCHANGED <<connVars, writeVars, early, received, reports, terminated>>

\* A message is dropped unless connected_, otherwise OnSend is posted.  The
\* keep-alive task of an earlier session may call this while the owner is
\* still setting the callbacks.
SendMsg ==
    /\ ~terminated
    /\ connected
    /\ sent < MaxMsgs
    /\ Len(posted) < MaxPosted
    /\ sent' = sent + 1
    /\ early' = IF setup = "started" THEN early ELSE early + 1
    /\ posted' = Append(posted, sent + 1)
    /\ UNCHANGED <<connVars, writeVars, received, reports, terminated>>

\* Disconnect, behind the IsConnected test of its caller Dispose.
Disconnect ==
    /\ ~terminated
    /\ connected
    /\ Len(posted) < MaxPosted
    /\ doDisconnect' = TRUE
    /\ posted' = Append(posted, DoCloseHandler)
    /\ UNCHANGED <<setup, op, connected, open, writeVars, sent, early, received,
                   reports, terminated>>

-----------------------------------------------------------------------------
(* The completion handlers of the connection.                              *)

\* Tells the owner, unless the owner asked for the disconnect.
ProcessDisconnect ==
    reports' = IF doDisconnect THEN reports ELSE reports + 1

OnResolve ==
    /\ ~terminated
    /\ op = "resolve"
    /\ \/ op' = "connect" /\ UNCHANGED reports
       \/ op' = "failed" /\ ProcessDisconnect
    /\ UNCHANGED <<setup, connected, doDisconnect, open, writeVars, posted, sent, early,
                   received, terminated>>

OnConnect ==
    /\ ~terminated
    /\ op = "connect"
    /\ \/ op' = "handshake" /\ UNCHANGED reports
       \/ op' = "failed" /\ ProcessDisconnect
    /\ UNCHANGED <<setup, connected, doDisconnect, open, writeVars, posted, sent, early,
                   received, terminated>>

OnHandshake ==
    /\ ~terminated
    /\ op = "handshake"
    /\ \/ /\ op' = "read"
          /\ open' = TRUE
          /\ connected' = TRUE
          /\ UNCHANGED reports
       \/ /\ op' = "failed"
          /\ ProcessDisconnect
          /\ UNCHANGED <<open, connected>>
    /\ UNCHANGED <<setup, doDisconnect, writeVars, posted, sent, early, received, terminated>>

\* A plausible bug: after an error the handler reads again.
OnReadAgain ==
    /\ ~terminated
    /\ op = "read"
    /\ \/ /\ open
          /\ received < MaxReads
          /\ received' = received + 1
          /\ UNCHANGED <<op, open, reports>>
       \/ /\ open' = FALSE
          /\ ProcessDisconnect
          /\ reports < 2
          /\ UNCHANGED <<op, received>>
    /\ UNCHANGED <<setup, connected, doDisconnect, writeVars, posted, sent, early,
                   terminated>>

\* Hands the message to the owner and reads again; an error ends the chain.
OnRead ==
    /\ ~terminated
    /\ op = "read"
    /\ \/ /\ open
          /\ received < MaxReads
          /\ received' = received + 1
          /\ UNCHANGED <<op, open, reports>>
       \/ /\ op' = "lost"
          /\ open' = FALSE
          /\ ProcessDisconnect
          /\ UNCHANGED received
    /\ UNCHANGED <<setup, connected, doDisconnect, writeVars, posted, sent, early,
                   terminated>>

-----------------------------------------------------------------------------
(* Posted handlers and the completion handler of async_write.              *)

\* ws_.async_write of the front of queue_.
BeginWrite ==
    /\ writes' = writes + 1
    /\ doomed' = ~open

\* A plausible bug: a write is begun whether or not one is outstanding.
OnSendAlways ==
    /\ ~terminated
    /\ posted # <<>>
    /\ Head(posted) # DoCloseHandler
    /\ posted' = Tail(posted)
    /\ queue' = Append(queue, Head(posted))
    /\ BeginWrite
    /\ UNCHANGED <<connVars, writeFailed, wire, sent, early, received, reports, terminated>>

\* Queues the message; begins a write only if it is alone in the queue.
OnSend ==
    /\ ~terminated
    /\ posted # <<>>
    /\ Head(posted) # DoCloseHandler
    /\ posted' = Tail(posted)
    /\ queue' = Append(queue, Head(posted))
    /\ IF Len(queue') > 1 THEN UNCHANGED <<writes, doomed>> ELSE BeginWrite
    /\ UNCHANGED <<connVars, writeFailed, wire, sent, early, received, reports, terminated>>

DoClose ==
    /\ ~terminated
    /\ posted # <<>>
    /\ Head(posted) = DoCloseHandler
    /\ posted' = Tail(posted)
    /\ open' = FALSE
    /\ \/ UNCHANGED terminated
       \/ open /\ terminated' = TRUE
    /\ UNCHANGED <<setup, op, connected, doDisconnect, writeVars, sent, early, received, reports>>

\* A plausible bug: an error pops the message and goes on with the next one.
OnWriteSkip ==
    /\ ~terminated
    /\ writes > 0
    /\ queue' = Tail(queue)
    /\ writes' = IF Tail(queue) # <<>> THEN writes ELSE writes - 1
    /\ doomed' = IF Tail(queue) # <<>> THEN ~open ELSE doomed
    /\ \/ ~doomed /\ wire' = Append(wire, Head(queue)) /\ UNCHANGED writeFailed
       \/ writeFailed' = TRUE /\ UNCHANGED wire
    /\ UNCHANGED <<connVars, posted, sent, early, received, reports, terminated>>

\* A plausible bug: the next message in the queue is not written.
OnWriteOnce ==
    /\ ~terminated
    /\ writes > 0
    /\ writes' = writes - 1
    /\ \/ /\ ~doomed
          /\ wire' = Append(wire, Head(queue))
          /\ queue' = Tail(queue)
          /\ UNCHANGED <<writeFailed, open>>
       \/ /\ writeFailed' = TRUE
          /\ open' = (open /\ doomed)
          /\ UNCHANGED <<wire, queue>>
    /\ UNCHANGED <<setup, op, connected, doDisconnect, doomed, posted, sent, early,
                   received, reports, terminated>>

\* A write that ends well pops its message and begins the next one.  An error
\* ends the writing for good: the message stays at the front of queue_, so
\* OnSend never finds it empty again.  An error of the connection also ends
\* the stream; one for want of a connection leaves it as it is.
OnWrite ==
    /\ ~terminated
    /\ writes > 0
    /\ \/ /\ ~doomed
          /\ wire' = Append(wire, Head(queue))
          /\ queue' = Tail(queue)
          /\ writes' = IF Tail(queue) # <<>> THEN writes ELSE writes - 1
          /\ doomed' = IF Tail(queue) # <<>> THEN ~open ELSE doomed
          /\ UNCHANGED <<writeFailed, open>>
       \/ /\ writeFailed' = TRUE
          /\ writes' = writes - 1
          /\ open' = (open /\ doomed)
          /\ UNCHANGED <<wire, queue, doomed>>
    /\ UNCHANGED <<setup, op, connected, doDisconnect, posted, sent, early, received,
                   reports, terminated>>

-----------------------------------------------------------------------------
Next ==
    \/ SetOnReadyCallback
    \/ SetOnAbnormalDisconnectCallback
    \/ Connect
    \/ SendMsg
    \/ Disconnect
    \/ OnResolve
    \/ OnConnect
    \/ OnHandshake
    \/ OnRead
    \/ OnSend
    \/ DoClose
    \/ OnWrite

Spec == Init /\ [][Next]_vars

\* The owner finishes Init, the io thread runs what is posted to it, and an
\* operation that has been begun completes: resolving and connecting fail
\* after a timeout at the latest, a write ends or fails.  A read may wait for
\* ever.
Fairness ==
    /\ WF_vars(SetOnReadyCallback)
    /\ WF_vars(SetOnAbnormalDisconnectCallback)
    /\ WF_vars(Connect)
    /\ WF_vars(OnResolve)
    /\ WF_vars(OnConnect)
    /\ WF_vars(OnHandshake)
    /\ WF_vars(OnSend)
    /\ WF_vars(DoClose)
    /\ WF_vars(OnWrite)

FairSpec == Spec /\ Fairness

-----------------------------------------------------------------------------
Ops == {"none", "resolve", "connect", "handshake", "read", "lost", "failed"}

TypeOK ==
    /\ setup \in {"new", "ready_callback", "callbacks", "started"}
    /\ op \in Ops
    /\ connected \in BOOLEAN
    /\ doDisconnect \in BOOLEAN
    /\ open \in BOOLEAN
    /\ posted \in Seq(Nat)
    /\ queue \in Seq(Nat)
    /\ writes \in {0, 1}
    /\ doomed \in BOOLEAN
    /\ writeFailed \in BOOLEAN
    /\ sent \in Nat
    /\ early \in Nat
    /\ wire \in Seq(Nat)
    /\ received \in Nat
    /\ reports \in {0, 1}
    /\ terminated \in BOOLEAN

\* websocket::stream allows one outstanding async_write: OnSend and OnWrite
\* keep exactly one going while queue_ holds messages, and none after an error
\* (from then on queue_ never becomes empty, so nothing is written again).
OneWriter == writes = IF queue # <<>> /\ ~writeFailed THEN 1 ELSE 0

\* A session whose stream is open can write: no write has failed, unless a
\* message was accepted while the callbacks were being set, when
\* SetOnReadyCallback has set connected_ on a session that is not connected.
\* Such a message fails, and queue_ stays blocked when the stream opens later.
OpenIsWritable == open /\ early = 0 => ~writeFailed

\* The owner hears of the end of a connection, or of the failure to make one,
\* exactly once, unless it asked for it with Disconnect: neither silence nor a
\* second report, and nothing is reported while the session still works.
ReportedOnce ==
    /\ reports <= 1
    /\ reports = 1 => op \in {"lost", "failed"}
    /\ op \in {"lost", "failed"} /\ ~doDisconnect => reports = 1

\* The session is a channel: messages posted by several threads reach the wire
\* in the order of acceptance, none twice and none after one that failed.
Channel == INSTANCE MessageChannel WITH delivered <- wire, broken <- writeFailed
ImplementsChannel == Channel!ChannelSpec

\* While the stream stays open an accepted message is written in the end (but
\* see OpenIsWritable for a queue that a message accepted too early blocks).
Flushed ==
    \A m \in 1 .. MaxMsgs :
        sent >= m ~> Len(wire) >= m \/ ~open \/ early > 0 \/ terminated

\* Connecting comes to an end: the session is reading or its owner is told.
ConnectEnds == setup = "new" ~> op = "read" \/ reports = 1
=============================================================================
