-------------------------- MODULE WebsocketProofs --------------------------
(***************************************************************************)
(* Proofs about WebsocketSession for any number of messages: the types,    *)
(* the single writer, the report of the connection's end, and that the     *)
(* session is a MessageChannel.                                            *)
(***************************************************************************)
EXTENDS WebsocketSession, TLAPS

\* TypeOK with the facts that make it inductive.  A session whose owner has
\* not called Connect has no operation outstanding; a write is outstanding
\* exactly while queue_ holds messages and none has failed; a failed message
\* stays in queue_; the end of the connection was reported unless asked for.
Sound ==
    /\ TypeOK
    /\ setup # "started" => op = "none"
    /\ OneWriter
    /\ writeFailed => queue # <<>>
    /\ ReportedOnce

\* A session is made unconnected, with empty queues.
LEMMA InitSound == Init => Sound
<1> SUFFICES ASSUME Init PROVE Sound
    OBVIOUS
<1>1. posted \in Seq(Nat) /\ queue \in Seq(Nat) /\ wire \in Seq(Nat)
    BY DEF Init
<1>2. /\ connected \in BOOLEAN /\ doDisconnect \in BOOLEAN /\ open \in BOOLEAN
      /\ doomed \in BOOLEAN /\ writeFailed \in BOOLEAN /\ terminated \in BOOLEAN
    BY Zenon DEF Init
<1>3. TypeOK
    BY <1>1, <1>2 DEF Init, TypeOK, Ops
<1>4. OneWriter /\ ReportedOnce
    BY DEF Init, OneWriter, ReportedOnce
<1> QED
    BY <1>3, <1>4 DEF Init, Sound

\* A queue to which a message was appended holds one, and more than one exactly
\* if it was not empty before.
LEMMA AppendFacts ==
    ASSUME NEW q \in Seq(Nat), NEW m \in Nat
    PROVE  /\ Append(q, m) \in Seq(Nat)
           /\ Append(q, m) # <<>>
           /\ Len(Append(q, m)) > 1 <=> q # <<>>
    OBVIOUS

\* No call of a user and no handler of the io thread breaks Sound.
LEMMA SoundStep == Sound /\ [Next]_vars => Sound'
<1> SUFFICES ASSUME Sound, [Next]_vars PROVE Sound'
    OBVIOUS
<1> USE DEF Sound, TypeOK, Ops
<1>1. CASE UNCHANGED vars
    BY <1>1 DEF vars, connVars, writeVars, OneWriter, ReportedOnce
<1>2. CASE SetOnReadyCallback
    BY <1>2 DEF SetOnReadyCallback, writeVars, OneWriter, ReportedOnce
<1>3. CASE SetOnAbnormalDisconnectCallback
    BY <1>3, Zenon DEF SetOnAbnormalDisconnectCallback, writeVars, OneWriter, ReportedOnce
<1>4. CASE Connect
    BY <1>4, Zenon DEF Connect, writeVars, OneWriter, ReportedOnce
<1>5. CASE SendMsg
  <2>1. posted' \in Seq(Nat) /\ sent' \in Nat /\ early' \in Nat
      BY <1>5 DEF SendMsg
  <2> QED
      BY <1>5, <2>1 DEF SendMsg, connVars, writeVars, OneWriter, ReportedOnce
<1>6. CASE Disconnect
  <2>1. posted' \in Seq(Nat)
      BY <1>6 DEF Disconnect, DoCloseHandler
  <2> QED
      BY <1>6, <2>1 DEF Disconnect, writeVars, OneWriter, ReportedOnce
<1>7. CASE OnResolve
    BY <1>7 DEF OnResolve, ProcessDisconnect, writeVars, OneWriter, ReportedOnce
<1>8. CASE OnConnect
    BY <1>8 DEF OnConnect, ProcessDisconnect, writeVars, OneWriter, ReportedOnce
<1>9. CASE OnHandshake
  <2>1. op' \in Ops /\ open' \in BOOLEAN /\ connected' \in BOOLEAN
      BY <1>9, Zenon DEF OnHandshake
  <2>2. reports' \in {0, 1} /\ ReportedOnce'
      BY <1>9 DEF OnHandshake, ProcessDisconnect, ReportedOnce
  <2>3. setup' # "started" => op' = "none"
      BY <1>9 DEF OnHandshake
  <2>4. UNCHANGED <<setup, doDisconnect, writeVars, posted, sent, early, received, terminated>>
      BY <1>9 DEF OnHandshake
  <2> QED
      BY <2>1, <2>2, <2>3, <2>4 DEF writeVars, OneWriter
<1>10. CASE OnRead
  <2>1. op' \in Ops /\ received' \in Nat
      BY <1>10 DEF OnRead
  <2>5. open' \in BOOLEAN
      BY <1>10, Zenon DEF OnRead
  <2>2. reports' \in {0, 1} /\ ReportedOnce'
      BY <1>10 DEF OnRead, ProcessDisconnect, ReportedOnce
  <2>3. setup' # "started" => op' = "none"
      BY <1>10 DEF OnRead
  <2>4. UNCHANGED <<setup, connected, doDisconnect, writeVars, posted, sent, early, terminated>>
      BY <1>10 DEF OnRead
  <2> QED
      BY <2>1, <2>2, <2>3, <2>4, <2>5 DEF writeVars, OneWriter
<1>11. CASE OnSend
  <2>5. /\ posted \in Seq(Nat) /\ posted # <<>> /\ posted' = Tail(posted)
        /\ queue \in Seq(Nat) /\ queue' = Append(queue, Head(posted))
      BY <1>11 DEF OnSend
  <2>6. posted' \in Seq(Nat) /\ Head(posted) \in Nat
      BY <2>5
  <2>1. /\ posted' \in Seq(Nat) /\ queue' \in Seq(Nat) /\ queue' # <<>>
        /\ Len(queue') > 1 <=> queue # <<>>
      BY <2>5, <2>6, AppendFacts, Zenon
  <2>2. doomed' \in BOOLEAN /\ writeFailed' = writeFailed
      BY <1>11, Zenon DEF OnSend, BeginWrite
  <2>3. CASE queue # <<>>
    <3>1. writes' = writes
        BY <1>11, <2>1, <2>3 DEF OnSend
    <3> QED
        BY <1>11, <2>1, <2>2, <2>3, <3>1 DEF OnSend, connVars, OneWriter, ReportedOnce
  <2>4. CASE queue = <<>>
    <3>1. writes' = 1 /\ ~writeFailed
        BY <1>11, <2>1, <2>4 DEF OnSend, BeginWrite, OneWriter
    <3> QED
        BY <1>11, <2>1, <2>2, <3>1 DEF OnSend, connVars, OneWriter, ReportedOnce
  <2> QED
      BY <2>3, <2>4
<1>12. CASE DoClose
  <2>1. posted' \in Seq(Nat)
      BY <1>12 DEF DoClose
  <2> QED
      BY <1>12, <2>1, Zenon DEF DoClose, writeVars, OneWriter, ReportedOnce
<1>13. CASE OnWrite
  <2>1. queue # <<>> /\ ~writeFailed /\ writes = 1
      BY <1>13 DEF OnWrite, OneWriter
  <2>2. Head(queue) \in Nat /\ Tail(queue) \in Seq(Nat) /\ Append(wire, Head(queue)) \in Seq(Nat)
      BY <2>1
  <2>3. /\ queue' \in Seq(Nat) /\ wire' \in Seq(Nat) /\ doomed' \in BOOLEAN
        /\ writeFailed' \in BOOLEAN /\ open' \in BOOLEAN
      BY <1>13, <2>2, Zenon DEF OnWrite
  <2>4. writes' \in {0, 1} /\ OneWriter' /\ (writeFailed' => queue' # <<>>)
    <3>1. CASE writeFailed' = TRUE /\ writes' = writes - 1 /\ UNCHANGED queue
        BY <2>1, <3>1 DEF OneWriter
    <3>2. CASE /\ queue' = Tail(queue) /\ UNCHANGED writeFailed
               /\ writes' = IF Tail(queue) # <<>> THEN writes ELSE writes - 1
        BY <2>1, <3>2 DEF OneWriter
    <3> QED
        BY <1>13, <3>1, <3>2, Zenon DEF OnWrite
  <2> QED
      BY <1>13, <2>3, <2>4 DEF OnWrite, ReportedOnce
<1> QED
    BY <1>1, <1>2, <1>3, <1>4, <1>5, <1>6, <1>7, <1>8, <1>9, <1>10, <1>11, <1>12,
       <1>13 DEF Next

\* The session keeps its types; in particular at most one async_write is ever
\* outstanding.
THEOREM TypeCorrect == Spec => []TypeOK
<1>1. Sound => TypeOK
    BY DEF Sound
<1> QED
    BY <1>1, InitSound, SoundStep, PTL DEF Spec

\* OnSend and OnWrite keep exactly one write going while there is something to
\* write, and none after an error.
THEOREM AlwaysOneWriter == Spec => []OneWriter
<1>1. Sound => OneWriter
    BY DEF Sound
<1> QED
    BY <1>1, InitSound, SoundStep, PTL DEF Spec

\* The owner is told of the end of the connection exactly once, unless it asked
\* for it.
THEOREM AlwaysReportedOnce == Spec => []ReportedOnce
<1>1. Sound => ReportedOnce
    BY DEF Sound
<1> QED
    BY <1>1, InitSound, SoundStep, PTL DEF Spec

-----------------------------------------------------------------------------
(* The session implements a channel.                                       *)

\* How many messages have left the io_context's list.
Taken == Len(wire) + Len(queue)

\* queue_ holds the messages that follow the written ones, in order.
QueueOrder == \A i \in 1 .. Len(queue) : queue[i] = Len(wire) + i

\* The handlers that are posted hold the messages not yet taken, ...
PostedRange ==
    \A i \in 1 .. Len(posted) : posted[i] # 0 => Taken < posted[i] /\ posted[i] <= sent

\* ... in order, with calls of DoClose anywhere among them, ...
PostedOrder ==
    \A i, j \in 1 .. Len(posted) :
        i < j /\ posted[i] # 0 /\ posted[j] # 0 => posted[i] < posted[j]

\* ... and all of them.
PostedAll ==
    \A m \in Nat : Taken < m /\ m <= sent => \E i \in 1 .. Len(posted) : posted[i] = m

Order == Taken <= sent /\ QueueOrder /\ PostedRange /\ PostedOrder /\ PostedAll

\* The first message that is posted is the one after those taken.
LEMMA NextPosted ==
    ASSUME Sound, Order, posted # <<>>, Head(posted) # DoCloseHandler
    PROVE  Head(posted) = Taken + 1
<1>1. /\ posted \in Seq(Nat) /\ queue \in Seq(Nat) /\ wire \in Seq(Nat) /\ sent \in Nat
      /\ Taken \in Nat /\ Len(posted) \in Nat /\ 1 \in 1 .. Len(posted)
      /\ Head(posted) = posted[1] /\ posted[1] # 0 /\ posted[1] \in Nat
    BY DEF Sound, TypeOK, Taken, DoCloseHandler
<1>2. Taken < posted[1] /\ posted[1] <= sent
    BY <1>1 DEF Order, PostedRange
<1>3. Taken + 1 \in Nat /\ Taken < Taken + 1 /\ Taken + 1 <= sent
    BY <1>1, <1>2
<1>4. PICK i \in 1 .. Len(posted) : posted[i] = Taken + 1
    BY <1>3 DEF Order, PostedAll
<1>5. i = 1 \/ posted[1] < posted[i]
    BY <1>1, <1>4 DEF Order, PostedOrder
<1> QED
    BY <1>1, <1>2, <1>4, <1>5

\* A session begins without messages.
LEMMA InitOrder == Init => Order
<1> SUFFICES ASSUME Init PROVE Order
    OBVIOUS
<1>1. posted = <<>> /\ queue = <<>> /\ wire = <<>> /\ sent = 0
    BY DEF Init
<1> QED
    BY <1>1 DEF Order, QueueOrder, PostedRange, PostedOrder, PostedAll, Taken

\* No call and no handler changes the order of messages.
LEMMA OrderStep == Sound /\ Order /\ [Next]_vars => Order'
<1> SUFFICES ASSUME Sound, Order, [Next]_vars PROVE Order'
    OBVIOUS
<1>1. /\ posted \in Seq(Nat) /\ queue \in Seq(Nat) /\ wire \in Seq(Nat) /\ sent \in Nat
      /\ Taken \in Nat /\ Len(posted) \in Nat /\ Len(queue) \in Nat /\ Len(wire) \in Nat
      /\ \A i \in 1 .. Len(posted) : posted[i] \in Nat
    BY DEF Sound, TypeOK, Taken
<1>2. CASE UNCHANGED <<posted, queue, wire, sent>>
    BY <1>2 DEF Order, QueueOrder, PostedRange, PostedOrder, PostedAll, Taken
<1>3. CASE SendMsg
  <2>1. /\ sent' = sent + 1 /\ posted' = Append(posted, sent + 1)
        /\ queue' = queue /\ wire' = wire /\ Taken' = Taken
      BY <1>3 DEF SendMsg, writeVars, Taken
  <2>2. /\ Len(posted') = Len(posted) + 1 /\ posted'[Len(posted) + 1] = sent + 1
        /\ \A i \in 1 .. Len(posted) : posted'[i] = posted[i]
      BY <1>1, <2>1
  <2>3. \A i \in 1 .. Len(posted') : i \in 1 .. Len(posted) \/ i = Len(posted) + 1
      BY <1>1, <2>2
  <2>4. Taken' <= sent' /\ QueueOrder'
      BY <1>1, <2>1 DEF Order, QueueOrder
  <2>5. PostedRange'
    <3> SUFFICES ASSUME NEW i \in 1 .. Len(posted'), posted'[i] # 0
                 PROVE  Taken' < posted'[i] /\ posted'[i] <= sent'
        BY DEF PostedRange
    <3>1. CASE i = Len(posted) + 1
        BY <1>1, <2>1, <2>2, <3>1 DEF Order
    <3>2. CASE i \in 1 .. Len(posted)
      <4>1. Taken < posted[i] /\ posted[i] <= sent /\ posted'[i] = posted[i]
          BY <2>2, <3>2 DEF Order, PostedRange
      <4> QED
          BY <1>1, <2>1, <3>2, <4>1
    <3> QED
        BY <2>3, <3>1, <3>2
  <2>6. PostedOrder'
    <3> SUFFICES ASSUME NEW i \in 1 .. Len(posted'), NEW j \in 1 .. Len(posted'),
                        i < j, posted'[i] # 0, posted'[j] # 0
                 PROVE  posted'[i] < posted'[j]
        BY DEF PostedOrder
    <3>1. i \in 1 .. Len(posted) /\ posted'[i] = posted[i]
        BY <1>1, <2>2
    <3>2. CASE j = Len(posted) + 1
      <4>1. posted[i] <= sent
          BY <3>1 DEF Order, PostedRange
      <4> QED
          BY <1>1, <2>2, <3>1, <3>2, <4>1
    <3>3. CASE j \in 1 .. Len(posted)
        BY <2>2, <3>1, <3>3 DEF Order, PostedOrder
    <3> QED
        BY <2>3, <3>2, <3>3
  <2>7. PostedAll'
    <3> SUFFICES ASSUME NEW m \in Nat, Taken' < m, m <= sent'
                 PROVE  \E i \in 1 .. Len(posted') : posted'[i] = m
        BY DEF PostedAll
    <3>1. CASE m = sent + 1
      <4>1. Len(posted) + 1 \in 1 .. Len(posted') /\ posted'[Len(posted) + 1] = m
          BY <1>1, <2>2, <3>1
      <4> QED
          BY <4>1
    <3>2. CASE m # sent + 1
      <4>1. Taken < m /\ m <= sent
          BY <1>1, <2>1, <3>2
      <4>2. PICK i \in 1 .. Len(posted) : posted[i] = m
          BY <4>1 DEF Order, PostedAll
      <4> QED
          BY <1>1, <2>2, <4>2
    <3> QED
        BY <3>1, <3>2
  <2> QED
      BY <2>4, <2>5, <2>6, <2>7 DEF Order
<1>4. CASE Disconnect
  <2>1. posted' = Append(posted, 0) /\ UNCHANGED <<queue, wire, sent>> /\ Taken' = Taken
      BY <1>4 DEF Disconnect, DoCloseHandler, writeVars, Taken
  <2>2. /\ Len(posted') = Len(posted) + 1 /\ posted'[Len(posted) + 1] = 0
        /\ \A i \in 1 .. Len(posted) : posted'[i] = posted[i]
      BY <1>1, <2>1
  <2>3. ASSUME NEW i \in 1 .. Len(posted'), posted'[i] # 0
        PROVE  i \in 1 .. Len(posted) /\ posted'[i] = posted[i]
      BY <1>1, <2>2, <2>3
  <2>4. 1 .. Len(posted) \subseteq 1 .. Len(posted')
      BY <1>1, <2>2
  <2>5. Taken' <= sent' /\ QueueOrder'
      BY <2>1 DEF Order, QueueOrder
  <2>6. PostedRange'
      BY <2>1, <2>3 DEF Order, PostedRange
  <2>7. PostedOrder'
      BY <2>1, <2>3 DEF Order, PostedOrder
  <2>8. PostedAll'
      BY <2>1, <2>2, <2>4 DEF Order, PostedAll
  <2> QED
      BY <2>5, <2>6, <2>7, <2>8 DEF Order
\* The handler at the front is run.
<1>5. ASSUME posted # <<>>, posted' = Tail(posted)
      PROVE  /\ Len(posted') = Len(posted) - 1 /\ Len(posted) > 0
             /\ \A i \in 1 .. Len(posted') : i + 1 \in 1 .. Len(posted) /\ posted'[i] = posted[i + 1]
             /\ \A i \in 2 .. Len(posted) : i - 1 \in 1 .. Len(posted') /\ posted'[i - 1] = posted[i]
             /\ Head(posted) = posted[1] /\ 1 \in 1 .. Len(posted)
             /\ PostedOrder'
  <2>1. /\ Len(posted') = Len(posted) - 1 /\ Len(posted) > 0
        /\ \A i \in 1 .. Len(posted') : i + 1 \in 1 .. Len(posted) /\ posted'[i] = posted[i + 1]
        /\ \A i \in 2 .. Len(posted) : i - 1 \in 1 .. Len(posted') /\ posted'[i - 1] = posted[i]
        /\ Head(posted) = posted[1] /\ 1 \in 1 .. Len(posted)
      BY <1>1, <1>5
  <2>2. ASSUME NEW i \in 1 .. Len(posted'), NEW j \in 1 .. Len(posted'),
               i < j, posted'[i] # 0, posted'[j] # 0
        PROVE  posted'[i] < posted'[j]
    <3>1. i + 1 \in 1 .. Len(posted) /\ j + 1 \in 1 .. Len(posted) /\ i + 1 < j + 1
        BY <1>1, <2>1, <2>2
    <3>2. posted[i + 1] # 0 /\ posted[j + 1] # 0
        BY <2>1, <2>2
    <3>3. posted[i + 1] < posted[j + 1]
        BY <3>1, <3>2 DEF Order, PostedOrder
    <3> QED
        BY <2>1, <3>3
  <2> QED
      BY <2>1, <2>2 DEF PostedOrder
<1>6. CASE DoClose
  <2>1. /\ posted # <<>> /\ posted' = Tail(posted) /\ Head(posted) = 0
        /\ UNCHANGED <<queue, wire, sent>> /\ Taken' = Taken
      BY <1>6 DEF DoClose, DoCloseHandler, writeVars, Taken
  <2>2. ASSUME NEW m \in Nat, Taken' < m, m <= sent'
        PROVE  \E i \in 1 .. Len(posted') : posted'[i] = m
    <3>1. PICK i \in 1 .. Len(posted) : posted[i] = m
        BY <2>1, <2>2 DEF Order, PostedAll
    <3>2. i \in 2 .. Len(posted)
        BY <1>1, <1>5, <2>1, <2>2, <3>1
    <3> QED
        BY <1>5, <2>1, <3>1, <3>2, Zenon
  <2>3. PostedRange'
      BY <1>5, <2>1 DEF Order, PostedRange
  <2> QED
      BY <1>5, <2>1, <2>2, <2>3 DEF Order, QueueOrder, PostedAll
<1>7. CASE OnSend
  <2>1. /\ posted # <<>> /\ posted' = Tail(posted) /\ Head(posted) # DoCloseHandler
        /\ queue' = Append(queue, Head(posted)) /\ UNCHANGED <<wire, sent>>
      BY <1>7 DEF OnSend
  <2>2. posted[1] = Taken + 1 /\ Head(posted) = Taken + 1
      BY <1>5, <2>1, NextPosted
  <2>3. /\ Len(queue') = Len(queue) + 1 /\ queue'[Len(queue) + 1] = Taken + 1
        /\ \A i \in 1 .. Len(queue) : queue'[i] = queue[i]
      BY <1>1, <2>1, <2>2
  <2>4. Taken' = Taken + 1
      BY <1>1, <2>1, <2>3 DEF Taken
  <2>5. QueueOrder'
    <3> SUFFICES ASSUME NEW i \in 1 .. Len(queue') PROVE queue'[i] = Len(wire') + i
        BY DEF QueueOrder
    <3>1. CASE i = Len(queue) + 1
        BY <1>1, <2>1, <2>3, <3>1 DEF Taken
    <3>2. CASE i \in 1 .. Len(queue)
        BY <2>1, <2>3, <3>2 DEF Order, QueueOrder
    <3> QED
        BY <1>1, <2>3, <3>1, <3>2
  <2>6. Taken + 1 <= sent
    <3>1. 1 \in 1 .. Len(posted) /\ posted[1] # 0
        BY <1>5, <2>1, <2>2 DEF DoCloseHandler
    <3> QED
        BY <2>2, <3>1 DEF Order, PostedRange
  <2>7. ASSUME NEW i \in 1 .. Len(posted'), posted'[i] # 0
        PROVE  Taken' < posted'[i] /\ posted'[i] <= sent'
    <3>1. i + 1 \in 1 .. Len(posted) /\ posted'[i] = posted[i + 1] /\ 1 < i + 1
        BY <1>1, <1>5, <2>1
    <3>2. posted[1] < posted[i + 1]
        BY <1>1, <1>5, <2>1, <2>2, <2>7, <3>1 DEF Order, PostedOrder
    <3>3. posted[i + 1] <= sent
        BY <2>7, <3>1 DEF Order, PostedRange
    <3> QED
        BY <2>1, <2>2, <2>4, <3>1, <3>2, <3>3
  <2>8. ASSUME NEW m \in Nat, Taken' < m, m <= sent'
        PROVE  \E i \in 1 .. Len(posted') : posted'[i] = m
    <3>1. Taken < m /\ m <= sent
        BY <1>1, <2>1, <2>4, <2>8
    <3>2. PICK i \in 1 .. Len(posted) : posted[i] = m
        BY <3>1 DEF Order, PostedAll
    <3>3. i \in 2 .. Len(posted)
        BY <1>1, <2>2, <2>4, <2>8, <3>2
    <3> QED
        BY <1>5, <2>1, <3>2, <3>3
  <2>9. Taken' <= sent'
      BY <2>1, <2>4, <2>6
  <2> QED
      BY <1>5, <2>1, <2>5, <2>7, <2>8, <2>9 DEF Order, PostedRange, PostedAll
<1>8. CASE OnWrite
  <2>1. CASE UNCHANGED <<wire, queue>>
      BY <1>2, <1>8, <2>1 DEF OnWrite
  <2>2. CASE wire' = Append(wire, Head(queue)) /\ queue' = Tail(queue)
    <3>1. queue # <<>>
        BY <1>8 DEF OnWrite, Sound, OneWriter
    <3>2. /\ Len(wire') = Len(wire) + 1 /\ Len(queue') = Len(queue) - 1
          /\ \A i \in 1 .. Len(queue') : queue'[i] = queue[i + 1] /\ i + 1 \in 1 .. Len(queue)
        BY <1>1, <2>2, <3>1
    <3>3. Taken' = Taken /\ UNCHANGED <<posted, sent>>
        BY <1>1, <1>8, <3>2 DEF OnWrite, Taken
    <3>4. QueueOrder'
        BY <1>1, <3>2 DEF Order, QueueOrder
    <3> QED
        BY <3>3, <3>4 DEF Order, PostedRange, PostedOrder, PostedAll
  <2> QED
      BY <1>8, <2>1, <2>2 DEF OnWrite
<1>9. CASE \/ SetOnReadyCallback \/ SetOnAbnormalDisconnectCallback \/ Connect \/ OnResolve
           \/ OnConnect \/ OnHandshake \/ OnRead \/ UNCHANGED vars
    BY <1>2, <1>9 DEF SetOnReadyCallback, SetOnAbnormalDisconnectCallback, Connect,
       OnResolve, OnConnect, OnHandshake, OnRead, vars, writeVars
<1> QED
    BY <1>3, <1>4, <1>6, <1>7, <1>8, <1>9 DEF Next

\* Every step of the session is a step of the channel or leaves it alone.
LEMMA ChannelStep ==
    Sound /\ Order /\ [Next]_vars => [Channel!ChannelNext]_(Channel!channelVars)
<1> SUFFICES ASSUME Sound, Order, [Next]_vars
             PROVE  Channel!ChannelNext \/ UNCHANGED <<sent, wire, writeFailed>>
    BY DEF Channel!channelVars
<1>1. CASE SendMsg
    BY <1>1 DEF SendMsg, writeVars, Channel!ChannelNext, Channel!Accept
<1>2. CASE OnWrite
  <2>1. queue # <<>> /\ ~writeFailed
      BY <1>2 DEF OnWrite, Sound, TypeOK, OneWriter
  <2>2. CASE writeFailed' = TRUE /\ UNCHANGED <<wire, sent>>
      BY <2>2 DEF Channel!ChannelNext, Channel!Break
  <2>3. CASE wire' = Append(wire, Head(queue)) /\ UNCHANGED <<writeFailed, sent>>
    <3>1. Head(queue) = Len(wire) + 1 /\ Len(wire) < sent
        BY <2>1 DEF Sound, TypeOK, Order, QueueOrder, Taken
    <3> QED
        BY <2>1, <2>3, <3>1 DEF Channel!ChannelNext, Channel!Deliver
  <2> QED
      BY <1>2, <2>2, <2>3, Zenon DEF OnWrite
<1>3. CASE Next /\ ~SendMsg /\ ~OnWrite
    BY <1>3 DEF Next, SetOnReadyCallback, SetOnAbnormalDisconnectCallback, Connect, Disconnect,
       OnResolve, OnConnect, OnHandshake, OnRead, OnSend, DoClose, writeVars
<1>4. CASE UNCHANGED vars
    BY <1>4 DEF vars, writeVars
<1> QED
    BY <1>1, <1>2, <1>3, <1>4

\* A session is a channel: what SendMsg accepted reaches the wire in the order
\* of acceptance, none twice, and none after one that failed.
THEOREM IsChannel == Spec => ImplementsChannel
<1>1. Init => Channel!ChannelInit
    BY DEF Init, Channel!ChannelInit
<1> QED
    BY <1>1, InitOrder, InitSound, SoundStep, OrderStep, ChannelStep, PTL
    DEF Spec, ImplementsChannel, Channel!ChannelSpec

-----------------------------------------------------------------------------
(* An open stream can be written.                                          *)

\* Without a message accepted too early, none is accepted before the stream is
\* open, and no write is begun on a stream that opens later.
Timely ==
    /\ connected => setup = "ready_callback" \/ op \in {"read", "lost"}
    /\ open => op = "read"
    /\ early = 0 /\ op \notin {"read", "lost"} => sent = 0
    /\ sent = 0 => ~doomed
    /\ early = 0 /\ open => ~doomed /\ ~writeFailed

\* The order of the setters and of the handlers keeps messages from being early.
LEMMA TimelyStep == Sound /\ Order /\ Timely /\ [Next]_vars => Timely'
<1> SUFFICES ASSUME Sound, Order, Timely, [Next]_vars PROVE Timely'
    OBVIOUS
<1> USE DEF Timely
<1>1. /\ sent \in Nat /\ early \in Nat /\ Len(queue) \in Nat /\ Len(wire) \in Nat
      /\ queue \in Seq(Nat) /\ Taken \in Nat /\ Taken <= sent
    BY DEF Sound, TypeOK, Order, Taken
<1>2. queue # <<>> => sent # 0
    BY <1>1 DEF Taken
<1>3. sent = 0 => ~writeFailed /\ writes = 0
    BY <1>2 DEF Sound, OneWriter
<1>4. CASE UNCHANGED vars
    BY <1>4 DEF vars, connVars, writeVars
<1>5. CASE SetOnReadyCallback
    BY <1>5 DEF SetOnReadyCallback, writeVars
<1>6. CASE SetOnAbnormalDisconnectCallback
    BY <1>6 DEF SetOnAbnormalDisconnectCallback, writeVars
<1>7. CASE Connect
    BY <1>7 DEF Connect, writeVars, Sound
<1>8. CASE SendMsg
    BY <1>1, <1>8 DEF SendMsg, connVars, writeVars
<1>9. CASE Disconnect
    BY <1>9 DEF Disconnect, writeVars
<1>10. CASE OnResolve
    BY <1>10 DEF OnResolve, writeVars, Sound
<1>11. CASE OnConnect
    BY <1>11 DEF OnConnect, writeVars, Sound
<1>12. CASE OnHandshake
    BY <1>3, <1>12 DEF OnHandshake, writeVars, Sound
<1>13. CASE OnRead
    BY <1>13 DEF OnRead, writeVars
<1>14. CASE OnSend
  <2>1. sent # 0
    <3>1. posted \in Seq(Nat) /\ 1 \in 1 .. Len(posted) /\ posted[1] # 0
        BY <1>14 DEF OnSend, Sound, TypeOK, DoCloseHandler
    <3>2. Taken < posted[1] /\ posted[1] <= sent /\ posted[1] \in Nat
        BY <3>1 DEF Order, PostedRange
    <3> QED
        BY <1>1, <3>2
  <2>2. (doomed' = doomed) \/ (doomed' = ~open)
      BY <1>14 DEF OnSend, BeginWrite
  <2>3. UNCHANGED <<setup, op, connected, open, writeFailed, sent, early>>
      BY <1>14 DEF OnSend, connVars
  <2>4. early = 0 /\ open => ~doomed'
      BY <2>2, Zenon
  <2> QED
      BY <2>1, <2>3, <2>4
<1>15. CASE DoClose
    BY <1>15 DEF DoClose, writeVars
<1>16. CASE OnWrite
  <2>1. sent # 0
      BY <1>3, <1>16 DEF OnWrite
  <2>2. UNCHANGED <<setup, op, connected, sent, early>>
      BY <1>16 DEF OnWrite
  <2>3. CASE UNCHANGED <<writeFailed, open>> /\ ((doomed' = doomed) \/ (doomed' = ~open))
    <3>1. early = 0 /\ open => ~doomed'
        BY <2>3, Zenon
    <3> QED
        BY <2>1, <2>2, <2>3, <3>1
  <2>4. CASE open' = (open /\ doomed) /\ UNCHANGED doomed
    <3>1. (open' => open) /\ (early = 0 => ~open')
        BY <2>4, Zenon
    <3> QED
        BY <2>1, <2>2, <3>1
  <2> QED
      BY <1>16, <2>3, <2>4 DEF OnWrite
<1> QED
    BY <1>4, <1>5, <1>6, <1>7, <1>8, <1>9, <1>10, <1>11, <1>12, <1>13, <1>14, <1>15,
       <1>16 DEF Next

\* A session whose stream is open has not given up writing, unless a message
\* was accepted while the callbacks were being set.
THEOREM OpenStaysWritable == Spec => []OpenIsWritable
<1>1. Init => Timely
    BY DEF Init, Timely
<1>2. Timely => OpenIsWritable
    BY DEF Timely, OpenIsWritable
<1> QED
    BY <1>1, <1>2, InitSound, SoundStep, InitOrder, OrderStep, TimelyStep, PTL DEF Spec
=============================================================================
