------------------------- MODULE RoomStreamsProofs -------------------------
(***************************************************************************)
(* Proofs about RoomStreams: types, own streams, and the order in which    *)
(* subscriptions and publications are requested, answered and handled, for *)
(* any number of joins; then, as long as the room has been joined once,    *)
(* that answers meet their streams and every stream is under way.  A leaf  *)
(* names Zenon where that prover alone is enough; the others need SMT for  *)
(* arithmetic or sequences.                                                *)
(***************************************************************************)
EXTENDS RoomStreams, TLAPS

-----------------------------------------------------------------------------
(* What is needed here of sequences.  With the library's theorems instead,  *)
(* every obligation below would carry all of them along.                    *)

LEMMA LenProperties ==
  ASSUME NEW S, NEW q \in Seq(S)
  PROVE  Len(q) \in Nat /\ DOMAIN q = 1 .. Len(q) /\ q \in [1 .. Len(q) -> S]
  OBVIOUS

LEMMA ElementOfSeq ==
  ASSUME NEW S, NEW q \in Seq(S), NEW i \in 1 .. Len(q)
  PROVE  q[i] \in S
  OBVIOUS

LEMMA EmptySeq ==
  ASSUME NEW S
  PROVE  /\ <<>> \in Seq(S) /\ Len(<<>>) = 0
         /\ \A q \in Seq(S) : q # <<>> => Len(q) \in Nat \ {0}
  OBVIOUS

LEMMA SeqMonotonic ==
  ASSUME NEW S, NEW T, S \subseteq T, NEW q \in Seq(S)
  PROVE  q \in Seq(T)
  OBVIOUS

LEMMA FunctionIsSeq ==
  ASSUME NEW S, NEW n \in Nat, NEW f \in [1 .. n -> S]
  PROVE  f \in Seq(S)
  OBVIOUS

LEMMA AppendProperties ==
  ASSUME NEW S, NEW q \in Seq(S), NEW e \in S
  PROVE  /\ Append(q, e) \in Seq(S) /\ Append(q, e) # <<>>
         /\ Len(Append(q, e)) = Len(q) + 1
         /\ \A i \in 1 .. Len(q) : Append(q, e)[i] = q[i]
         /\ Append(q, e)[Len(q) + 1] = e
  OBVIOUS

LEMMA HeadTailProperties ==
  ASSUME NEW S, NEW q \in Seq(S), q # <<>>
  PROVE  /\ Head(q) \in S /\ Tail(q) \in Seq(S)
         /\ Len(Tail(q)) = Len(q) - 1
         /\ \A i \in 1 .. Len(Tail(q)) : Tail(q)[i] = q[i + 1]
  OBVIOUS

LEMMA ConcatProperties ==
  ASSUME NEW S, NEW q \in Seq(S), NEW r \in Seq(S)
  PROVE  /\ q \o r \in Seq(S) /\ Len(q \o r) = Len(q) + Len(r)
         /\ \A i \in 1 .. Len(q) + Len(r) :
              (q \o r)[i] = IF i <= Len(q) THEN q[i] ELSE r[i - Len(q)]
  OBVIOUS

-----------------------------------------------------------------------------

Tasks == [op : TaskOps, id : Nat, conn : Int]
Packets == [op : PacketOps, id : Nat, conn : Int, erizo : Erizos \cup {NoErizo}]

\* What the fields of a task are, by the place that posts it.
TaskFacts ==
    \A i \in 1 .. Len(tasks) :
        LET t == tasks[i]
        IN  /\ t.op \in {"existing", "remove", "answer", "candidate"} => t.id \in RemoteIds
            /\ t.op = "add" => t.id \in Ids
            /\ t.op \in {"subscribed", "offer"} => t.conn \in 1 .. Len(alloc)
            /\ t.op = "published" => t.id \in LocalIds /\ -t.conn \in 1 .. Len(pubs)
            /\ t.op = "publish" => t.id \in 1 .. published

PacketFacts ==
    \A i \in 1 .. Len(requests) :
        /\ requests[i].op = "subscribe" => requests[i].id \in RemoteIds
        /\ requests[i].op = "publish" => requests[i].id \in 1 .. published

\* The map of local streams has the stream, or will have it before the task in
\* place n is run.
Entered(id, n) ==
    \/ IsInfo(local[id])
    \/ \E j \in 1 .. Len(tasks) : j < n /\ tasks[j].op = "published" /\ tasks[j].id = id

\* Own streams are announced after they have been entered.
OwnFacts ==
    /\ \A id \in announce : Entered(id, Len(tasks) + 1)
    /\ \A i \in 1 .. Len(tasks) :
         tasks[i].op = "add" /\ tasks[i].id \in LocalIds => Entered(tasks[i].id, i)

TypeInv == TypeOK /\ TaskFacts /\ PacketFacts /\ OwnFacts /\ OwnStreamsStayLocal

-----------------------------------------------------------------------------
(* Queues.                                                                 *)

\* Worker::PostTask appends a task to the queue.
Posted(t) ==
    /\ tasks' \in Seq(Tasks) /\ Len(tasks) \in Nat /\ Len(tasks') = Len(tasks) + 1
    /\ \A i \in 1 .. Len(tasks) : tasks'[i] = tasks[i]
    /\ tasks'[Len(tasks) + 1] = t

LEMMA PostFacts ==
  ASSUME tasks \in Seq(Tasks), NEW t \in Tasks, Post(t)
  PROVE  Posted(t)
  BY AppendProperties, LenProperties DEF Post, Posted

\* The place of the new task.
LEMMA PostPlace ==
  ASSUME NEW t, Posted(t)
  PROVE  Len(tasks) + 1 \in 1 .. Len(tasks')
<1>1. Len(tasks) \in Nat /\ Len(tasks') = Len(tasks) + 1
  BY Zenon DEF Posted
<1> QED
  BY <1>1

\* The worker takes the first task of the queue.
Taken(op) ==
    /\ tasks' \in Seq(Tasks) /\ Len(tasks') \in Nat /\ Len(tasks) = Len(tasks') + 1
    /\ \A i \in 1 .. Len(tasks') : tasks'[i] = tasks[i + 1]
    /\ Head(tasks) = tasks[1] /\ tasks[1] \in Tasks /\ tasks[1].op = op

LEMMA RunFacts ==
  ASSUME tasks \in Seq(Tasks), NEW op, Run(op)
  PROVE  Taken(op)
<1>1. tasks # <<>> /\ tasks' = Tail(tasks) /\ Head(tasks).op = op
  BY Zenon DEF Run
<1> QED
  BY <1>1, HeadTailProperties, LenProperties, EmptySeq DEF Taken

\* SendMsg appends a packet to those under way, or drops it.
Sent(p) ==
    /\ requests' \in Seq(Packets) /\ Len(requests) \in Nat
    /\ \/ link = "down" /\ requests' = requests
       \/ /\ link # "down"
          /\ Len(requests') = Len(requests) + 1 /\ requests'[Len(requests) + 1] = p
    /\ \A i \in 1 .. Len(requests) : requests'[i] = requests[i]

LEMMA SendFacts ==
  ASSUME requests \in Seq(Packets), NEW p \in Packets, Send(p)
  PROVE  Sent(p)
  BY AppendProperties, LenProperties DEF Send, Sent

\* The server takes the first of them.
Handled(op) ==
    /\ requests' \in Seq(Packets) /\ Len(requests') \in Nat
    /\ Len(requests) = Len(requests') + 1
    /\ \A i \in 1 .. Len(requests') : requests'[i] = requests[i + 1]
    /\ Head(requests) = requests[1] /\ requests[1] \in Packets /\ requests[1].op = op

LEMMA HandleFacts ==
  ASSUME requests \in Seq(Packets), NEW op, Handle(op)
  PROVE  Handled(op)
<1>1. requests # <<>> /\ requests' = Tail(requests) /\ Head(requests).op = op
  BY Zenon DEF Handle
<1> QED
  BY <1>1, HeadTailProperties, LenProperties, EmptySeq DEF Handled

\* PostExisting posts one task for each stream in the room.
PostedExisting ==
    /\ tasks' \in Seq(Tasks) /\ Len(tasks) \in Nat /\ Len(tasks') \in Nat
    /\ Len(tasks) <= Len(tasks')
    /\ \A i \in 1 .. Len(tasks) : tasks'[i] = tasks[i]
    /\ \A i \in 1 .. Len(tasks') : i > Len(tasks) =>
         /\ tasks'[i].op = "existing" /\ tasks'[i].id \in serverIds
         /\ \A j \in 1 .. Len(tasks') :
              j > Len(tasks) /\ tasks'[i].id = tasks'[j].id => i = j
    /\ \A id \in serverIds : \E i \in 1 .. Len(tasks') : i > Len(tasks) /\ tasks'[i].id = id

LEMMA PostExistingFacts ==
  ASSUME TypeOK, PostExisting
  PROVE  PostedExisting
<1> DEFINE n == Cardinality(serverIds)
<1>1. PICK order \in Bijection(1 .. n, serverIds) :
        tasks' = tasks \o [i \in DOMAIN order |-> Task("existing", order[i], 0)]
  BY Zenon DEF PostExisting
<1>2. /\ n \in Nat
      /\ order \in [1 .. n -> serverIds]
      /\ \A i, j \in 1 .. n : order[i] = order[j] => i = j
  <2>1. serverIds \in SUBSET RemoteIds
    BY Zenon DEF TypeOK
  <2>2. n \in Nat
    BY <2>1, RoomStreamsAssumption, Zenon
  <2>3. order \in [1 .. n -> serverIds] /\ IsInjective(order)
    BY <1>1, Zenon DEF Bijection, Injection
  <2> QED
    BY <2>2, <2>3, Zenon DEF IsInjective
<1>s. \A id \in serverIds : \E i \in 1 .. n : order[i] = id
  BY <1>1, Zenon DEF Bijection, Surjection
<1>3. serverIds \subseteq Nat
  BY RoomStreamsAssumption, Zenon DEF TypeOK
<1> DEFINE new == [i \in 1 .. n |-> Task("existing", order[i], 0)]
<1> HIDE DEF n
<1>4. \A i \in 1 .. n : Task("existing", order[i], 0) \in Tasks
  <2>1. \A id \in serverIds : Task("existing", id, 0) \in Tasks
    BY <1>3 DEF Task, Tasks, TaskOps
  <2> QED
    BY <1>2, <2>1, Zenon
<1>5. new \in Seq(Tasks) /\ Len(new) = n
  <2>1. new \in [1 .. n -> Tasks]
    BY <1>4, Zenon
  <2>2. new \in Seq(Tasks)
    BY <1>2, <2>1, FunctionIsSeq, Zenon
  <2> QED
    BY <1>2, <2>1, <2>2, LenProperties
<1>6. \A i \in 1 .. n : /\ new[i].op = "existing" /\ new[i].id = order[i]
                        /\ new[i].id \in serverIds
  BY <1>2, Zenon DEF Task
<1>7. tasks \in Seq(Tasks) /\ tasks' = tasks \o new /\ Len(tasks) \in Nat
  <2>1. tasks' = tasks \o new
    BY <1>1, <1>2, Zenon
  <2> QED
    BY <2>1, LenProperties, Zenon DEF TypeOK, Tasks
<1> HIDE DEF new
<1>8. /\ tasks' \in Seq(Tasks) /\ Len(tasks') = Len(tasks) + n
      /\ \A i \in 1 .. Len(tasks) : tasks'[i] = tasks[i]
      /\ \A i \in 1 .. n : tasks'[i + Len(tasks)] = new[i]
  <2>1. tasks \o new \in Seq(Tasks) /\ Len(tasks \o new) = Len(tasks) + n
    BY <1>5, <1>7, ConcatProperties, Zenon
  <2>2. \A i \in 1 .. Len(tasks) + n :
          (tasks \o new)[i] = IF i <= Len(tasks) THEN tasks[i] ELSE new[i - Len(tasks)]
    BY <1>5, <1>7, ConcatProperties, Zenon
  <2> QED
    BY <1>2, <1>7, <2>1, <2>2
<1>9. ASSUME NEW i \in 1 .. Len(tasks'), i > Len(tasks)
      PROVE  i - Len(tasks) \in 1 .. n /\ tasks'[i] = new[i - Len(tasks)]
  BY <1>2, <1>7, <1>8, <1>9
<1>10. ASSUME NEW i \in 1 .. Len(tasks'), i > Len(tasks),
              NEW j \in 1 .. Len(tasks'), j > Len(tasks), tasks'[i].id = tasks'[j].id
       PROVE  i = j
  <2>1. i - Len(tasks) = j - Len(tasks)
    BY <1>2, <1>6, <1>9, <1>10
  <2> QED
    BY <1>7, <2>1
<1>11. ASSUME NEW i \in 1 .. Len(tasks'), i > Len(tasks)
       PROVE  tasks'[i].op = "existing" /\ tasks'[i].id \in serverIds
  BY <1>6, <1>9, <1>11, Zenon
<1>12. ASSUME NEW id \in serverIds
       PROVE  \E i \in 1 .. Len(tasks') : i > Len(tasks) /\ tasks'[i].id = id
  <2>1. PICK i \in 1 .. n : order[i] = id
    BY <1>s, Zenon
  <2>2. i + Len(tasks) \in 1 .. Len(tasks') /\ i + Len(tasks) > Len(tasks)
    BY <1>2, <1>7, <1>8
  <2>3. tasks'[i + Len(tasks)].id = id
    BY <1>6, <1>8, <2>1, Zenon
  <2> QED
    BY <2>2, <2>3, Zenon
<1> QED
  BY <1>2, <1>7, <1>8, <1>10, <1>11, <1>12 DEF PostedExisting

-----------------------------------------------------------------------------
(* What a step does.                                                       *)

Joins == \E existing \in SUBSET (RemoteIds \ known) : OnJoinRoom(existing)

\* Which steps change what.
Frame ==
    /\ UNCHANGED alloc \/ ServerSubscribe
    /\ UNCHANGED pubs \/ ServerPublish
    /\ UNCHANGED published \/ PublishStream
    /\ UNCHANGED pendingPub \/ Publish \/ OnPublishStream
    /\ UNCHANGED acked \/ OnSubscribeStream
    /\ UNCHANGED pendingSub \/ ExistingStream \/ OnAddStream \/ OnSubscribeStream
    /\ UNCHANGED observed \/ ExistingStream \/ OnAddStream
    /\ UNCHANGED remote \/ Joins \/ ExistingStream \/ OnAddStream \/ OnRemoveStream
         \/ OnSubscribeStream \/ SendAnswer \/ SendIceCandidate
    /\ UNCHANGED local \/ OnAddStream \/ OnPublishStream \/ SendIceCandidate
    /\ UNCHANGED erizoId \/ OnSubscribeStream \/ OnPublishStream
    /\ UNCHANGED answered \/ SendAnswer
    /\ UNCHANGED joins \/ Joins
    /\ UNCHANGED link \/ Joins \/ PostExisting \/ Disconnected
    /\ UNCHANGED <<serverIds, known>> \/ Joins \/ ServerPublish
         \/ \E id \in RemoteIds : ServerAddStream(id) \/ ServerRemoveStream(id)
    /\ UNCHANGED removed \/ \E id \in RemoteIds : ServerRemoveStream(id)
    /\ UNCHANGED offers \/ ServerSubscribe \/ Disconnected
         \/ \E conn \in 1 .. Len(alloc) : ServerOffer(conn)
    /\ UNCHANGED announce \/ ServerPublish \/ Disconnected
         \/ \E id \in LocalIds : ServerAnnounce(id)
    /\ UNCHANGED answering \/ ReceiveOffer \/ \E id \in Ids : OnSdpCreateSuccess(id)
    /\ UNCHANGED gathering
         \/ \E id \in Ids : OnSdpCreateSuccess(id) \/ OnIceCandidate(id)

LEMMA StepFrame ==
  ASSUME Next
  PROVE  Frame
<1> USE DEF mapVars, serverVars, appVars, historyVars, ServerSends, Handle, Run, Frame
<1>1. CASE Joins
  BY <1>1, Zenon DEF Joins, OnJoinRoom
<1>2. CASE PostExisting \/ Disconnected \/ ServerSubscribe \/ ServerPublish
  BY <1>2, Zenon DEF PostExisting, Disconnected, ServerSubscribe, ServerPublish
<1>3. CASE ServerAnswer \/ ServerCandidate \/ PublishStream \/ RaceWithJoin
  BY <1>3, Zenon DEF ServerAnswer, ServerCandidate, PublishStream, RaceWithJoin
<1>4. CASE \E id \in RemoteIds : ServerAddStream(id) \/ ServerRemoveStream(id)
  BY <1>4, Zenon DEF ServerAddStream, ServerRemoveStream
<1>5. CASE \E id \in LocalIds : ServerAnnounce(id)
  BY <1>5, Zenon DEF ServerAnnounce
<1>6. CASE \E conn \in 1 .. Len(alloc) : ServerOffer(conn)
  BY <1>6, Zenon DEF ServerOffer
<1>7. CASE \E id \in Ids : OnSdpCreateSuccess(id) \/ OnIceCandidate(id)
  BY <1>7, Zenon DEF OnSdpCreateSuccess, OnIceCandidate
<1>8. CASE ExistingStream \/ OnAddStream
  BY <1>8, Zenon DEF ExistingStream, OnAddStream, OnAddRemoteStream
<1>9. CASE OnRemoveStream \/ OnSubscribeStream \/ Publish \/ OnPublishStream
  BY <1>9, Zenon DEF OnRemoveStream, OnSubscribeStream, Publish, OnPublishStream
<1>10. CASE ReceiveOffer \/ OnPeerConnectionConnectErizoReady
  BY <1>10, Zenon DEF ReceiveOffer, OnPeerConnectionConnectErizoReady
<1>11. CASE SendAnswer \/ SendIceCandidate
  BY <1>11, Zenon DEF SendAnswer, SendIceCandidate
<1> QED
  BY <1>1, <1>2, <1>3, <1>4, <1>5, <1>6, <1>7, <1>8, <1>9, <1>10, <1>11, Zenon
  DEF Next, WorkerStep, Joins

Allocs == [id : RemoteIds, erizo : Erizos]
Pubs == [id : 1 .. published, erizo : Erizos]

\* Connections, numbers and sets of streams are only added to.
Grows ==
    /\ alloc' \in Seq(Allocs) /\ Len(alloc) \in Nat /\ Len(alloc') \in Nat
    /\ Len(alloc) <= Len(alloc')
    /\ \A c \in 1 .. Len(alloc) : alloc'[c] = alloc[c]
    /\ pubs' \in Seq(Pubs') /\ Len(pubs) \in Nat /\ Len(pubs') \in Nat
    /\ Len(pubs) <= Len(pubs')
    /\ \A c \in 1 .. Len(pubs) : pubs'[c] = pubs[c]
    /\ published' \in 0 .. MaxPublish /\ published \in Nat /\ published <= published'
    /\ acked' \in Nat /\ acked \in Nat /\ acked <= acked'
    /\ observed \subseteq observed'
    /\ joins' \in 0 .. MaxJoins /\ joins \in Nat /\ joins <= joins'

LEMMA StepGrows ==
  ASSUME TypeInv, Next
  PROVE  Grows
<1>f. Frame
  BY StepFrame, Zenon
<1>t. /\ alloc \in Seq(Allocs) /\ pubs \in Seq(Pubs) /\ requests \in Seq(Packets)
      /\ published \in 0 .. MaxPublish /\ acked \in Nat /\ joins \in 0 .. MaxJoins
  BY Zenon DEF TypeInv, TypeOK, Allocs, Pubs, Packets
<1>1. /\ alloc' \in Seq(Allocs) /\ Len(alloc) \in Nat /\ Len(alloc') \in Nat
      /\ Len(alloc) <= Len(alloc')
      /\ \A c \in 1 .. Len(alloc) : alloc'[c] = alloc[c]
  <2>1. CASE ServerSubscribe
    <3>1. Handled("subscribe")
      BY <1>t, <2>1, HandleFacts, Zenon DEF ServerSubscribe
    <3>2. requests[1].id \in RemoteIds /\ Head(requests) = requests[1]
      BY <3>1 DEF TypeInv, PacketFacts, Handled
    <3>3. PICK e \in Erizos : alloc' = Append(alloc, [id |-> requests[1].id, erizo |-> e])
      BY <2>1, <3>2, Zenon DEF ServerSubscribe
    <3>4. [id |-> requests[1].id, erizo |-> e] \in Allocs
      BY <3>2, Zenon DEF Allocs
    <3> QED
      BY <1>t, <3>3, <3>4, AppendProperties, LenProperties
  <2> QED
    BY <1>f, <1>t, <2>1, LenProperties DEF Frame
<1>2. published' \in 0 .. MaxPublish /\ published \in Nat /\ published <= published'
  BY <1>f, <1>t, RoomStreamsAssumption DEF Frame, PublishStream
<1>3. pubs \in Seq(Pubs')
  <2>1. Pubs \subseteq Pubs'
    BY <1>2, RoomStreamsAssumption DEF Pubs
  <2> QED
    BY <1>t, <2>1, SeqMonotonic, Zenon
<1>4. /\ pubs' \in Seq(Pubs') /\ Len(pubs) \in Nat /\ Len(pubs') \in Nat
      /\ Len(pubs) <= Len(pubs')
      /\ \A c \in 1 .. Len(pubs) : pubs'[c] = pubs[c]
  <2>1. CASE ServerPublish
    <3>1. Handled("publish")
      BY <1>t, <2>1, HandleFacts, Zenon DEF ServerPublish
    <3>2. requests[1].id \in 1 .. published' /\ Head(requests) = requests[1]
      BY <1>2, <3>1 DEF TypeInv, PacketFacts, Handled
    <3>3. PICK e \in Erizos : pubs' = Append(pubs, [id |-> requests[1].id, erizo |-> e])
      BY <2>1, <3>2, Zenon DEF ServerPublish
    <3>4. [id |-> requests[1].id, erizo |-> e] \in Pubs'
      BY <3>2, Zenon DEF Pubs
    <3> QED
      BY <1>3, <3>3, <3>4, AppendProperties, LenProperties
  <2> QED
    BY <1>f, <1>3, <2>1, LenProperties DEF Frame
<1>5. acked' \in Nat /\ acked <= acked'
  BY <1>f, <1>t DEF Frame, OnSubscribeStream
<1>6. observed \subseteq observed'
  <2>1. CASE ExistingStream
    BY <2>1, Zenon DEF ExistingStream, OnAddRemoteStream
  <2>2. CASE OnAddStream
    BY <2>2, Zenon DEF OnAddStream, OnAddRemoteStream, appVars
  <2> QED
    BY <1>f, <2>1, <2>2, Zenon DEF Frame
<1>7. joins' \in 0 .. MaxJoins /\ joins \in Nat /\ joins <= joins'
  BY <1>f, <1>t, RoomStreamsAssumption DEF Frame, Joins, OnJoinRoom
<1> QED
  BY <1>t, <1>1, <1>2, <1>4, <1>5, <1>6, <1>7, Zenon DEF Grows

\* What a subscribe and a publish request make the server do.
LEMMA AllocateFacts ==
  ASSUME TypeInv, ServerSubscribe
  PROVE  /\ Handled("subscribe") /\ requests[1].id \in RemoteIds
         /\ Len(alloc') = Len(alloc) + 1 /\ alloc'[Len(alloc) + 1].id = requests[1].id
<1>1. Handled("subscribe")
  BY HandleFacts, Zenon DEF ServerSubscribe, TypeInv, TypeOK, Packets
<1>2. requests[1].id \in RemoteIds /\ Head(requests) = requests[1]
  BY <1>1 DEF TypeInv, PacketFacts, Handled
<1>3. PICK e \in Erizos : alloc' = Append(alloc, [id |-> requests[1].id, erizo |-> e])
  BY <1>2, Zenon DEF ServerSubscribe
<1>4. [id |-> requests[1].id, erizo |-> e] \in Allocs
  BY <1>2, Zenon DEF Allocs
<1>5. alloc \in Seq(Allocs)
  BY Zenon DEF TypeInv, TypeOK, Allocs
<1> QED
  BY <1>1, <1>2, <1>3, <1>4, <1>5, AppendProperties

LEMMA PublicationFacts ==
  ASSUME TypeInv, ServerPublish
  PROVE  /\ Handled("publish") /\ requests[1].id \in 1 .. published
         /\ Len(pubs') = Len(pubs) + 1 /\ pubs'[Len(pubs) + 1].id = requests[1].id
<1>1. Handled("publish")
  BY HandleFacts, Zenon DEF ServerPublish, TypeInv, TypeOK, Packets
<1>2. requests[1].id \in 1 .. published /\ Head(requests) = requests[1]
  BY <1>1 DEF TypeInv, PacketFacts, Handled
<1>3. PICK e \in Erizos : pubs' = Append(pubs, [id |-> requests[1].id, erizo |-> e])
  BY <1>2, Zenon DEF ServerPublish
<1>4. [id |-> requests[1].id, erizo |-> e] \in Pubs
  BY <1>2, Zenon DEF Pubs
<1>5. pubs \in Seq(Pubs)
  BY Zenon DEF TypeInv, TypeOK, Pubs
<1> QED
  BY <1>1, <1>2, <1>3, <1>4, <1>5, AppendProperties

\* What is known of a task when it is posted.
NewTask(t) ==
    \/ t.op = "existing" /\ PostExisting /\ t.id \in serverIds
    \/ t.op = "add" /\ t.id \in RemoteIds \ known /\ t.id \in known'
    \/ t.op = "add" /\ t.id \in announce
    \/ t.op = "remove" /\ t.id \in RemoteIds /\ removed' # {}
    \/ t.op = "subscribed" /\ ServerSubscribe /\ t.conn = Len(alloc) + 1
         /\ Len(alloc') = Len(alloc) + 1
    \/ t.op = "published" /\ ServerPublish /\ t.id \in LocalIds /\ t.conn = -(Len(pubs) + 1)
         /\ Len(pubs') = Len(pubs) + 1
    \/ t.op = "publish" /\ t.id = published + 1 /\ published' = published + 1
    \/ t.op = "offer" /\ t.conn \in offers
    \/ t.op = "ready" /\ ServerAnswer /\ t.conn = Head(requests).conn
         /\ t.conn \in 1 .. Len(alloc)
    \/ t.op = "answer" /\ t.id \in answering
    \/ t.op = "candidate" /\ t.id \in gathering

\* The steps of other threads than the worker append tasks to its queue.
Extended ==
    /\ tasks' \in Seq(Tasks) /\ Len(tasks) \in Nat /\ Len(tasks') \in Nat
    /\ Len(tasks) <= Len(tasks')
    /\ \A i \in 1 .. Len(tasks) : tasks'[i] = tasks[i]
    /\ \A i \in 1 .. Len(tasks') : i > Len(tasks) => NewTask(tasks'[i])
    /\ Len(tasks') <= Len(tasks) + 1 \/ (PostExisting /\ PostedExisting)

LEMMA PostExtends ==
  ASSUME tasks \in Seq(Tasks), NEW t \in Tasks, Post(t), NewTask(t)
  PROVE  Extended
<1>1. Posted(t)
  BY PostFacts, Zenon
<1> QED
  BY <1>1 DEF Posted, Extended

LEMMA OtherSteps ==
  ASSUME TypeInv, Next, ~WorkerStep
  PROVE  Extended
<1>t. /\ tasks \in Seq(Tasks) /\ requests \in Seq(Packets) /\ Ids \subseteq Nat
      /\ RemoteIds \subseteq Ids /\ LocalIds \subseteq Ids /\ Len(tasks) \in Nat
  BY RoomStreamsAssumption, LenProperties, Zenon DEF TypeInv, TypeOK, Tasks, Packets, Ids
<1>g. Grows
  BY StepGrows, Zenon
<1>a. \A op \in TaskOps, id \in Nat, conn \in Int : Task(op, id, conn) \in Tasks
  BY Zenon DEF Task, Tasks
<1>1. CASE UNCHANGED tasks
  BY <1>t, <1>1 DEF Extended
<1>2. CASE PostExisting
  <2>1. PostedExisting
    BY <1>2, PostExistingFacts, Zenon DEF TypeInv
  <2> QED
    BY <1>2, <2>1, Zenon DEF PostedExisting, Extended, NewTask
<1>3. ASSUME NEW id \in RemoteIds, ServerAddStream(id)
      PROVE  Extended
  <2>1. Task("add", id, 0) \in Tasks /\ Post(Task("add", id, 0))
    BY <1>t, <1>a, <1>3 DEF ServerAddStream, TaskOps
  <2>2. NewTask(Task("add", id, 0))
    BY <1>3, Zenon DEF ServerAddStream, NewTask, Task
  <2> QED
    BY <1>t, <2>1, <2>2, PostExtends, Zenon
<1>4. ASSUME NEW id \in RemoteIds, ServerRemoveStream(id)
      PROVE  Extended
  <2>1. Task("remove", id, 0) \in Tasks /\ Post(Task("remove", id, 0))
    BY <1>t, <1>a, <1>4 DEF ServerRemoveStream, TaskOps
  <2>2. NewTask(Task("remove", id, 0))
    BY <1>4, Zenon DEF ServerRemoveStream, NewTask, Task
  <2> QED
    BY <1>t, <2>1, <2>2, PostExtends, Zenon
<1>5. CASE ServerSubscribe
  <2>2. Len(alloc') = Len(alloc) + 1
    BY <1>5, AllocateFacts, Zenon
  <2> DEFINE t == Task("subscribed", NoId, Len(alloc'))
  <2>3. t \in Tasks /\ Post(t)
    BY <1>a, <1>g, <1>5 DEF ServerSubscribe, TaskOps, NoId, Grows
  <2>4. NewTask(t)
    BY <1>5, <2>2, Zenon DEF NewTask, Task
  <2> HIDE DEF t
  <2> QED
    BY <1>t, <2>3, <2>4, PostExtends, Zenon
<1>6. CASE ServerPublish
  <2>2. Len(pubs') = Len(pubs) + 1
    BY <1>6, PublicationFacts, Zenon
  <2>3. PICK id \in LocalIds : Post(Task("published", id, -Len(pubs')))
    BY <1>6, Zenon DEF ServerPublish
  <2> DEFINE t == Task("published", id, -Len(pubs'))
  <2>4. t \in Tasks
    <3>1. Len(pubs') \in Nat
      BY <1>g, Zenon DEF Grows
    <3>2. id \in Nat /\ -Len(pubs') \in Int
      BY <1>t, <3>1
    <3> QED
      BY <1>a, <3>2, Zenon DEF TaskOps
  <2>5. NewTask(t)
    BY <1>6, <2>2, Zenon DEF NewTask, Task
  <2> HIDE DEF t
  <2> QED
    BY <1>t, <2>3, <2>4, <2>5, PostExtends, Zenon DEF t
<1>7. ASSUME NEW id \in LocalIds, ServerAnnounce(id)
      PROVE  Extended
  <2>1. Task("add", id, 0) \in Tasks /\ Post(Task("add", id, 0))
    BY <1>t, <1>a, <1>7 DEF ServerAnnounce, TaskOps
  <2>2. NewTask(Task("add", id, 0))
    BY <1>7, Zenon DEF ServerAnnounce, NewTask, Task
  <2> QED
    BY <1>t, <2>1, <2>2, PostExtends, Zenon
<1>8. ASSUME NEW conn \in 1 .. Len(alloc), ServerOffer(conn)
      PROVE  Extended
  <2>1. Task("offer", NoId, conn) \in Tasks /\ Post(Task("offer", NoId, conn))
    BY <1>a, <1>g, <1>8 DEF ServerOffer, TaskOps, NoId, Grows
  <2>2. NewTask(Task("offer", NoId, conn))
    BY <1>8, Zenon DEF ServerOffer, NewTask, Task
  <2> QED
    BY <1>t, <2>1, <2>2, PostExtends, Zenon
<1>9. CASE ServerAnswer /\ ~UNCHANGED tasks
  <2> DEFINE t == Task("ready", NoId, Head(requests).conn)
  <2>1. Post(t) /\ Head(requests).conn \in DOMAIN alloc
    BY <1>9, Zenon DEF ServerAnswer
  <2>2. Head(requests).conn \in 1 .. Len(alloc)
    BY <2>1, LenProperties, Zenon DEF TypeInv, TypeOK
  <2>3. t \in Tasks
    BY <1>a, <1>g, <2>2 DEF TaskOps, NoId, Grows
  <2>4. NewTask(t)
    BY <1>9, <2>2, Zenon DEF NewTask, Task
  <2> HIDE DEF t
  <2> QED
    BY <1>t, <2>1, <2>3, <2>4, PostExtends, Zenon
<1>10. CASE PublishStream
  <2>1. published' = published + 1 /\ published' \in Nat
    BY <1>10, <1>g DEF PublishStream, Grows
  <2>2. Task("publish", published', 0) \in Tasks /\ Post(Task("publish", published', 0))
    BY <1>a, <1>10, <2>1 DEF PublishStream, TaskOps
  <2>3. NewTask(Task("publish", published', 0))
    BY <2>1, Zenon DEF NewTask, Task
  <2> QED
    BY <1>t, <2>2, <2>3, PostExtends, Zenon
<1>11. ASSUME NEW id \in Ids, OnSdpCreateSuccess(id)
       PROVE  Extended
  <2>1. Task("answer", id, 0) \in Tasks /\ Post(Task("answer", id, 0))
    BY <1>t, <1>a, <1>11 DEF OnSdpCreateSuccess, TaskOps
  <2>2. NewTask(Task("answer", id, 0))
    BY <1>11, Zenon DEF OnSdpCreateSuccess, NewTask, Task
  <2> QED
    BY <1>t, <2>1, <2>2, PostExtends, Zenon
<1>12. ASSUME NEW id \in Ids, OnIceCandidate(id)
       PROVE  Extended
  <2>1. Task("candidate", id, 0) \in Tasks /\ Post(Task("candidate", id, 0))
    BY <1>t, <1>a, <1>12 DEF OnIceCandidate, TaskOps
  <2>2. NewTask(Task("candidate", id, 0))
    BY <1>12, Zenon DEF OnIceCandidate, NewTask, Task
  <2> QED
    BY <1>t, <2>1, <2>2, PostExtends, Zenon
<1>13. CASE Joins \/ Disconnected \/ ServerCandidate \/ RaceWithJoin
  BY <1>1, <1>13, Zenon DEF Joins, OnJoinRoom, Disconnected, ServerCandidate, RaceWithJoin
<1> QED
  BY <1>1, <1>2, <1>3, <1>4, <1>5, <1>6, <1>7, <1>8, <1>9, <1>10, <1>11, <1>12, <1>13, Zenon
  DEF Next, Joins

\* A stream that OnAddStream shows to the application is not ours.
LEMMA ShownIsRemote ==
  ASSUME TypeInv, Taken("add"), ~IsInfo(local[tasks[1].id])
  PROVE  tasks[1].id \in RemoteIds
<1>1. 1 \in 1 .. Len(tasks) /\ ~\E j \in 1 .. Len(tasks) : j < 1
  BY DEF Taken
<1>2. tasks[1].id \in Ids
  BY <1>1, Zenon DEF Taken, TypeInv, TaskFacts
<1>3. tasks[1].id \notin LocalIds
  BY <1>1, Zenon DEF Taken, TypeInv, OwnFacts, Entered
<1> QED
  BY <1>2, <1>3, Zenon DEF Ids

\* The steps that show a stream to the application and subscribe to it.
Subscribes(id) ==
    /\ ExistingStream \/ OnAddStream
    /\ id = tasks[1].id /\ id \in RemoteIds /\ tasks[1].op \in {"existing", "add"}
    /\ observed' = observed \cup {id}
    /\ pendingSub' = Append(pendingSub, id) /\ Send(SubscribePacket(id))
    /\ remote' = [remote EXCEPT ![id] = Info(0)] \/ (IsInfo(remote[id]) /\ remote' = remote)
       \/ (remote[id] = Null /\ remote' = remote /\ ExistingStream)

LEMMA SubscribeSteps ==
  ASSUME TypeInv, ExistingStream \/ OnAddStream
  PROVE  \/ \E id \in RemoteIds : Subscribes(id)
         \/ UNCHANGED <<remote, local, pendingSub, requests, appVars>> /\ OnAddStream
<1>t. tasks \in Seq(Tasks) /\ remote \in [Ids -> Entry]
  BY Zenon DEF TypeInv, TypeOK, Tasks
<1>1. CASE ExistingStream
  <2>1. Taken("existing")
    BY <1>t, <1>1, RunFacts, Zenon DEF ExistingStream
  <2>2. tasks[1].id \in RemoteIds /\ Head(tasks) = tasks[1] /\ tasks[1].op = "existing"
    BY <2>1 DEF Taken, TypeInv, TaskFacts
  <2>3. /\ observed' = observed \cup {tasks[1].id}
        /\ pendingSub' = Append(pendingSub, tasks[1].id) /\ Send(SubscribePacket(tasks[1].id))
    BY <1>1, <2>2, Zenon DEF ExistingStream, OnAddRemoteStream, SubscribeStream
  <2>4. remote' = [remote EXCEPT ![tasks[1].id] =
                     IF remote[tasks[1].id] = Absent THEN Info(0) ELSE remote[tasks[1].id]]
    BY <1>1, <2>2, Zenon DEF ExistingStream
  <2>5. \/ remote' = [remote EXCEPT ![tasks[1].id] = Info(0)]
        \/ IsInfo(remote[tasks[1].id]) /\ remote' = remote
        \/ remote[tasks[1].id] = Null /\ remote' = remote
    <3>1. tasks[1].id \in Ids
      BY <2>2, Zenon DEF Ids
    <3>2. remote[tasks[1].id] = Absent \/ remote[tasks[1].id] = Null \/ IsInfo(remote[tasks[1].id])
      BY <1>t, <3>1 DEF Entry, IsInfo, Info
    <3> QED
      BY <1>t, <2>4, <3>1, <3>2, Zenon
  <2> QED
    BY <1>1, <2>2, <2>3, <2>5, Zenon DEF Subscribes
<1>2. CASE OnAddStream
  <2>1. Taken("add")
    BY <1>t, <1>2, RunFacts, Zenon DEF OnAddStream
  <2>2. Head(tasks) = tasks[1] /\ tasks[1].op = "add"
    BY <2>1, Zenon DEF Taken
  <2>3. CASE IsInfo(local[tasks[1].id])
    BY <1>2, <2>2, <2>3, Zenon DEF OnAddStream
  <2>4. CASE ~IsInfo(local[tasks[1].id])
    <3>1. tasks[1].id \in RemoteIds
      BY <2>1, <2>4, ShownIsRemote, Zenon
    <3> QED
      BY <1>2, <2>2, <2>4, <3>1, Zenon
      DEF OnAddStream, OnAddRemoteStream, SubscribeStream, EnterRemote, Subscribes
  <2> QED
    BY <2>3, <2>4, Zenon
<1> QED
  BY <1>1, <1>2, Zenon

\* What is known of a packet when it is sent.
NewPacket(p) ==
    \/ /\ p.op = "subscribe" /\ p.id \in RemoteIds /\ Subscribes(p.id)
       /\ p.conn = acked + Len(pendingSub) + 1
    \/ /\ p.op = "publish" /\ Publish /\ tasks[1].op = "publish" /\ p.id = tasks[1].id
       /\ pendingPub' = Append(pendingPub, p.id)
    \/ /\ p.op = "answer" /\ SendAnswer /\ tasks[1].op = "answer" /\ p.id = tasks[1].id
       /\ IsInfo(remote[p.id]) /\ p.conn = remote[p.id].conn
    \/ p.op = "candidate" /\ SendIceCandidate

\* The worker sends at most one packet in a step.
Asked ==
    /\ requests' \in Seq(Packets) /\ Len(requests) \in Nat /\ Len(requests') \in Nat
    /\ Len(requests) <= Len(requests') /\ Len(requests') <= Len(requests) + 1
    /\ \A i \in 1 .. Len(requests) : requests'[i] = requests[i]
    /\ \A i \in 1 .. Len(requests') : i > Len(requests) => NewPacket(requests'[i])

LEMMA SendAsks ==
  ASSUME requests \in Seq(Packets), NEW p \in Packets, Send(p), NewPacket(p)
  PROVE  Asked
<1>1. Sent(p)
  BY SendFacts, Zenon
<1> QED
  BY <1>1 DEF Sent, Asked

LEMMA WorkerSteps ==
  ASSUME TypeInv, WorkerStep
  PROVE  Asked /\ Taken(tasks[1].op)
<1>t. /\ tasks \in Seq(Tasks) /\ requests \in Seq(Packets) /\ Len(requests) \in Nat
      /\ acked \in Nat /\ pendingSub \in Seq(RemoteIds) /\ Len(pendingSub) \in Nat
      /\ RemoteIds \subseteq Nat /\ erizoId \in Erizos \cup {NoErizo}
      /\ remote \in [Ids -> Entry] /\ Len(alloc) \in Nat /\ Len(pubs) \in Nat
  BY RoomStreamsAssumption, LenProperties, Zenon DEF TypeInv, TypeOK, Tasks, Packets
<1>a. \A op \in PacketOps, id \in Nat, conn \in Int :
        /\ Packet(op, id, conn) \in Packets
        /\ Packet(op, id, conn).op = op /\ Packet(op, id, conn).id = id
        /\ Packet(op, id, conn).conn = conn
  BY <1>t, Zenon DEF Packet, Packets
<1>b. \A id \in RemoteIds : remote[id].conn \in Int
  <2> TAKE id \in RemoteIds
  <2>1. remote[id] \in Entry
    BY <1>t, Zenon DEF Ids
  <2> QED
    BY <1>t, <2>1 DEF Entry, Absent, Null, Info
<1>1. Taken(tasks[1].op)
  <2>1. PICK op : Run(op)
    BY Zenon DEF WorkerStep, ExistingStream, OnAddStream, OnRemoveStream, OnSubscribeStream,
       Publish, OnPublishStream, ReceiveOffer, OnPeerConnectionConnectErizoReady,
       SendAnswer, SendIceCandidate
  <2>2. Taken(op)
    BY <1>t, <2>1, RunFacts, Zenon
  <2> QED
    BY <2>2, Zenon DEF Taken
<1> SUFFICES Asked
  BY <1>1, Zenon
<1>u. CASE UNCHANGED requests
  BY <1>t, <1>u DEF Asked
<1>2. CASE ExistingStream \/ OnAddStream
  <2>1. CASE UNCHANGED <<remote, local, pendingSub, requests, appVars>>
    BY <1>u, <2>1, Zenon
  <2>2. ASSUME NEW id \in RemoteIds, Subscribes(id)
        PROVE  Asked
    <3> DEFINE p == SubscribePacket(id)
    <3>1. /\ p \in Packets /\ p.op = "subscribe" /\ p.id = id
          /\ p.conn = acked + Len(pendingSub) + 1
      <4>1. acked + Len(pendingSub) + 1 \in Int /\ "subscribe" \in PacketOps /\ id \in Nat
        BY <1>t DEF PacketOps
      <4> QED
        BY <1>a, <4>1 DEF SubscribePacket
    <3>2. Send(p)
      BY <2>2, Zenon DEF Subscribes
    <3> HIDE DEF p
    <3>3. NewPacket(p)
      BY <2>2, <3>1, Zenon DEF NewPacket
    <3> QED
      BY <1>t, <3>1, <3>2, <3>3, SendAsks, Zenon
  <2> QED
    BY <1>2, <2>1, <2>2, SubscribeSteps, Zenon
<1>3. CASE Publish
  <2>1. Taken("publish")
    BY <1>t, <1>3, RunFacts, Zenon DEF Publish
  <2>2. Head(tasks) = tasks[1] /\ tasks[1].op = "publish" /\ tasks[1].id \in Nat
    BY <2>1, Zenon DEF Taken, Tasks
  <2> DEFINE p == Packet("publish", tasks[1].id, 0)
  <2>3. p \in Packets /\ p.op = "publish" /\ p.id = tasks[1].id
    BY <1>a, <2>2 DEF PacketOps
  <2>4. Send(p) /\ pendingPub' = Append(pendingPub, tasks[1].id)
    BY <1>3, <2>2, Zenon DEF Publish
  <2> HIDE DEF p
  <2>5. NewPacket(p)
    BY <1>3, <2>2, <2>3, <2>4, Zenon DEF NewPacket
  <2> QED
    BY <1>t, <2>3, <2>4, <2>5, SendAsks, Zenon
<1>4. CASE SendAnswer
  <2>1. Taken("answer")
    BY <1>t, <1>4, RunFacts, Zenon DEF SendAnswer
  <2>2. Head(tasks) = tasks[1] /\ tasks[1].op = "answer" /\ tasks[1].id \in RemoteIds
    BY <2>1 DEF Taken, TypeInv, TaskFacts
  <2>3. CASE ~IsInfo(remote[tasks[1].id])
    BY <1>u, <1>4, <2>2, <2>3, Zenon DEF SendAnswer
  <2>4. CASE IsInfo(remote[tasks[1].id])
    <3> DEFINE p == Packet("answer", tasks[1].id, remote[tasks[1].id].conn)
    <3>1. /\ p \in Packets /\ p.op = "answer" /\ p.id = tasks[1].id
          /\ p.conn = remote[tasks[1].id].conn
      <4>1. tasks[1].id \in Nat /\ remote[tasks[1].id].conn \in Int /\ "answer" \in PacketOps
        BY <1>t, <1>b, <2>2, Zenon DEF PacketOps
      <4> QED
        BY <1>a, <4>1
    <3>2. Send(p)
      BY <1>4, <2>2, <2>4, Zenon DEF SendAnswer
    <3> HIDE DEF p
    <3>3. NewPacket(p)
      BY <1>4, <2>2, <2>4, <3>1, Zenon DEF NewPacket
    <3> QED
      BY <1>t, <3>1, <3>2, <3>3, SendAsks, Zenon
  <2> QED
    BY <2>3, <2>4, Zenon
<1>5. CASE SendIceCandidate
  <2>1. Taken("candidate")
    BY <1>t, <1>5, RunFacts, Zenon DEF SendIceCandidate
  <2>2. Head(tasks) = tasks[1] /\ tasks[1].id \in RemoteIds
    BY <2>1 DEF Taken, TypeInv, TaskFacts
  <2>3. CASE ~IsInfo(remote[tasks[1].id])
    BY <1>u, <1>5, <2>2, <2>3, Zenon DEF SendIceCandidate
  <2>4. CASE IsInfo(remote[tasks[1].id])
    <3> DEFINE p == Packet("candidate", tasks[1].id, remote[tasks[1].id].conn)
    <3>1. p \in Packets /\ p.op = "candidate"
      <4>1. tasks[1].id \in Nat /\ remote[tasks[1].id].conn \in Int /\ "candidate" \in PacketOps
        BY <1>t, <1>b, <2>2, Zenon DEF PacketOps
      <4> QED
        BY <1>a, <4>1
    <3>2. Send(p)
      BY <1>5, <2>2, <2>4, Zenon DEF SendIceCandidate
    <3> HIDE DEF p
    <3>3. NewPacket(p)
      BY <1>5, <3>1, Zenon DEF NewPacket
    <3> QED
      BY <1>t, <3>1, <3>2, <3>3, SendAsks, Zenon
  <2> QED
    BY <2>3, <2>4, Zenon
<1>6. CASE OnRemoveStream \/ OnSubscribeStream \/ OnPublishStream \/ ReceiveOffer
           \/ OnPeerConnectionConnectErizoReady
  BY <1>u, <1>6, Zenon DEF OnRemoveStream, OnSubscribeStream, OnPublishStream, ReceiveOffer,
     OnPeerConnectionConnectErizoReady
<1> QED
  BY <1>2, <1>3, <1>4, <1>5, <1>6, Zenon DEF WorkerStep

\* The server takes the first packet, or all are lost with the connection.
Served ==
    \/ UNCHANGED requests
    \/ requests' = <<>> /\ Disconnected
    \/ \E op \in PacketOps : Handled(op) /\ (op = "subscribe" => ServerSubscribe)

LEMMA OtherRequests ==
  ASSUME TypeInv, Next, ~WorkerStep
  PROVE  Served
<1>t. requests \in Seq(Packets)
  BY Zenon DEF TypeInv, TypeOK, Packets
<1>1. CASE \E op \in PacketOps \ {"subscribe"} : Handle(op)
  BY <1>t, <1>1, HandleFacts, Zenon DEF Served
<1>2. CASE ServerSubscribe
  BY <1>2, AllocateFacts, Zenon DEF Served, PacketOps
<1>10. CASE ServerPublish \/ ServerAnswer \/ ServerCandidate
  BY <1>1, <1>10, Zenon DEF ServerPublish, ServerAnswer, ServerCandidate, PacketOps
<1>3. CASE Disconnected
  BY <1>3, Zenon DEF Disconnected, Served
<1>4. CASE PostExisting \/ PublishStream \/ RaceWithJoin
  BY <1>4, Zenon DEF PostExisting, PublishStream, RaceWithJoin, Served
<1>5. CASE Joins
  BY <1>5, Zenon DEF Joins, OnJoinRoom, Served
<1>6. CASE \E id \in RemoteIds : ServerAddStream(id) \/ ServerRemoveStream(id)
  BY <1>6, Zenon DEF ServerAddStream, ServerRemoveStream, Served
<1>7. CASE \E id \in LocalIds : ServerAnnounce(id)
  BY <1>7, Zenon DEF ServerAnnounce, Served
<1>8. CASE \E conn \in 1 .. Len(alloc) : ServerOffer(conn)
  BY <1>8, Zenon DEF ServerOffer, Served
<1>9. CASE \E id \in Ids : OnSdpCreateSuccess(id) \/ OnIceCandidate(id)
  BY <1>9, Zenon DEF OnSdpCreateSuccess, OnIceCandidate, Served
<1> QED
  BY <1>2, <1>3, <1>4, <1>5, <1>6, <1>7, <1>8, <1>9, <1>10, Zenon DEF Next, Joins

-----------------------------------------------------------------------------
(* Types, and the streams of this client.                                  *)

LEMMA FactsStep ==
  ASSUME TypeInv, Next
  PROVE  TaskFacts' /\ PacketFacts' /\ tasks' \in Seq(Tasks) /\ requests' \in Seq(Packets)
<1>g. /\ Len(alloc) \in Nat /\ Len(alloc') \in Nat /\ Len(alloc) <= Len(alloc')
      /\ Len(pubs) \in Nat /\ Len(pubs') \in Nat /\ Len(pubs) <= Len(pubs')
      /\ published \in Nat /\ published' \in Nat /\ published <= published'
  BY StepGrows DEF Grows
<1>t. /\ serverIds \subseteq RemoteIds /\ RemoteIds \subseteq Ids /\ announce \subseteq LocalIds
      /\ offers \subseteq 1 .. Len(alloc) /\ answering \cup gathering \subseteq RemoteIds
      /\ requests \in Seq(Packets) /\ Len(requests) \in Nat /\ LocalIds \subseteq Ids
  BY LenProperties, Zenon DEF TypeInv, TypeOK, Packets, Ids
<1> DEFINE Good(t) ==
      /\ t.op \in {"existing", "remove", "answer", "candidate"} => t.id \in RemoteIds
      /\ t.op = "add" => t.id \in Ids
      /\ t.op \in {"subscribed", "offer"} => t.conn \in 1 .. Len(alloc')
      /\ t.op = "published" => t.id \in LocalIds /\ -t.conn \in 1 .. Len(pubs')
      /\ t.op = "publish" => t.id \in 1 .. published'
<1>1. ASSUME NEW i \in 1 .. Len(tasks)
      PROVE  Good(tasks[i])
  BY <1>g DEF TypeInv, TaskFacts
<1>2. ASSUME NEW t, NewTask(t)
      PROVE  Good(t)
  <2>1. /\ t.op \in {"existing", "remove", "answer", "candidate"} => t.id \in RemoteIds
        /\ t.op = "add" => t.id \in Ids
    BY <1>t, <1>2, Zenon DEF NewTask
  <2>2. t.op \in {"subscribed", "offer"} => t.conn \in 1 .. Len(alloc')
    <3>1. CASE t.op = "subscribed"
      BY <1>g, <1>2, <3>1 DEF NewTask
    <3>2. CASE t.op = "offer"
      <4>1. t.conn \in offers
        BY <1>2, <3>2, Zenon DEF NewTask
      <4>2. t.conn \in 1 .. Len(alloc)
        BY <1>t, <4>1, Zenon
      <4> QED
        BY <1>g, <4>2
    <3> QED
      BY <3>1, <3>2, Zenon
  <2>3. t.op = "published" => t.id \in LocalIds /\ -t.conn \in 1 .. Len(pubs')
    BY <1>g, <1>t, <1>2 DEF NewTask
  <2>4. t.op = "publish" => t.id \in 1 .. published'
    BY <1>g, <1>t, <1>2 DEF NewTask
  <2> QED
    BY <2>1, <2>2, <2>3, <2>4, Zenon
<1>3. CASE WorkerStep
  <2>1. Taken(tasks[1].op) /\ Asked
    BY <1>3, WorkerSteps, Zenon
  <2>2. \A i \in 1 .. Len(tasks') : Good(tasks'[i])
    <3>1. \A i \in 1 .. Len(tasks') : i + 1 \in 1 .. Len(tasks) /\ tasks'[i] = tasks[i + 1]
      BY <2>1 DEF Taken
    <3> HIDE DEF Good
    <3> QED
      BY <1>1, <3>1, Zenon
  <2>3. PacketFacts'
    <3>1. ASSUME NEW i \in 1 .. Len(requests')
          PROVE  /\ requests'[i].op = "subscribe" => requests'[i].id \in RemoteIds
                 /\ requests'[i].op = "publish" => requests'[i].id \in 1 .. published'
      <4>1. CASE i \in 1 .. Len(requests)
        BY <1>g, <2>1, <4>1 DEF Asked, TypeInv, PacketFacts
      <4>2. CASE i > Len(requests)
        <5>1. NewPacket(requests'[i])
          BY <2>1, <4>2, Zenon DEF Asked
        <5>2. tasks[1].op = "publish" => tasks[1].id \in 1 .. published'
          BY <1>g, <2>1 DEF Taken, TypeInv, TaskFacts
        <5> QED
          BY <5>1, <5>2, Zenon DEF NewPacket
      <4> QED
        BY <1>t, <4>1, <4>2
    <3> QED
      BY <3>1, Zenon DEF PacketFacts
  <2> QED
    BY <2>1, <2>2, <2>3, Zenon DEF TaskFacts, Taken, Asked
<1>4. CASE ~WorkerStep
  <2>1. Extended /\ Served
    BY <1>4, OtherSteps, OtherRequests, Zenon
  <2>2. \A i \in 1 .. Len(tasks') : Good(tasks'[i])
    <3>1. \A i \in 1 .. Len(tasks') :
            (i \in 1 .. Len(tasks) /\ tasks'[i] = tasks[i]) \/ NewTask(tasks'[i])
      BY <2>1 DEF Extended
    <3> HIDE DEF Good
    <3> QED
      BY <1>1, <1>2, <3>1, Zenon
  <2>3. PacketFacts' /\ requests' \in Seq(Packets)
    <3>1. CASE UNCHANGED requests
      BY <1>g, <1>t, <3>1 DEF TypeInv, PacketFacts
    <3>2. CASE requests' = <<>>
      BY <3>2, EmptySeq DEF PacketFacts
    <3>3. ASSUME NEW op, Handled(op)
          PROVE  PacketFacts' /\ requests' \in Seq(Packets)
      <4>1. requests' \in Seq(Packets)
        BY <3>3, Zenon DEF Handled
      <4>2. ASSUME NEW i \in 1 .. Len(requests')
            PROVE  i + 1 \in 1 .. Len(requests) /\ requests'[i] = requests[i + 1]
        <5>1. /\ Len(requests') \in Nat /\ Len(requests) = Len(requests') + 1
              /\ requests'[i] = requests[i + 1]
          BY <3>3, <4>2, Zenon DEF Handled
        <5> QED
          BY <5>1
      <4>3. PacketFacts
        BY Zenon DEF TypeInv
      <4> QED
        BY <1>g, <4>1, <4>2, <4>3 DEF PacketFacts
    <3> QED
      BY <2>1, <3>1, <3>2, <3>3, Zenon DEF Served
  <2> QED
    BY <2>1, <2>2, <2>3, Zenon DEF TaskFacts, Extended
<1> QED
  BY <1>3, <1>4, Zenon

\* The first task says which action the worker takes.
LEMMA TaskOfStep ==
  ASSUME TypeInv, WorkerStep
  PROVE  /\ ExistingStream <=> tasks[1].op = "existing"
         /\ OnAddStream <=> tasks[1].op = "add"
         /\ OnRemoveStream <=> tasks[1].op = "remove"
         /\ OnSubscribeStream <=> tasks[1].op = "subscribed"
         /\ OnPublishStream <=> tasks[1].op = "published"
         /\ Publish <=> tasks[1].op = "publish"
         /\ ReceiveOffer <=> tasks[1].op = "offer"
         /\ OnPeerConnectionConnectErizoReady <=> tasks[1].op = "ready"
         /\ SendAnswer <=> tasks[1].op = "answer"
         /\ SendIceCandidate <=> tasks[1].op = "candidate"
<1>1. Taken(tasks[1].op)
  BY WorkerSteps, Zenon
<1>2. Head(tasks) = tasks[1]
  BY <1>1, Zenon DEF Taken
<1>3. \A op : Run(op) => tasks[1].op = op
  BY <1>2, Zenon DEF Run
<1>4. /\ ExistingStream => tasks[1].op = "existing"
      /\ OnAddStream => tasks[1].op = "add"
      /\ OnRemoveStream => tasks[1].op = "remove"
      /\ OnSubscribeStream => tasks[1].op = "subscribed"
      /\ OnPublishStream => tasks[1].op = "published"
      /\ Publish => tasks[1].op = "publish"
      /\ ReceiveOffer => tasks[1].op = "offer"
      /\ OnPeerConnectionConnectErizoReady => tasks[1].op = "ready"
      /\ SendAnswer => tasks[1].op = "answer"
      /\ SendIceCandidate => tasks[1].op = "candidate"
  BY <1>3, Zenon DEF ExistingStream, OnAddStream, OnRemoveStream, OnSubscribeStream,
     OnPublishStream, Publish, ReceiveOffer, OnPeerConnectionConnectErizoReady, SendAnswer,
     SendIceCandidate
<1> QED
  BY <1>4, Zenon DEF WorkerStep

\* What becomes of the map of remote streams.
RemoteChange ==
    \/ UNCHANGED remote
    \/ Joins /\ remote' = [id \in Ids |-> Absent]
    \/ \E id \in RemoteIds : Subscribes(id) /\ remote' = [remote EXCEPT ![id] = Info(0)]
    \/ /\ OnRemoveStream /\ tasks[1].op = "remove" /\ tasks[1].id \in RemoteIds
       /\ remote' = [remote EXCEPT ![tasks[1].id] = Absent]
    \/ /\ OnSubscribeStream /\ pendingSub[1] \in RemoteIds /\ IsInfo(remote[pendingSub[1]])
       /\ remote' = [remote EXCEPT ![pendingSub[1]] = Info(tasks[1].conn)]
    \/ /\ crash' # "no"
       /\ \E id \in RemoteIds : remote' = [remote EXCEPT ![id] = Null]

LEMMA RemoteSteps ==
  ASSUME TypeInv, Next
  PROVE  RemoteChange
<1>t. /\ \A id : Touch(remote, id) = remote \/ Touch(remote, id) = [remote EXCEPT ![id] = Null]
      /\ \A id : IsInfo(remote[id]) => Touch(remote, id) = remote
  BY DEF Touch, IsInfo, Absent
<1>1. CASE Joins
  BY <1>1, Zenon DEF Joins, OnJoinRoom, RemoteChange
<1>2. CASE ExistingStream \/ OnAddStream
  <2>1. CASE \E id \in RemoteIds : Subscribes(id)
    BY <2>1, Zenon DEF Subscribes, RemoteChange
  <2> QED
    BY <1>2, <2>1, SubscribeSteps, Zenon DEF RemoteChange
<1>3. ASSUME WorkerStep
      PROVE  /\ Head(tasks) = tasks[1]
             /\ tasks[1].op \in {"remove", "answer", "candidate"} => tasks[1].id \in RemoteIds
  BY <1>3, WorkerSteps DEF Taken, TypeInv, TaskFacts
<1>4. CASE OnRemoveStream
  <2>1. WorkerStep
    BY <1>4, Zenon DEF WorkerStep
  <2> QED
    BY <1>3, <1>4, <2>1, TaskOfStep, Zenon DEF OnRemoveStream, RemoteChange
<1>5. CASE OnSubscribeStream
  <2>1. WorkerStep /\ pendingSub # <<>>
    BY <1>5, Zenon DEF WorkerStep, OnSubscribeStream
  <2>2. Head(pendingSub) = pendingSub[1] /\ pendingSub[1] \in RemoteIds
    <3>1. pendingSub \in Seq(RemoteIds)
      BY Zenon DEF TypeInv, TypeOK
    <3> QED
      BY <2>1, <3>1, HeadTailProperties, EmptySeq, LenProperties
  <2>3. CASE IsInfo(remote[pendingSub[1]])
    BY <1>3, <1>5, <2>1, <2>2, <2>3, Zenon DEF OnSubscribeStream, RemoteChange
  <2>4. CASE ~IsInfo(remote[pendingSub[1]])
    BY <1>t, <1>5, <2>2, <2>4, Zenon DEF OnSubscribeStream, RemoteChange
  <2> QED
    BY <2>3, <2>4, Zenon
<1>6. CASE SendAnswer
  <2>1. WorkerStep
    BY <1>6, Zenon DEF WorkerStep
  <2> QED
    BY <1>t, <1>3, <1>6, <2>1, TaskOfStep DEF SendAnswer, RemoteChange
<1>7. CASE SendIceCandidate
  <2>1. WorkerStep
    BY <1>7, Zenon DEF WorkerStep
  <2> QED
    BY <1>t, <1>3, <1>7, <2>1, TaskOfStep, Zenon DEF SendIceCandidate, RemoteChange
<1>8. CASE UNCHANGED remote
  BY <1>8, Zenon DEF RemoteChange
<1> QED
  BY <1>1, <1>2, <1>4, <1>5, <1>6, <1>7, <1>8, StepFrame, Zenon DEF Frame

LEMMA OwnStep ==
  ASSUME TypeInv, Next
  PROVE  OwnFacts'
<1>t. Len(tasks) \in Nat /\ LocalIds \subseteq Ids /\ announce \subseteq LocalIds
  BY LenProperties, Zenon DEF TypeInv, TypeOK, Ids
<1>f. Frame
  BY StepFrame, Zenon
<1>l. \A id \in Ids : IsInfo(local[id]) => IsInfo(local'[id])
  <2>t. local \in [Ids -> Entry]
    BY Zenon DEF TypeInv, TypeOK
  <2>1. \A i, id \in Ids : IsInfo(local[id]) => IsInfo(Touch(local, i)[id])
    BY <2>t DEF Touch, IsInfo, Absent
  <2>2. CASE OnAddStream
    <3>1. Taken("add")
      BY <2>2, RunFacts, Zenon DEF OnAddStream, TypeInv, TypeOK, Tasks
    <3>2. Head(tasks).id \in Ids
      BY <3>1 DEF Taken, TypeInv, TaskFacts
    <3> QED
      BY <2>1, <2>2, <3>2, Zenon DEF OnAddStream
  <2>3. CASE OnPublishStream
    BY <2>t, <2>3, Zenon DEF OnPublishStream, EnterLocal, IsInfo, Info
  <2>4. CASE SendIceCandidate
    <3>1. Taken("candidate")
      BY <2>4, RunFacts, Zenon DEF SendIceCandidate, TypeInv, TypeOK, Tasks
    <3>2. Head(tasks).id \in Ids
      BY <3>1 DEF Taken, TypeInv, TaskFacts, Ids
    <3> QED
      BY <2>1, <2>4, <3>2, Zenon DEF SendIceCandidate
  <2> QED
    BY <1>f, <2>2, <2>3, <2>4, Zenon DEF Frame
<1> DEFINE Then(id, n) ==
      \/ IsInfo(local'[id])
      \/ \E j \in 1 .. Len(tasks') : j < n /\ tasks'[j].op = "published" /\ tasks'[j].id = id
<1>1. CASE WorkerStep
  <2>1. Taken(tasks[1].op) /\ UNCHANGED announce
    BY <1>1, WorkerSteps, Zenon DEF WorkerStep, ExistingStream, OnAddStream, OnRemoveStream,
       OnSubscribeStream, Publish, OnPublishStream, ReceiveOffer, Run, serverVars,
       OnPeerConnectionConnectErizoReady, SendAnswer, SendIceCandidate
  <2>2. ASSUME NEW id \in LocalIds, NEW n \in Nat, Entered(id, n + 1)
        PROVE  Then(id, n)
    <3>1. CASE IsInfo(local[id])
      BY <1>l, <1>t, <3>1, Zenon
    <3>2. ASSUME NEW j \in 1 .. Len(tasks), j < n + 1,
                 tasks[j].op = "published", tasks[j].id = id
          PROVE  Then(id, n)
      <4>1. CASE j = 1
        <5>1. OnPublishStream /\ Head(tasks).id = id
          BY <1>1, <2>1, <3>2, <4>1, TaskOfStep, Zenon DEF Taken
        <5>2. local \in [Ids -> Entry] /\ id \in Ids
          BY <1>t, Zenon DEF TypeInv, TypeOK
        <5> QED
          BY <5>1, <5>2, Zenon DEF OnPublishStream, EnterLocal, IsInfo, Info
      <4>2. CASE j # 1
        <5>1. j - 1 \in 1 .. Len(tasks') /\ j - 1 < n /\ tasks'[j - 1] = tasks[j]
          BY <2>1, <3>2, <4>2 DEF Taken
        <5> QED
          BY <3>2, <5>1, Zenon
      <4> QED
        BY <4>1, <4>2, Zenon
    <3> QED
      BY <2>2, <3>1, <3>2, Zenon DEF Entered
  <2>3. \A id \in announce' : Then(id, Len(tasks') + 1)
    <3>1. Len(tasks) = Len(tasks') + 1 /\ Len(tasks') + 1 \in Nat
      BY <2>1 DEF Taken
    <3> QED
      BY <1>t, <2>1, <2>2, <3>1, Zenon DEF TypeInv, OwnFacts
  <2>4. ASSUME NEW i \in 1 .. Len(tasks'), tasks'[i].op = "add", tasks'[i].id \in LocalIds
        PROVE  Then(tasks'[i].id, i)
    <3> HIDE DEF Then
    <3>1. i \in Nat /\ i + 1 \in 1 .. Len(tasks) /\ tasks'[i] = tasks[i + 1]
      BY <2>1 DEF Taken
    <3>2. Entered(tasks'[i].id, i + 1)
      BY <2>4, <3>1, Zenon DEF TypeInv, OwnFacts
    <3> QED
      BY <2>2, <2>4, <3>1, <3>2, Zenon
  <2> QED
    BY <2>3, <2>4, Zenon DEF OwnFacts, Entered
<1>2. CASE ~WorkerStep
  <2>1. Extended
    BY <1>2, OtherSteps, Zenon
  <2>2. ASSUME NEW id \in LocalIds, NEW n \in Nat, NEW m \in Nat, n <= m, Entered(id, n)
        PROVE  Then(id, m)
    <3>1. \A j \in 1 .. Len(tasks) : j \in 1 .. Len(tasks') /\ tasks'[j] = tasks[j]
      BY <2>1 DEF Extended
    <3> QED
      BY <1>l, <1>t, <2>2, <3>1 DEF Entered
  <2>3. ASSUME NEW id \in announce'
        PROVE  Then(id, Len(tasks') + 1)
    <3>1. CASE id \in announce
      <4>1. Len(tasks) + 1 \in Nat /\ Len(tasks') + 1 \in Nat /\ Len(tasks) + 1 <= Len(tasks') + 1
        BY <2>1 DEF Extended
      <4> QED
        BY <1>t, <2>2, <3>1, <4>1, Zenon DEF TypeInv, OwnFacts
    <3>2. CASE id \notin announce
      <4>1. ServerPublish
        BY <1>f, <2>3, <3>2, Zenon DEF Frame, Disconnected, ServerAnnounce
      <4>2. id \in LocalIds /\ Post(Task("published", id, -Len(pubs')))
        BY <2>3, <3>2, <4>1, Zenon DEF ServerPublish
      <4>3. -Len(pubs') \in Int /\ id \in Nat /\ tasks \in Seq(Tasks)
        <5>1. Len(pubs') \in Nat
          BY StepGrows, Zenon DEF Grows
        <5>2. id \in Nat
          BY <4>2, RoomStreamsAssumption, Zenon
        <5> QED
          BY <5>1, <5>2 DEF TypeInv, TypeOK, Tasks
      <4>4. Posted(Task("published", id, -Len(pubs')))
        BY <4>2, <4>3, PostFacts, Zenon DEF Task, Tasks, TaskOps
      <4> QED
        BY <4>4 DEF Posted, Task
    <3> QED
      BY <3>1, <3>2, Zenon
  <2>4. ASSUME NEW i \in 1 .. Len(tasks'), tasks'[i].op = "add", tasks'[i].id \in LocalIds
        PROVE  Then(tasks'[i].id, i)
    <3> HIDE DEF Then
    <3>1. CASE i <= Len(tasks)
      <4>1. i \in 1 .. Len(tasks) /\ tasks'[i] = tasks[i] /\ i \in Nat /\ i <= i
        BY <2>1, <3>1 DEF Extended
      <4>2. Entered(tasks'[i].id, i)
        BY <2>4, <4>1, Zenon DEF TypeInv, OwnFacts
      <4> QED
        BY <2>2, <2>4, <4>1, <4>2, Zenon
    <3>2. CASE i > Len(tasks)
      <4>1. NewTask(tasks'[i])
        BY <2>1, <3>2, Zenon DEF Extended
      <4>2. tasks'[i].id \in announce
        BY <2>4, <4>1, RoomStreamsAssumption, Zenon DEF NewTask
      <4>3. Entered(tasks'[i].id, Len(tasks) + 1)
        BY <4>2, Zenon DEF TypeInv, OwnFacts
      <4>4. Len(tasks) + 1 \in Nat /\ i \in Nat /\ Len(tasks) + 1 <= i
        BY <1>t, <2>1, <3>2 DEF Extended
      <4> QED
        BY <2>2, <2>4, <4>3, <4>4, Zenon
    <3> QED
      BY <1>t, <2>1, <3>1, <3>2 DEF Extended
  <2> QED
    BY <2>3, <2>4, Zenon DEF OwnFacts, Entered
<1> QED
  BY <1>1, <1>2, Zenon

LEMMA MapsStep ==
  ASSUME TypeInv, Next
  PROVE  remote' \in [Ids -> Entry'] /\ local' \in [Ids -> Entry'] /\ OwnStreamsStayLocal'
<1>t. /\ remote \in [Ids -> Entry] /\ local \in [Ids -> Entry] /\ OwnStreamsStayLocal
      /\ RemoteIds \subseteq Ids /\ LocalIds \subseteq Ids
      /\ \A id \in RemoteIds : id \notin LocalIds
  BY RoomStreamsAssumption, Zenon DEF TypeInv, TypeOK, Ids
<1>g. /\ Len(alloc) \in Nat /\ Len(alloc') \in Nat /\ Len(alloc) <= Len(alloc')
      /\ Len(pubs) \in Nat /\ Len(pubs') \in Nat /\ Len(pubs) <= Len(pubs')
  BY StepGrows, Zenon DEF Grows
<1>e. /\ Entry \subseteq Entry' /\ Absent \in Entry' /\ Null \in Entry' /\ Info(0) \in Entry'
      /\ \A c \in Int : -Len(pubs) <= c /\ c <= Len(alloc) => Info(c) \in Entry'
  BY <1>g DEF Entry
<1>i. ~IsInfo(Absent) /\ ~IsInfo(Null)
  BY Zenon DEF IsInfo, Absent, Null
<1>w. ASSUME WorkerStep
      PROVE  /\ Head(tasks) = tasks[1]
             /\ tasks[1].op = "subscribed" => tasks[1].conn \in 1 .. Len(alloc)
             /\ tasks[1].op = "published" =>
                  tasks[1].id \in LocalIds /\ -tasks[1].conn \in 1 .. Len(pubs)
                  /\ tasks[1].conn \in Int
  BY <1>w, WorkerSteps DEF Taken, TypeInv, TaskFacts, Tasks
<1>1. /\ remote' \in [Ids -> Entry']
      /\ \A id \in LocalIds : ~IsInfo(remote'[id])
  <2> USE <1>t, <1>e, <1>i DEF OwnStreamsStayLocal
  <2>1. CASE UNCHANGED remote
    BY <2>1, Zenon
  <2>2. CASE remote' = [id \in Ids |-> Absent]
    BY <2>2, Zenon
  <2>3. CASE \E id \in RemoteIds : remote' = [remote EXCEPT ![id] = Info(0)]
    BY <2>3, Zenon
  <2>4. CASE \E id \in RemoteIds : remote' = [remote EXCEPT ![id] = Absent]
    BY <2>4, Zenon
  <2>5. CASE /\ OnSubscribeStream /\ pendingSub[1] \in RemoteIds
             /\ remote' = [remote EXCEPT ![pendingSub[1]] = Info(tasks[1].conn)]
    <3>1. tasks[1].conn \in 1 .. Len(alloc)
      BY <1>w, <2>5, TaskOfStep, Zenon DEF WorkerStep
    <3>2. Info(tasks[1].conn) \in Entry'
      BY <1>g, <3>1
    <3> QED
      BY <2>5, <3>2, Zenon
  <2>6. CASE \E id \in RemoteIds : remote' = [remote EXCEPT ![id] = Null]
    BY <2>6, Zenon
  <2> QED
    BY <2>1, <2>2, <2>3, <2>4, <2>5, <2>6, RemoteSteps, Zenon DEF RemoteChange
<1>2. local' \in [Ids -> Entry']
  <2>1. \A id : Touch(local, id) \in [Ids -> Entry']
    BY <1>t, <1>e, Zenon DEF Touch
  <2>2. CASE OnAddStream
    BY <1>t, <1>e, <2>1, <2>2, Zenon DEF OnAddStream
  <2>3. CASE SendIceCandidate
    BY <1>t, <1>e, <2>1, <2>3, Zenon DEF SendIceCandidate
  <2>4. CASE OnPublishStream
    <3>1. Head(tasks) = tasks[1] /\ -tasks[1].conn \in 1 .. Len(pubs) /\ tasks[1].conn \in Int
      BY <1>w, <2>4, TaskOfStep, Zenon DEF WorkerStep
    <3>2. Info(tasks[1].conn) \in Entry'
      BY <1>e, <1>g, <3>1
    <3> QED
      BY <1>t, <1>e, <2>4, <3>1, <3>2, Zenon DEF OnPublishStream, EnterLocal
  <2> QED
    BY <1>t, <1>e, <2>2, <2>3, <2>4, StepFrame, Zenon DEF Frame
<1>3. \A id \in LocalIds : id \notin observed'
  <2>1. CASE UNCHANGED observed
    BY <1>t, <2>1, Zenon DEF OwnStreamsStayLocal
  <2>2. CASE \E id \in RemoteIds : Subscribes(id)
    BY <1>t, <2>2, Zenon DEF OwnStreamsStayLocal, Subscribes
  <2> QED
    BY <2>1, <2>2, StepFrame, SubscribeSteps, Zenon DEF Frame, appVars
<1> QED
  BY <1>1, <1>2, <1>3, Zenon DEF OwnStreamsStayLocal

LEMMA PendingStep ==
  ASSUME TypeInv, Next
  PROVE  pendingSub' \in Seq(RemoteIds) /\ pendingPub' \in Seq(1 .. published')
<1>t. pendingSub \in Seq(RemoteIds) /\ pendingPub \in Seq(1 .. published)
  BY Zenon DEF TypeInv, TypeOK
<1>1. pendingSub' \in Seq(RemoteIds)
  <2>1. CASE ExistingStream \/ OnAddStream
    BY <1>t, <2>1, SubscribeSteps, AppendProperties DEF Subscribes
  <2>2. CASE OnSubscribeStream
    BY <1>t, <2>2, HeadTailProperties, Zenon DEF OnSubscribeStream
  <2> QED
    BY <1>t, <2>1, <2>2, StepFrame, Zenon DEF Frame
<1>2. published \in Nat /\ published' \in Nat /\ published <= published'
  BY StepGrows DEF Grows
<1>3. pendingPub \in Seq(1 .. published')
  <2>1. 1 .. published \subseteq 1 .. published'
    BY <1>2
  <2> QED
    BY <1>t, <2>1, SeqMonotonic, Zenon
<1>4. CASE Publish
  <2>1. WorkerStep
    BY <1>4, Zenon DEF WorkerStep
  <2>2. Taken(tasks[1].op) /\ tasks[1].op = "publish"
    BY <1>4, <2>1, WorkerSteps, TaskOfStep, Zenon
  <2>3. Head(tasks).id \in 1 .. published
    BY <2>2 DEF Taken, TypeInv, TaskFacts
  <2>4. Head(tasks).id \in 1 .. published'
    BY <1>2, <2>3
  <2> QED
    BY <1>1, <1>3, <1>4, <2>4, AppendProperties, Zenon DEF Publish
<1>5. CASE OnPublishStream
  BY <1>1, <1>3, <1>5, HeadTailProperties, Zenon DEF OnPublishStream
<1> QED
  BY <1>1, <1>3, <1>4, <1>5, StepFrame, Zenon DEF Frame

LEMMA SetsStep ==
  ASSUME TypeInv, Next
  PROVE  /\ serverIds' \subseteq RemoteIds /\ known' \subseteq Ids /\ removed' \subseteq RemoteIds
         /\ offers' \subseteq 1 .. Len(alloc') /\ announce' \subseteq LocalIds
         /\ observed' \subseteq RemoteIds
         /\ answering' \subseteq RemoteIds /\ gathering' \subseteq RemoteIds
<1>f. Frame
  BY StepFrame, Zenon
<1>t. /\ serverIds \subseteq RemoteIds /\ known \subseteq Ids /\ removed \subseteq RemoteIds
      /\ announce \subseteq LocalIds /\ observed \subseteq RemoteIds
      /\ answering \subseteq RemoteIds /\ gathering \subseteq RemoteIds
      /\ RemoteIds \subseteq Ids /\ LocalIds \subseteq Ids
  BY Zenon DEF TypeInv, TypeOK, Ids
<1>1. serverIds' \subseteq RemoteIds /\ known' \subseteq Ids
  <2>1. CASE Joins
    BY <1>t, <2>1, Zenon DEF Joins, OnJoinRoom
  <2>2. CASE ServerPublish
    BY <1>t, <2>2, Zenon DEF ServerPublish
  <2>3. CASE \E id \in RemoteIds : ServerAddStream(id) \/ ServerRemoveStream(id)
    BY <1>t, <2>3, Zenon DEF ServerAddStream, ServerRemoveStream
  <2> QED
    BY <1>f, <1>t, <2>1, <2>2, <2>3, Zenon DEF Frame
<1>2. removed' \subseteq RemoteIds
  BY <1>f, <1>t, Zenon DEF Frame, ServerRemoveStream
<1>3. offers' \subseteq 1 .. Len(alloc')
  <2>1. offers \subseteq 1 .. Len(alloc) /\ Len(alloc) \in Nat /\ Len(alloc') \in Nat
        /\ Len(alloc) <= Len(alloc')
    BY StepGrows, Zenon DEF Grows, TypeInv, TypeOK
  <2>2. offers \subseteq 1 .. Len(alloc')
    BY <2>1
  <2>3. CASE ServerSubscribe
    <3>1. Len(alloc') \in 1 .. Len(alloc')
      BY <2>1, <2>3, AllocateFacts
    <3> QED
      BY <2>2, <2>3, <3>1, Zenon DEF ServerSubscribe
  <2>4. CASE Disconnected \/ \E conn \in 1 .. Len(alloc) : ServerOffer(conn)
    BY <2>2, <2>4, Zenon DEF Disconnected, ServerOffer
  <2> QED
    BY <1>f, <2>2, <2>3, <2>4, Zenon DEF Frame
<1>4. announce' \subseteq LocalIds
  BY <1>f, <1>t, Zenon DEF Frame, ServerPublish, ServerAnnounce, Disconnected
<1>5. observed' \subseteq RemoteIds
  BY <1>f, <1>t, SubscribeSteps, Zenon DEF Frame, Subscribes, appVars
<1>6. answering' \subseteq RemoteIds
  <2>1. CASE ReceiveOffer
    <3>1. \A conn : Matches(remote, conn) \subseteq RemoteIds
      BY DEF Matches, TypeInv, OwnStreamsStayLocal, Ids, IsInfo, Info
    <3> QED
      BY <1>t, <2>1, <3>1, Zenon DEF ReceiveOffer
  <2> QED
    BY <1>f, <1>t, <2>1, Zenon DEF Frame, OnSdpCreateSuccess
<1>7. gathering' \subseteq RemoteIds
  BY <1>f, <1>t, Zenon DEF Frame, OnSdpCreateSuccess, OnIceCandidate
<1> QED
  BY <1>1, <1>2, <1>3, <1>4, <1>5, <1>6, <1>7, Zenon

LEMMA ScalarsStep ==
  ASSUME TypeInv, Next
  PROVE  /\ link' \in {"down", "joining", "up"} /\ crash' \in Crashes
         /\ erizoId' \in Erizos \cup {NoErizo}
<1>f. Frame
  BY StepFrame, Zenon
<1>t. /\ link \in {"down", "joining", "up"} /\ crash \in Crashes
      /\ erizoId \in Erizos \cup {NoErizo}
  BY Zenon DEF TypeInv, TypeOK
<1>1. link' \in {"down", "joining", "up"}
  BY <1>f, <1>t, Zenon DEF Frame, Joins, OnJoinRoom, PostExisting, Disconnected
<1>2. crash' \in Crashes
  <2>1. CASE WorkerStep
    BY <1>t, <2>1, Zenon DEF WorkerStep, ExistingStream, OnAddStream, OnRemoveStream,
       OnSubscribeStream, Publish, OnPublishStream, ReceiveOffer, SendAnswer,
       OnPeerConnectionConnectErizoReady, SendIceCandidate, Crashes
  <2>2. CASE Joins \/ PostExisting \/ Disconnected \/ PublishStream \/ RaceWithJoin
    BY <1>t, <2>2, Zenon DEF Joins, OnJoinRoom, PostExisting, Disconnected, PublishStream,
       RaceWithJoin, Crashes
  <2>3. CASE \E id \in Ids : OnSdpCreateSuccess(id) \/ OnIceCandidate(id)
    BY <1>t, <2>3, Zenon DEF OnSdpCreateSuccess, OnIceCandidate
  <2>4. CASE ServerSends
    BY <1>t, <2>4, Zenon DEF ServerSends
  <2>5. CASE \/ ServerSubscribe \/ ServerPublish \/ ServerAnswer \/ ServerCandidate
             \/ \E id \in RemoteIds : ServerAddStream(id) \/ ServerRemoveStream(id)
             \/ \E id \in LocalIds : ServerAnnounce(id)
             \/ \E conn \in 1 .. Len(alloc) : ServerOffer(conn)
    BY <2>4, <2>5, Zenon DEF ServerSubscribe, ServerPublish, ServerAnswer, ServerCandidate, Handle,
       ServerAddStream, ServerRemoveStream, ServerAnnounce, ServerOffer
  <2> QED
    BY <2>1, <2>2, <2>3, <2>5, Zenon DEF Next, Joins
<1>3. erizoId' \in Erizos \cup {NoErizo}
  <2>1. CASE OnSubscribeStream \/ OnPublishStream
    <3>1. Taken(tasks[1].op) /\ (tasks[1].op = "subscribed" \/ tasks[1].op = "published")
      BY <2>1, WorkerSteps, TaskOfStep, Zenon DEF WorkerStep
    <3>2. Head(tasks) = tasks[1] /\ 1 \in 1 .. Len(tasks)
      BY <3>1 DEF Taken
    <3>3. CASE OnSubscribeStream
      <4>1. tasks[1].conn \in 1 .. Len(alloc)
        BY <3>2, <3>3, TaskOfStep, Zenon DEF TypeInv, TaskFacts, WorkerStep
      <4>2. alloc[tasks[1].conn].erizo \in Erizos
        <5>1. alloc \in Seq(Allocs)
          BY Zenon DEF TypeInv, TypeOK, Allocs
        <5>2. alloc[tasks[1].conn] \in Allocs
          BY <4>1, <5>1, ElementOfSeq, Zenon
        <5> QED
          BY <5>2, Zenon DEF Allocs
      <4> QED
        BY <1>t, <3>2, <3>3, <4>2, Zenon DEF OnSubscribeStream, LearnErizo
    <3>4. CASE OnPublishStream
      <4>1. -tasks[1].conn \in 1 .. Len(pubs)
        BY <3>2, <3>4, TaskOfStep, Zenon DEF TypeInv, TaskFacts, WorkerStep
      <4>2. pubs[-tasks[1].conn].erizo \in Erizos
        <5>1. pubs \in Seq(Pubs)
          BY Zenon DEF TypeInv, TypeOK, Pubs
        <5>2. pubs[-tasks[1].conn] \in Pubs
          BY <4>1, <5>1, ElementOfSeq, Zenon
        <5> QED
          BY <5>2, Zenon DEF Pubs
      <4> QED
        BY <1>t, <3>2, <3>4, <4>2, Zenon DEF OnPublishStream, LearnErizo
    <3> QED
      BY <2>1, <3>3, <3>4, Zenon
  <2> QED
    BY <1>f, <1>t, <2>1, Zenon DEF Frame
<1> QED
  BY <1>1, <1>2, <1>3, Zenon

LEMMA TypeInit ==
  ASSUME Init
  PROVE  TypeInv
<1>1. \A S : <<>> \in Seq(S) /\ Len(<<>>) = 0
  BY EmptySeq, Zenon
<1>2. TypeOK
  BY <1>1, RoomStreamsAssumption DEF Init, TypeOK, Entry, Crashes
<1>3. TaskFacts /\ PacketFacts /\ OwnFacts
  <2>1. 1 .. Len(tasks) = {} /\ 1 .. Len(requests) = {} /\ announce = {}
    <3>1. tasks = <<>> /\ requests = <<>> /\ announce = {}
      BY Zenon DEF Init
    <3>2. Len(tasks) = 0 /\ Len(requests) = 0
      BY <1>1, <3>1, Zenon
    <3> QED
      BY <3>1, <3>2
  <2> QED
    BY <2>1, Zenon DEF TaskFacts, PacketFacts, OwnFacts
<1>4. OwnStreamsStayLocal
  BY Zenon DEF Init, OwnStreamsStayLocal, IsInfo, Absent, Ids
<1> QED
  BY <1>2, <1>3, <1>4, Zenon DEF TypeInv

LEMMA TypeStep ==
  ASSUME TypeInv, Next
  PROVE  TypeInv'
<1>1. /\ TaskFacts' /\ PacketFacts' /\ OwnFacts' /\ OwnStreamsStayLocal'
      /\ tasks' \in Seq(Tasks) /\ requests' \in Seq(Packets)
  BY FactsStep, OwnStep, MapsStep, Zenon
<1>2. /\ alloc' \in Seq(Allocs) /\ pubs' \in Seq(Pubs') /\ published' \in 0 .. MaxPublish
      /\ acked' \in Nat /\ joins' \in 0 .. MaxJoins
  BY StepGrows, Zenon DEF Grows
<1> QED
  BY <1>1, <1>2, MapsStep, PendingStep, SetsStep, ScalarsStep, Zenon
  DEF TypeInv, TypeOK, Tasks, Packets, Allocs, Pubs

LEMMA TypeStutter ==
  ASSUME TypeInv, UNCHANGED vars
  PROVE  TypeInv'
  BY ZenonT(30) DEF vars, mapVars, serverVars, appVars, historyVars, TypeInv, TypeOK, TaskFacts,
     PacketFacts, OwnFacts, Entered, OwnStreamsStayLocal, Entry

\* The maps, queues and records of the room keep their types, for any number of
\* streams, joins and publications.
THEOREM TypeCorrect == Spec => []TypeOK
<1>1. TypeInv => TypeOK
  BY Zenon DEF TypeInv
<1> QED
  BY TypeInit, TypeStep, TypeStutter, <1>1, PTL DEF Spec

\* The announcement of an own stream comes after its publish answer, so that
\* OnAddStream never takes it for a remote one.
THEOREM OwnStreamsAreLocal == Spec => []OwnStreamsStayLocal
<1>1. TypeInv => OwnStreamsStayLocal
  BY Zenon DEF TypeInv
<1> QED
  BY TypeInit, TypeStep, TypeStutter, <1>1, PTL DEF Spec

-----------------------------------------------------------------------------
(* The numbers of subscriptions and publications.                          *)

\* The first acked connections have been handled.  There is an answer in the
\* queue for each of the others, in their order; the requests on their way have
\* higher numbers; and no number exceeds that of the last pending stream.
SubBounds == acked <= Len(alloc) /\ Len(alloc) <= acked + Len(pendingSub)

SubTasks ==
    \A i \in 1 .. Len(tasks) : tasks[i].op = "subscribed" =>
        /\ acked < tasks[i].conn
        /\ \A j \in 1 .. Len(tasks) :
             i < j /\ tasks[j].op = "subscribed" => tasks[i].conn < tasks[j].conn

SubCover ==
    \A c \in 1 .. Len(alloc) : acked < c =>
        \E i \in 1 .. Len(tasks) : tasks[i].op = "subscribed" /\ tasks[i].conn = c

SubRequests ==
    \A i \in 1 .. Len(requests) : requests[i].op = "subscribe" =>
        /\ Len(alloc) < requests[i].conn /\ requests[i].conn <= acked + Len(pendingSub)
        /\ \A j \in 1 .. Len(requests) :
             i < j /\ requests[j].op = "subscribe" => requests[i].conn < requests[j].conn

SubRemote == \A id \in RemoteIds : remote[id].conn \in 0 .. acked

SubFacts == SubBounds /\ SubTasks /\ SubCover /\ SubRequests /\ SubRemote

\* The stream of a publish answer is pending.  Streams become pending, are
\* requested and answered in the order of the calls of PublishStream.
Label(t) == pubs[-t.conn].id

PubPending == \A i, j \in 1 .. Len(pendingPub) : i < j => pendingPub[i] < pendingPub[j]

PubCalls ==
    \A i \in 1 .. Len(tasks) : tasks[i].op = "publish" =>
        /\ \A k \in 1 .. Len(pendingPub) : pendingPub[k] < tasks[i].id
        /\ \A j \in 1 .. Len(tasks) :
             i < j /\ tasks[j].op = "publish" => tasks[i].id < tasks[j].id

PubAnswers ==
    \A i \in 1 .. Len(tasks) : tasks[i].op = "published" =>
        /\ \E k \in 1 .. Len(pendingPub) : pendingPub[k] = Label(tasks[i])
        /\ \A j \in 1 .. Len(tasks) :
             i < j /\ tasks[j].op = "published" => Label(tasks[i]) < Label(tasks[j])
        /\ \A j \in 1 .. Len(requests) :
             requests[j].op = "publish" => Label(tasks[i]) < requests[j].id

PubRequests ==
    \A i \in 1 .. Len(requests) : requests[i].op = "publish" =>
        /\ \E k \in 1 .. Len(pendingPub) : pendingPub[k] = requests[i].id
        /\ \A j \in 1 .. Len(requests) :
             i < j /\ requests[j].op = "publish" => requests[i].id < requests[j].id

PubFacts == PubPending /\ PubCalls /\ PubAnswers /\ PubRequests

-----------------------------------------------------------------------------
(* The order of subscriptions.                                             *)

\* The queues after their first element was taken.
TaskShift ==
    /\ Len(tasks') \in Nat /\ Len(tasks) = Len(tasks') + 1 /\ 1 \in 1 .. Len(tasks)
    /\ \A i \in 1 .. Len(tasks') : i + 1 \in 1 .. Len(tasks) /\ tasks'[i] = tasks[i + 1]
    /\ \A i \in 1 .. Len(tasks) : i # 1 =>
         i - 1 \in 1 .. Len(tasks') /\ tasks'[i - 1] = tasks[i]

RequestShift ==
    /\ Len(requests') \in Nat /\ Len(requests) = Len(requests') + 1 /\ 1 \in 1 .. Len(requests)
    /\ \A i \in 1 .. Len(requests') :
         i + 1 \in 1 .. Len(requests) /\ requests'[i] = requests[i + 1]
    /\ \A i \in 1 .. Len(requests) : i # 1 =>
         i - 1 \in 1 .. Len(requests') /\ requests'[i - 1] = requests[i]

LEMMA Shifted ==
  /\ \A op : Taken(op) => TaskShift
  /\ \A op : Handled(op) => RequestShift
<1>1. ASSUME NEW op, Taken(op) PROVE TaskShift
  BY <1>1 DEF Taken, TaskShift
<1>2. ASSUME NEW op, Handled(op) PROVE RequestShift
  BY <1>2 DEF Handled, RequestShift
<1> QED
  BY <1>1, <1>2, Zenon

\* The types of what the order is about.
LEMMA OrderTypes ==
  ASSUME TypeInv
  PROVE  /\ acked \in Nat /\ Len(alloc) \in Nat /\ Len(pendingSub) \in Nat
         /\ Len(tasks) \in Nat /\ Len(requests) \in Nat /\ Len(pubs) \in Nat
         /\ Len(pendingPub) \in Nat
         /\ \A i \in 1 .. Len(tasks) : tasks[i].conn \in Int /\ tasks[i].id \in Nat
         /\ \A i \in 1 .. Len(requests) : requests[i].conn \in Int /\ requests[i].id \in Nat
         /\ \A i \in 1 .. Len(pendingSub) : pendingSub[i] \in RemoteIds
         /\ \A i \in 1 .. Len(pendingPub) : pendingPub[i] \in Nat
         /\ \A c \in 1 .. Len(alloc) : alloc[c].id \in RemoteIds /\ alloc[c].erizo \in Erizos
         /\ \A c \in 1 .. Len(pubs) : pubs[c].id \in Nat /\ pubs[c].erizo \in Erizos
<1>1. /\ tasks \in Seq(Tasks) /\ requests \in Seq(Packets) /\ alloc \in Seq(Allocs)
      /\ pubs \in Seq(Pubs) /\ pendingSub \in Seq(RemoteIds) /\ acked \in Nat
      /\ pendingPub \in Seq(1 .. published) /\ published \in Nat
  BY RoomStreamsAssumption DEF TypeInv, TypeOK, Tasks, Packets, Allocs, Pubs
<1>2. \A i \in 1 .. Len(tasks) : tasks[i] \in Tasks
  BY <1>1, ElementOfSeq, Zenon
<1>3. \A i \in 1 .. Len(requests) : requests[i] \in Packets
  BY <1>1, ElementOfSeq, Zenon
<1>4. \A i \in 1 .. Len(alloc) : alloc[i] \in Allocs
  BY <1>1, ElementOfSeq, Zenon
<1>5. \A i \in 1 .. Len(pubs) : pubs[i] \in Pubs
  BY <1>1, ElementOfSeq, Zenon
<1>6. \A i \in 1 .. Len(pendingSub) : pendingSub[i] \in RemoteIds
  BY <1>1, ElementOfSeq, Zenon
<1>7. \A i \in 1 .. Len(pendingPub) : pendingPub[i] \in 1 .. published
  BY <1>1, ElementOfSeq, Zenon
<1>8. /\ Len(alloc) \in Nat /\ Len(pendingSub) \in Nat /\ Len(pendingPub) \in Nat
      /\ Len(tasks) \in Nat /\ Len(requests) \in Nat /\ Len(pubs) \in Nat
  BY <1>1, LenProperties, Zenon
<1>9. \A i \in 1 .. Len(pendingPub) : pendingPub[i] \in Nat
  BY <1>1, <1>7
<1>10. \A c \in 1 .. Len(pubs) : pubs[c].id \in Nat /\ pubs[c].erizo \in Erizos
  BY <1>1, <1>5 DEF Pubs
<1>11. \A i \in 1 .. Len(tasks) : tasks[i].conn \in Int /\ tasks[i].id \in Nat
  BY <1>2, Zenon DEF Tasks
<1>12. \A i \in 1 .. Len(requests) : requests[i].conn \in Int /\ requests[i].id \in Nat
  BY <1>3, Zenon DEF Packets
<1>13. \A c \in 1 .. Len(alloc) : alloc[c].id \in RemoteIds /\ alloc[c].erizo \in Erizos
  BY <1>4, Zenon DEF Allocs
<1> QED
  BY <1>1, <1>6, <1>8, <1>9, <1>10, <1>11, <1>12, <1>13, Zenon

\* The subscribe answer at the head of the queue is that for the next
\* connection, and its stream is pending.
LEMMA NextAnswer ==
  ASSUME TypeInv, SubFacts, 1 \in 1 .. Len(tasks), tasks[1].op = "subscribed"
  PROVE  tasks[1].conn = acked + 1 /\ acked + 1 <= Len(alloc) /\ Len(pendingSub) > 0
<1>t. /\ acked \in Nat /\ Len(alloc) \in Nat /\ Len(pendingSub) \in Nat
      /\ tasks[1].conn \in 1 .. Len(alloc)
  BY OrderTypes, Zenon DEF TypeInv, TaskFacts
<1>1. acked < tasks[1].conn
  BY Zenon DEF SubFacts, SubTasks
<1>2. acked + 1 \in 1 .. Len(alloc) /\ acked < acked + 1
  BY <1>t, <1>1
<1>3. PICK i \in 1 .. Len(tasks) : tasks[i].op = "subscribed" /\ tasks[i].conn = acked + 1
  BY <1>2, Zenon DEF SubFacts, SubCover
<1>4. i # 1 => tasks[1].conn < acked + 1
  <2>1. i # 1 => 1 < i
    BY <1>3
  <2> QED
    BY <1>3, <2>1, Zenon DEF SubFacts, SubTasks
<1> QED
  BY <1>t, <1>1, <1>2, <1>3, <1>4 DEF SubFacts, SubBounds

\* What the handling of a subscribe answer does to the counts.
LEMMA AnswerCounts ==
  ASSUME TypeInv, OnSubscribeStream
  PROVE  /\ Taken("subscribed") /\ acked' = acked + 1 /\ UNCHANGED <<alloc, requests>>
         /\ Len(pendingSub') \in Nat /\ Len(pendingSub) = Len(pendingSub') + 1
         /\ Head(pendingSub) = pendingSub[1]
         /\ \A k \in 1 .. Len(pendingSub') :
              k + 1 \in 1 .. Len(pendingSub) /\ pendingSub'[k] = pendingSub[k + 1]
<1>1. /\ tasks \in Seq(Tasks) /\ Run("subscribed") /\ pendingSub \in Seq(RemoteIds)
      /\ pendingSub # <<>> /\ pendingSub' = Tail(pendingSub)
  BY Zenon DEF OnSubscribeStream, TypeInv, TypeOK, Tasks
<1>2. Taken("subscribed")
  BY <1>1, RunFacts, Zenon
<1>3. /\ Len(pendingSub') \in Nat /\ Len(pendingSub) = Len(pendingSub') + 1
      /\ Head(pendingSub) = pendingSub[1]
      /\ \A k \in 1 .. Len(pendingSub') : pendingSub'[k] = pendingSub[k + 1]
  BY <1>1, HeadTailProperties, LenProperties, EmptySeq
<1> QED
  BY <1>2, <1>3 DEF OnSubscribeStream, Run, serverVars

\* Subscriptions become pending at the end.
LEMMA SubscribeCounts ==
  ASSUME TypeInv, NEW id, Subscribes(id)
  PROVE  /\ Len(pendingSub') = Len(pendingSub) + 1 /\ pendingSub'[Len(pendingSub) + 1] = id
         /\ \A k \in 1 .. Len(pendingSub) : pendingSub'[k] = pendingSub[k]
  BY AppendProperties DEF Subscribes, TypeInv, TypeOK

LEMMA SubByAnswer ==
  ASSUME TypeInv, SubFacts, Next, OnSubscribeStream
  PROVE  SubFacts'
<1>t. /\ acked \in Nat /\ Len(alloc) \in Nat /\ Len(pendingSub) \in Nat
      /\ \A i \in 1 .. Len(tasks) : tasks[i].conn \in Int
      /\ \A i \in 1 .. Len(requests) : requests[i].conn \in Int
  BY OrderTypes, Zenon
<1>c. /\ Taken("subscribed") /\ acked' = acked + 1 /\ UNCHANGED <<alloc, requests>>
      /\ Len(pendingSub') \in Nat /\ Len(pendingSub) = Len(pendingSub') + 1
  BY AnswerCounts, Zenon
<1>s. TaskShift /\ tasks[1].op = "subscribed"
  BY <1>c, Shifted, Zenon DEF Taken
<1>n. tasks[1].conn = acked + 1 /\ acked + 1 <= Len(alloc)
  BY <1>s, NextAnswer, Zenon DEF TaskShift
<1>1. SubBounds'
  BY <1>t, <1>c, <1>n DEF SubFacts, SubBounds
<1>2. SubTasks'
  <2>1. ASSUME NEW i \in 1 .. Len(tasks'), tasks'[i].op = "subscribed"
        PROVE  acked' < tasks'[i].conn
    <3>1. i + 1 \in 1 .. Len(tasks) /\ tasks'[i] = tasks[i + 1] /\ 1 < i + 1
      BY <1>s DEF TaskShift
    <3>2. tasks[1].conn < tasks[i + 1].conn
      BY <1>s, <2>1, <3>1, Zenon DEF SubFacts, SubTasks, TaskShift
    <3> QED
      BY <1>c, <1>n, <3>1, <3>2, Zenon
  <2>2. ASSUME NEW i \in 1 .. Len(tasks'), tasks'[i].op = "subscribed",
               NEW j \in 1 .. Len(tasks'), tasks'[j].op = "subscribed", i < j
        PROVE  tasks'[i].conn < tasks'[j].conn
    <3>1. /\ i + 1 \in 1 .. Len(tasks) /\ tasks'[i] = tasks[i + 1]
          /\ j + 1 \in 1 .. Len(tasks) /\ tasks'[j] = tasks[j + 1] /\ i + 1 < j + 1
      BY <1>s, <2>2 DEF TaskShift
    <3> QED
      BY <2>2, <3>1, Zenon DEF SubFacts, SubTasks
  <2> QED
    BY <2>1, <2>2, Zenon DEF SubTasks
<1>3. SubCover'
  <2>1. ASSUME NEW c \in 1 .. Len(alloc), acked + 1 < c
        PROVE  \E i \in 1 .. Len(tasks') : tasks'[i].op = "subscribed" /\ tasks'[i].conn = c
    <3>1. PICK i \in 1 .. Len(tasks) : tasks[i].op = "subscribed" /\ tasks[i].conn = c
      BY <1>t, <2>1 DEF SubFacts, SubCover
    <3>2. i # 1
      BY <1>n, <1>t, <2>1, <3>1
    <3> QED
      BY <1>s, <3>1, <3>2, Zenon DEF TaskShift
  <2> QED
    BY <1>c, <2>1, Zenon DEF SubCover
<1>4. SubRequests'
  <2>1. acked' + Len(pendingSub') = acked + Len(pendingSub)
    BY <1>t, <1>c
  <2> QED
    BY <1>c, <2>1, Zenon DEF SubFacts, SubRequests
<1>5. SubRemote'
  <2>1. remote \in [Ids -> Entry] /\ RemoteIds \subseteq Ids
    BY Zenon DEF TypeInv, TypeOK, Ids
  <2>2. \A id \in RemoteIds : remote'[id] = remote[id] \/ remote'[id].conn \in {0, acked + 1}
    <3>1. Head(pendingSub) = pendingSub[1] /\ Head(tasks) = tasks[1]
      BY <1>c, AnswerCounts, Zenon DEF Taken
    <3> QED
      BY <1>n, <2>1, <3>1 DEF OnSubscribeStream, Touch, Info, Null
  <2>3. \A id \in RemoteIds : remote[id].conn \in 0 .. acked
    BY Zenon DEF SubFacts, SubRemote
  <2> QED
    BY <1>t, <1>c, <2>2, <2>3 DEF SubRemote
<1> QED
  BY <1>1, <1>2, <1>3, <1>4, <1>5, Zenon DEF SubFacts

LEMMA SubByAllocation ==
  ASSUME TypeInv, SubFacts, Next, ServerSubscribe
  PROVE  SubFacts'
<1>t. /\ acked \in Nat /\ Len(alloc) \in Nat /\ Len(pendingSub) \in Nat /\ Len(tasks) \in Nat
      /\ \A i \in 1 .. Len(tasks) : tasks[i].conn \in Int
      /\ \A i \in 1 .. Len(requests) : requests[i].conn \in Int
  BY OrderTypes, Zenon
<1>a. Handled("subscribe") /\ Len(alloc') = Len(alloc) + 1
  BY AllocateFacts, Zenon
<1>s. RequestShift /\ requests[1].op = "subscribe"
  BY <1>a, Shifted, Zenon DEF Handled
<1>u. UNCHANGED <<acked, pendingSub, remote>>
  BY Zenon DEF ServerSubscribe, Handle, ServerSends, mapVars, historyVars
<1>p. /\ Len(tasks') = Len(tasks) + 1
      /\ \A i \in 1 .. Len(tasks) : tasks'[i] = tasks[i]
      /\ tasks'[Len(tasks) + 1].op = "subscribed" /\ tasks'[Len(tasks) + 1].conn = Len(alloc) + 1
  <2>1. Task("subscribed", NoId, Len(alloc')) \in Tasks
    BY <1>t, <1>a DEF Task, Tasks, TaskOps, NoId
  <2>2. Posted(Task("subscribed", NoId, Len(alloc')))
    BY <2>1, PostFacts, Zenon DEF ServerSubscribe, TypeInv, TypeOK, Tasks
  <2> QED
    BY <1>a, <2>2 DEF Posted, Task
<1>n. Len(alloc) < requests[1].conn /\ requests[1].conn <= acked + Len(pendingSub)
  BY <1>s, Zenon DEF SubFacts, SubRequests, RequestShift
<1>1. SubBounds'
  BY <1>t, <1>a, <1>s, <1>u, <1>n DEF SubFacts, SubBounds, RequestShift
<1>2. SubTasks'
  <2>1. \A i \in 1 .. Len(tasks) : tasks[i].op = "subscribed" => tasks[i].conn < Len(alloc) + 1
    BY <1>t DEF TypeInv, TaskFacts
  <2>2. ASSUME NEW i \in 1 .. Len(tasks'), tasks'[i].op = "subscribed"
        PROVE  acked < tasks'[i].conn
    BY <1>t, <1>p, <2>2 DEF SubFacts, SubTasks, SubBounds
  <2>3. ASSUME NEW i \in 1 .. Len(tasks'), tasks'[i].op = "subscribed",
               NEW j \in 1 .. Len(tasks'), tasks'[j].op = "subscribed", i < j
        PROVE  tasks'[i].conn < tasks'[j].conn
    <3>n. Len(tasks) \in Nat /\ Len(tasks') = Len(tasks) + 1
      BY <1>t, <1>p, Zenon
    <3>1. i \in 1 .. Len(tasks) /\ (j \in 1 .. Len(tasks) \/ j = Len(tasks) + 1)
      BY <2>3, <3>n
    <3> QED
      BY <1>p, <2>1, <2>3, <3>1, Zenon DEF SubFacts, SubTasks
  <2> QED
    BY <1>u, <2>2, <2>3, Zenon DEF SubTasks
<1>3. SubCover'
  <2>1. ASSUME NEW c \in 1 .. Len(alloc'), acked < c
        PROVE  \E i \in 1 .. Len(tasks') : tasks'[i].op = "subscribed" /\ tasks'[i].conn = c
    <3>1. CASE c = Len(alloc) + 1
      BY <1>t, <1>p, <3>1
    <3>2. CASE c \in 1 .. Len(alloc)
      BY <1>t, <1>p, <2>1, <3>2 DEF SubFacts, SubCover
    <3> QED
      BY <1>t, <1>a, <3>1, <3>2
  <2> QED
    BY <1>u, <2>1, Zenon DEF SubCover
<1>4. SubRequests'
  <2>1. ASSUME NEW i \in 1 .. Len(requests'), requests'[i].op = "subscribe"
        PROVE  /\ Len(alloc') < requests'[i].conn
               /\ requests'[i].conn <= acked + Len(pendingSub)
    <3>1. i + 1 \in 1 .. Len(requests) /\ requests'[i] = requests[i + 1] /\ 1 < i + 1
      BY <1>s DEF RequestShift
    <3>2. requests[1].conn < requests[i + 1].conn /\ requests[i + 1].conn <= acked + Len(pendingSub)
      BY <1>s, <2>1, <3>1, Zenon DEF SubFacts, SubRequests, RequestShift
    <3>3. requests[1].conn \in Int /\ requests[i + 1].conn \in Int
      BY <1>t, <1>s, <3>1, Zenon DEF RequestShift
    <3> QED
      BY <1>t, <1>a, <1>n, <3>1, <3>2, <3>3
  <2>2. ASSUME NEW i \in 1 .. Len(requests'), requests'[i].op = "subscribe",
               NEW j \in 1 .. Len(requests'), requests'[j].op = "subscribe", i < j
        PROVE  requests'[i].conn < requests'[j].conn
    <3>1. /\ i + 1 \in 1 .. Len(requests) /\ requests'[i] = requests[i + 1]
          /\ j + 1 \in 1 .. Len(requests) /\ requests'[j] = requests[j + 1] /\ i + 1 < j + 1
      BY <1>s, <2>2 DEF RequestShift
    <3> QED
      BY <2>2, <3>1, Zenon DEF SubFacts, SubRequests
  <2> QED
    BY <1>u, <2>1, <2>2, Zenon DEF SubRequests
<1>5. SubRemote'
  BY <1>u, Zenon DEF SubFacts, SubRemote
<1> QED
  BY <1>1, <1>2, <1>3, <1>4, <1>5, Zenon DEF SubFacts

LEMMA SubByWorker ==
  ASSUME TypeInv, SubFacts, Next, WorkerStep, ~OnSubscribeStream
  PROVE  SubFacts'
<1>t. /\ acked \in Nat /\ Len(alloc) \in Nat /\ Len(pendingSub) \in Nat
      /\ Len(requests) \in Nat
      /\ \A i \in 1 .. Len(requests) : requests[i].conn \in Int
  BY OrderTypes, Zenon
<1>w. Asked /\ TaskShift /\ tasks[1].op # "subscribed"
  BY WorkerSteps, TaskOfStep, Shifted, Zenon
<1>u. UNCHANGED <<acked, alloc>>
  <2>1. ~ServerSubscribe
    <3>1. ~UNCHANGED serverVars => ~WorkerStep
      BY Zenon DEF WorkerStep, ExistingStream, OnAddStream, OnRemoveStream, OnSubscribeStream,
         Publish, OnPublishStream, ReceiveOffer, OnPeerConnectionConnectErizoReady,
         SendAnswer, SendIceCandidate, Run
    <3>2. ServerSubscribe => Len(alloc') # Len(alloc)
      BY <1>t, AllocateFacts
    <3> QED
      BY <3>1, <3>2, Zenon DEF serverVars
  <2> QED
    BY <2>1, StepFrame, Zenon DEF Frame
<1>p. \/ UNCHANGED pendingSub
      \/ /\ Len(pendingSub') = Len(pendingSub) + 1
         /\ \E id \in RemoteIds : Subscribes(id)
  BY StepFrame, SubscribeSteps, SubscribeCounts, Zenon DEF Frame
<1>n. Len(pendingSub') \in Nat /\ Len(pendingSub) <= Len(pendingSub')
  BY <1>t, <1>p
<1>1. SubBounds'
  BY <1>t, <1>u, <1>n DEF SubFacts, SubBounds
<1>2. SubTasks'
  <2>1. ASSUME NEW i \in 1 .. Len(tasks'), tasks'[i].op = "subscribed"
        PROVE  acked < tasks'[i].conn
    BY <1>w, <2>1 DEF SubFacts, SubTasks, TaskShift
  <2>2. ASSUME NEW i \in 1 .. Len(tasks'), tasks'[i].op = "subscribed",
               NEW j \in 1 .. Len(tasks'), tasks'[j].op = "subscribed", i < j
        PROVE  tasks'[i].conn < tasks'[j].conn
    <3>1. /\ i + 1 \in 1 .. Len(tasks) /\ tasks'[i] = tasks[i + 1]
          /\ j + 1 \in 1 .. Len(tasks) /\ tasks'[j] = tasks[j + 1] /\ i + 1 < j + 1
      BY <1>w, <2>2 DEF TaskShift
    <3> QED
      BY <2>2, <3>1, Zenon DEF SubFacts, SubTasks
  <2> QED
    BY <1>u, <2>1, <2>2, Zenon DEF SubTasks
<1>3. SubCover'
  <2>1. ASSUME NEW c \in 1 .. Len(alloc), acked < c
        PROVE  \E i \in 1 .. Len(tasks') : tasks'[i].op = "subscribed" /\ tasks'[i].conn = c
    <3>1. PICK i \in 1 .. Len(tasks) : tasks[i].op = "subscribed" /\ tasks[i].conn = c
      BY <2>1, Zenon DEF SubFacts, SubCover
    <3> QED
      BY <1>w, <3>1 DEF TaskShift
  <2> QED
    BY <1>u, <2>1, Zenon DEF SubCover
<1>4. SubRequests'
  <2>1. ASSUME NEW i \in 1 .. Len(requests'), i > Len(requests), requests'[i].op = "subscribe"
        PROVE  requests'[i].conn = acked + Len(pendingSub) + 1 /\ Len(pendingSub') = Len(pendingSub) + 1
    <3>1. NewPacket(requests'[i])
      BY <1>w, <2>1, Zenon DEF Asked
    <3>2. /\ requests'[i].conn = acked + Len(pendingSub) + 1
          /\ \E id \in RemoteIds : Subscribes(id)
      BY <2>1, <3>1, Zenon DEF NewPacket
    <3> QED
      BY <3>2, SubscribeCounts, Zenon
  <2>2. ASSUME NEW i \in 1 .. Len(requests'), i <= Len(requests)
        PROVE  i \in 1 .. Len(requests) /\ requests'[i] = requests[i]
    BY <1>t, <1>w, <2>2 DEF Asked
  <2>3. ASSUME NEW i \in 1 .. Len(requests'), requests'[i].op = "subscribe"
        PROVE  Len(alloc) < requests'[i].conn /\ requests'[i].conn <= acked + Len(pendingSub')
    <3>1. CASE i <= Len(requests)
      <4>1. Len(alloc) < requests[i].conn /\ requests[i].conn <= acked + Len(pendingSub)
            /\ requests[i].conn \in Int /\ requests'[i] = requests[i]
        BY <1>t, <2>2, <2>3, <3>1, Zenon DEF SubFacts, SubRequests
      <4> QED
        BY <1>t, <1>n, <4>1
    <3>2. CASE i > Len(requests)
      BY <1>t, <1>n, <2>1, <2>3, <3>2 DEF SubFacts, SubBounds
    <3> QED
      BY <1>t, <3>1, <3>2
  <2>4. ASSUME NEW i \in 1 .. Len(requests'), requests'[i].op = "subscribe",
               NEW j \in 1 .. Len(requests'), requests'[j].op = "subscribe", i < j
        PROVE  requests'[i].conn < requests'[j].conn
    <3>1. i <= Len(requests)
      BY <1>t, <1>w, <2>4 DEF Asked
    <3>2. i \in 1 .. Len(requests) /\ requests'[i] = requests[i]
      BY <2>2, <3>1, Zenon
    <3>3. CASE j <= Len(requests)
      BY <2>2, <2>4, <3>2, <3>3, Zenon DEF SubFacts, SubRequests
    <3>4. CASE j > Len(requests)
      <4>1. requests[i].conn <= acked + Len(pendingSub) /\ requests[i].conn \in Int
        BY <1>t, <2>4, <3>2, Zenon DEF SubFacts, SubRequests
      <4> QED
        BY <1>t, <2>1, <2>4, <3>2, <3>4, <4>1
    <3> QED
      BY <1>t, <3>3, <3>4
  <2> QED
    BY <1>u, <2>3, <2>4, Zenon DEF SubRequests
<1>5. SubRemote'
  <2>1. remote \in [Ids -> Entry] /\ RemoteIds \subseteq Ids
    BY Zenon DEF TypeInv, TypeOK, Ids
  <2>2. \A id \in RemoteIds : remote'[id] = remote[id] \/ remote'[id].conn = 0
    BY <2>1, RemoteSteps DEF RemoteChange, Absent, Null, Info
  <2> QED
    BY <1>t, <1>u, <2>2 DEF SubFacts, SubRemote
<1> QED
  BY <1>1, <1>2, <1>3, <1>4, <1>5, Zenon DEF SubFacts

LEMMA SubByOthers ==
  ASSUME TypeInv, SubFacts, Next, ~WorkerStep, ~ServerSubscribe
  PROVE  SubFacts'
<1>t. /\ acked \in Nat /\ Len(tasks) \in Nat
  BY OrderTypes, Zenon
<1>u. UNCHANGED <<acked, alloc, pendingSub>>
  BY StepFrame, Zenon DEF Frame, WorkerStep
<1>e. /\ Len(tasks') \in Nat /\ Len(tasks) <= Len(tasks')
      /\ \A i \in 1 .. Len(tasks) : tasks'[i] = tasks[i]
      /\ \A i \in 1 .. Len(tasks') : tasks'[i].op = "subscribed" => i \in 1 .. Len(tasks)
  <2>1. Extended
    BY OtherSteps, Zenon
  <2>2. ASSUME NEW i \in 1 .. Len(tasks'), tasks'[i].op = "subscribed", i > Len(tasks)
        PROVE  FALSE
    BY <2>1, <2>2, Zenon DEF Extended, NewTask
  <2> QED
    BY <2>1, <2>2 DEF Extended
<1>2. SubTasks'
  BY <1>u, <1>e, Zenon DEF SubFacts, SubTasks
<1>3. SubCover'
  BY <1>t, <1>u, <1>e DEF SubFacts, SubCover
<1>4. SubRequests'
  <2>1. CASE UNCHANGED requests
    BY <1>u, <2>1, Zenon DEF SubFacts, SubRequests
  <2>2. CASE requests' = <<>>
    BY <2>2, EmptySeq DEF SubRequests
  <2>3. CASE RequestShift
    <3>1. ASSUME NEW i \in 1 .. Len(requests'), requests'[i].op = "subscribe"
          PROVE  Len(alloc) < requests'[i].conn /\ requests'[i].conn <= acked + Len(pendingSub)
      BY <2>3, <3>1 DEF SubFacts, SubRequests, RequestShift
    <3>2. ASSUME NEW i \in 1 .. Len(requests'), requests'[i].op = "subscribe",
                 NEW j \in 1 .. Len(requests'), requests'[j].op = "subscribe", i < j
          PROVE  requests'[i].conn < requests'[j].conn
      <4>1. /\ i + 1 \in 1 .. Len(requests) /\ requests'[i] = requests[i + 1]
            /\ j + 1 \in 1 .. Len(requests) /\ requests'[j] = requests[j + 1] /\ i + 1 < j + 1
        BY <2>3, <3>2 DEF RequestShift
      <4> QED
        BY <3>2, <4>1, Zenon DEF SubFacts, SubRequests
    <3> QED
      BY <1>u, <3>1, <3>2, Zenon DEF SubRequests
  <2> QED
    BY <2>1, <2>2, <2>3, OtherRequests, Shifted, Zenon DEF Served
<1>5. SubRemote'
  <2>1. CASE Joins
    <3>1. remote' = [id \in Ids |-> Absent] /\ RemoteIds \subseteq Ids
      BY <2>1, Zenon DEF Joins, OnJoinRoom, Ids
    <3> QED
      BY <1>t, <1>u, <3>1 DEF SubRemote, Absent
  <2> QED
    BY <1>u, <2>1, StepFrame, Zenon DEF Frame, WorkerStep, SubFacts, SubRemote
<1> QED
  BY <1>u, <1>2, <1>3, <1>4, <1>5, Zenon DEF SubFacts, SubBounds

LEMMA SubStep ==
  ASSUME TypeInv, SubFacts, Next
  PROVE  SubFacts'
  BY SubByAnswer, SubByAllocation, SubByWorker, SubByOthers, Zenon

-----------------------------------------------------------------------------
(* The order of publications.                                              *)

\* The first pending publication is not that of a later label.
LEMMA PubByAnswer ==
  ASSUME TypeInv, PubFacts, Next, OnPublishStream
  PROVE  PubFacts'
<1>t. /\ Len(pendingPub) \in Nat /\ \A k \in 1 .. Len(pendingPub) : pendingPub[k] \in Nat
  BY OrderTypes, Zenon
<1>w. TaskShift /\ tasks[1].op = "published"
  BY WorkerSteps, TaskOfStep, Shifted, Zenon DEF WorkerStep
<1>u. UNCHANGED <<requests, pubs>>
  BY Zenon DEF OnPublishStream, Run, serverVars
<1>p. /\ Len(pendingPub') \in Nat /\ Len(pendingPub) = Len(pendingPub') + 1
      /\ \A k \in 1 .. Len(pendingPub') :
           k + 1 \in 1 .. Len(pendingPub) /\ pendingPub'[k] = pendingPub[k + 1]
      /\ \A k \in 1 .. Len(pendingPub) : k # 1 =>
           k - 1 \in 1 .. Len(pendingPub') /\ pendingPub'[k - 1] = pendingPub[k]
  <2>1. /\ pendingPub \in Seq(1 .. published) /\ pendingPub # <<>>
        /\ pendingPub' = Tail(pendingPub)
    BY Zenon DEF OnPublishStream, TypeInv, TypeOK
  <2>2. /\ Len(pendingPub') \in Nat /\ Len(pendingPub) = Len(pendingPub') + 1
        /\ \A k \in 1 .. Len(pendingPub') : pendingPub'[k] = pendingPub[k + 1]
    BY <2>1, HeadTailProperties, LenProperties, EmptySeq
  <2> QED
    BY <2>2
<1>k. ASSUME NEW l, Label(tasks[1]) < l, \E k \in 1 .. Len(pendingPub) : pendingPub[k] = l
      PROVE  \E k \in 1 .. Len(pendingPub') : pendingPub'[k] = l
  <2>1. PICK k \in 1 .. Len(pendingPub) : pendingPub[k] = l
    BY <1>k, Zenon
  <2>2. PICK m \in 1 .. Len(pendingPub) : pendingPub[m] = Label(tasks[1])
    BY <1>w, Zenon DEF PubFacts, PubAnswers, TaskShift
  <2>3. k # 1
    <3>1. 1 < m => pendingPub[1] < pendingPub[m]
      BY <1>t, <2>2 DEF PubFacts, PubPending
    <3>2. pendingPub[1] \in Nat /\ pendingPub[m] \in Nat /\ (m = 1 \/ 1 < m)
      BY <1>t, <2>2
    <3> QED
      BY <1>k, <2>1, <2>2, <3>1, <3>2
  <2> QED
    BY <1>p, <2>1, <2>3, Zenon
<1>1. PubPending'
  <2>1. ASSUME NEW i \in 1 .. Len(pendingPub'), NEW j \in 1 .. Len(pendingPub'), i < j
        PROVE  pendingPub'[i] < pendingPub'[j]
    <3>1. /\ i + 1 \in 1 .. Len(pendingPub) /\ pendingPub'[i] = pendingPub[i + 1]
          /\ j + 1 \in 1 .. Len(pendingPub) /\ pendingPub'[j] = pendingPub[j + 1]
          /\ i + 1 < j + 1
      BY <1>p, <2>1
    <3> QED
      BY <3>1, Zenon DEF PubFacts, PubPending
  <2> QED
    BY <2>1, Zenon DEF PubPending
<1>2. PubCalls'
  <2>1. ASSUME NEW i \in 1 .. Len(tasks'), tasks'[i].op = "publish",
               NEW k \in 1 .. Len(pendingPub')
        PROVE  pendingPub'[k] < tasks'[i].id
    <3>1. /\ i + 1 \in 1 .. Len(tasks) /\ tasks'[i] = tasks[i + 1]
          /\ k + 1 \in 1 .. Len(pendingPub) /\ pendingPub'[k] = pendingPub[k + 1]
      BY <1>w, <1>p, Zenon DEF TaskShift
    <3> QED
      BY <2>1, <3>1, Zenon DEF PubFacts, PubCalls
  <2>2. ASSUME NEW i \in 1 .. Len(tasks'), tasks'[i].op = "publish",
               NEW j \in 1 .. Len(tasks'), tasks'[j].op = "publish", i < j
        PROVE  tasks'[i].id < tasks'[j].id
    <3>1. /\ i + 1 \in 1 .. Len(tasks) /\ tasks'[i] = tasks[i + 1]
          /\ j + 1 \in 1 .. Len(tasks) /\ tasks'[j] = tasks[j + 1] /\ i + 1 < j + 1
      BY <1>w, <2>2 DEF TaskShift
    <3> QED
      BY <2>2, <3>1, Zenon DEF PubFacts, PubCalls
  <2> QED
    BY <2>1, <2>2, Zenon DEF PubCalls
<1>3. PubAnswers'
  <2>1. ASSUME NEW i \in 1 .. Len(tasks'), tasks'[i].op = "published"
        PROVE  /\ \E k \in 1 .. Len(pendingPub') : pendingPub'[k] = Label(tasks'[i])
               /\ \A j \in 1 .. Len(requests) :
                    requests[j].op = "publish" => Label(tasks'[i]) < requests[j].id
    <3>1. i + 1 \in 1 .. Len(tasks) /\ tasks'[i] = tasks[i + 1] /\ 1 < i + 1
      BY <1>w DEF TaskShift
    <3>2. Label(tasks[1]) < Label(tasks[i + 1])
      BY <1>w, <2>1, <3>1, Zenon DEF PubFacts, PubAnswers, TaskShift
    <3>3. \E k \in 1 .. Len(pendingPub) : pendingPub[k] = Label(tasks[i + 1])
      BY <2>1, <3>1, Zenon DEF PubFacts, PubAnswers
    <3> QED
      BY <1>k, <2>1, <3>1, <3>2, <3>3, Zenon DEF PubFacts, PubAnswers
  <2>2. ASSUME NEW i \in 1 .. Len(tasks'), tasks'[i].op = "published",
               NEW j \in 1 .. Len(tasks'), tasks'[j].op = "published", i < j
        PROVE  Label(tasks'[i]) < Label(tasks'[j])
    <3>1. /\ i + 1 \in 1 .. Len(tasks) /\ tasks'[i] = tasks[i + 1]
          /\ j + 1 \in 1 .. Len(tasks) /\ tasks'[j] = tasks[j + 1] /\ i + 1 < j + 1
      BY <1>w, <2>2 DEF TaskShift
    <3> QED
      BY <2>2, <3>1, Zenon DEF PubFacts, PubAnswers
  <2>3. \A i \in 1 .. Len(tasks') : Label(tasks[i])' = Label(tasks'[i])
    BY <1>u, Zenon DEF Label
  <2> QED
    BY <1>u, <2>1, <2>2, <2>3, Zenon DEF PubAnswers, Label
<1>4. PubRequests'
  <2>1. ASSUME NEW i \in 1 .. Len(requests), requests[i].op = "publish"
        PROVE  \E k \in 1 .. Len(pendingPub') : pendingPub'[k] = requests[i].id
    <3>1. Label(tasks[1]) < requests[i].id
      BY <1>w, <2>1, Zenon DEF PubFacts, PubAnswers, TaskShift
    <3> QED
      BY <1>k, <2>1, <3>1, Zenon DEF PubFacts, PubRequests
  <2> QED
    BY <1>u, <2>1, Zenon DEF PubFacts, PubRequests
<1> QED
  BY <1>1, <1>2, <1>3, <1>4, Zenon DEF PubFacts

LEMMA PubByRequest ==
  ASSUME TypeInv, PubFacts, Next, Publish
  PROVE  PubFacts'
<1>t. /\ Len(pendingPub) \in Nat /\ \A k \in 1 .. Len(pendingPub) : pendingPub[k] \in Nat
      /\ Len(requests) \in Nat
  BY OrderTypes, Zenon
<1>w. Asked /\ TaskShift /\ tasks[1].op = "publish" /\ Head(tasks) = tasks[1]
  BY WorkerSteps, TaskOfStep, Shifted, Zenon DEF WorkerStep, Taken
<1>u. UNCHANGED pubs
  BY Zenon DEF Publish, Run, serverVars
<1> DEFINE l == tasks[1].id
<1>l. l \in 1 .. published /\ l \in Nat
  BY <1>w, OrderTypes, Zenon DEF TypeInv, TaskFacts, TaskShift
<1>p. /\ Len(pendingPub') = Len(pendingPub) + 1 /\ pendingPub'[Len(pendingPub) + 1] = l
      /\ \A k \in 1 .. Len(pendingPub) : pendingPub'[k] = pendingPub[k]
  <2>1. pendingPub \in Seq(1 .. published) /\ pendingPub' = Append(pendingPub, l)
    BY <1>w, Zenon DEF Publish, TypeInv, TypeOK
  <2> QED
    BY <1>l, <2>1, AppendProperties
<1> HIDE DEF l
<1>m. \A k \in 1 .. Len(pendingPub) : pendingPub[k] < l
  BY <1>w, Zenon DEF PubFacts, PubCalls, TaskShift, l
<1>k. ASSUME NEW x, \E k \in 1 .. Len(pendingPub) : pendingPub[k] = x
      PROVE  x < l /\ \E k \in 1 .. Len(pendingPub') : pendingPub'[k] = x
  BY <1>k, <1>m, <1>p, <1>t
<1>r. /\ \A i \in 1 .. Len(requests') : i \in 1 .. Len(requests) \/ i = Len(requests) + 1
      /\ \A i \in 1 .. Len(requests) : requests'[i] = requests[i]
      /\ Len(requests) + 1 \in 1 .. Len(requests') => requests'[Len(requests) + 1].id = l
  <2>1. /\ Len(requests') \in Nat /\ Len(requests') <= Len(requests) + 1
        /\ \A i \in 1 .. Len(requests) : requests'[i] = requests[i]
    BY <1>w, Zenon DEF Asked
  <2>2. \A i \in 1 .. Len(requests') : i \in 1 .. Len(requests) \/ i = Len(requests) + 1
    BY <1>t, <2>1
  <2>3. ASSUME Len(requests) + 1 \in 1 .. Len(requests')
        PROVE  requests'[Len(requests) + 1].id = l
    <3>1. NewPacket(requests'[Len(requests) + 1])
      BY <1>t, <1>w, <2>3 DEF Asked
    <3>2. ~Subscribes(requests'[Len(requests) + 1].id)
      BY <1>w, Zenon DEF Subscribes
    <3>3. ~SendAnswer /\ ~SendIceCandidate
      BY <1>w, TaskOfStep, Zenon DEF WorkerStep
    <3> QED
      BY <3>1, <3>2, <3>3, Zenon DEF NewPacket, l
  <2> QED
    BY <2>1, <2>2, <2>3, Zenon
<1>1. PubPending'
  BY <1>t, <1>m, <1>p DEF PubFacts, PubPending
<1>2. PubCalls'
  <2>1. ASSUME NEW i \in 1 .. Len(tasks'), tasks'[i].op = "publish",
               NEW k \in 1 .. Len(pendingPub')
        PROVE  pendingPub'[k] < tasks'[i].id
    <3>1. i + 1 \in 1 .. Len(tasks) /\ tasks'[i] = tasks[i + 1] /\ 1 < i + 1
      BY <1>w DEF TaskShift
    <3>2. l < tasks[i + 1].id
      BY <1>w, <2>1, <3>1, Zenon DEF PubFacts, PubCalls, TaskShift, l
    <3>3. k \in 1 .. Len(pendingPub) => pendingPub[k] < tasks[i + 1].id
      BY <2>1, <3>1, Zenon DEF PubFacts, PubCalls
    <3>4. k \in 1 .. Len(pendingPub) \/ k = Len(pendingPub) + 1
      BY <1>t, <1>p
    <3> QED
      BY <1>p, <3>1, <3>2, <3>3, <3>4, Zenon
  <2>2. ASSUME NEW i \in 1 .. Len(tasks'), tasks'[i].op = "publish",
               NEW j \in 1 .. Len(tasks'), tasks'[j].op = "publish", i < j
        PROVE  tasks'[i].id < tasks'[j].id
    <3>1. /\ i + 1 \in 1 .. Len(tasks) /\ tasks'[i] = tasks[i + 1]
          /\ j + 1 \in 1 .. Len(tasks) /\ tasks'[j] = tasks[j + 1] /\ i + 1 < j + 1
      BY <1>w, <2>2 DEF TaskShift
    <3> QED
      BY <2>2, <3>1, Zenon DEF PubFacts, PubCalls
  <2> QED
    BY <2>1, <2>2, Zenon DEF PubCalls
<1>3. PubAnswers'
  <2>1. ASSUME NEW i \in 1 .. Len(tasks'), tasks'[i].op = "published"
        PROVE  /\ \E k \in 1 .. Len(pendingPub') : pendingPub'[k] = Label(tasks'[i])
               /\ \A j \in 1 .. Len(requests') :
                    requests'[j].op = "publish" => Label(tasks'[i]) < requests'[j].id
    <3>1. i + 1 \in 1 .. Len(tasks) /\ tasks'[i] = tasks[i + 1]
      BY <1>w, Zenon DEF TaskShift
    <3>2. /\ \E k \in 1 .. Len(pendingPub) : pendingPub[k] = Label(tasks'[i])
          /\ \A j \in 1 .. Len(requests) :
               requests[j].op = "publish" => Label(tasks'[i]) < requests[j].id
      BY <2>1, <3>1, Zenon DEF PubFacts, PubAnswers
    <3> QED
      BY <1>k, <1>r, <3>2, Zenon
  <2>2. ASSUME NEW i \in 1 .. Len(tasks'), tasks'[i].op = "published",
               NEW j \in 1 .. Len(tasks'), tasks'[j].op = "published", i < j
        PROVE  Label(tasks'[i]) < Label(tasks'[j])
    <3>1. /\ i + 1 \in 1 .. Len(tasks) /\ tasks'[i] = tasks[i + 1]
          /\ j + 1 \in 1 .. Len(tasks) /\ tasks'[j] = tasks[j + 1] /\ i + 1 < j + 1
      BY <1>w, <2>2 DEF TaskShift
    <3> QED
      BY <2>2, <3>1, Zenon DEF PubFacts, PubAnswers
  <2> QED
    BY <1>u, <2>1, <2>2, Zenon DEF PubAnswers, Label
<1>4. PubRequests'
  <2>1. ASSUME NEW i \in 1 .. Len(requests'), requests'[i].op = "publish"
        PROVE  \E k \in 1 .. Len(pendingPub') : pendingPub'[k] = requests'[i].id
    <3>1. CASE i \in 1 .. Len(requests)
      BY <1>k, <1>r, <2>1, <3>1, ZenonT(30) DEF PubFacts, PubRequests
    <3>2. CASE i = Len(requests) + 1
      <4>1. requests'[i].id = l /\ Len(pendingPub) + 1 \in 1 .. Len(pendingPub')
        BY <1>t, <1>r, <1>p, <3>2
      <4> QED
        BY <1>p, <4>1, Zenon
    <3> QED
      BY <1>r, <3>1, <3>2, Zenon
  <2>2. ASSUME NEW i \in 1 .. Len(requests'), requests'[i].op = "publish",
               NEW j \in 1 .. Len(requests'), requests'[j].op = "publish", i < j
        PROVE  requests'[i].id < requests'[j].id
    <3>1. i \in 1 .. Len(requests)
      BY <1>t, <1>r, <2>2
    <3>2. CASE j \in 1 .. Len(requests)
      BY <1>r, <2>2, <3>1, <3>2, Zenon DEF PubFacts, PubRequests
    <3>3. CASE j = Len(requests) + 1
      <4>1. \E k \in 1 .. Len(pendingPub) : pendingPub[k] = requests[i].id
        BY <1>r, <2>2, <3>1, Zenon DEF PubFacts, PubRequests
      <4> QED
        BY <1>k, <1>r, <3>1, <3>3, <4>1, Zenon
    <3> QED
      BY <1>r, <3>2, <3>3, Zenon
  <2> QED
    BY <2>1, <2>2, Zenon DEF PubRequests
<1> QED
  BY <1>1, <1>2, <1>3, <1>4, Zenon DEF PubFacts

LEMMA PubByPublication ==
  ASSUME TypeInv, PubFacts, Next, ServerPublish
  PROVE  PubFacts'
<1>t. Len(tasks) \in Nat /\ Len(pubs) \in Nat
  BY OrderTypes, Zenon
<1>a. /\ Handled("publish") /\ Len(pubs') = Len(pubs) + 1
      /\ pubs'[Len(pubs) + 1].id = requests[1].id
      /\ \A c \in 1 .. Len(pubs) : pubs'[c] = pubs[c]
  BY PublicationFacts, StepGrows, Zenon DEF Grows
<1>s. RequestShift /\ requests[1].op = "publish"
  BY <1>a, Shifted, Zenon DEF Handled
<1>u. UNCHANGED pendingPub
  BY Zenon DEF ServerPublish, Handle, ServerSends, mapVars
<1>p. /\ Len(tasks') = Len(tasks) + 1
      /\ \A i \in 1 .. Len(tasks) : tasks'[i] = tasks[i]
      /\ tasks'[Len(tasks) + 1].op = "published"
      /\ -tasks'[Len(tasks) + 1].conn = Len(pubs) + 1
  <2>1. PICK id \in LocalIds : Post(Task("published", id, -Len(pubs')))
    BY Zenon DEF ServerPublish
  <2>2. id \in Nat /\ -Len(pubs') \in Int
    BY <1>t, <1>a, RoomStreamsAssumption
  <2>3. Task("published", id, -Len(pubs')) \in Tasks
    BY <2>2, Zenon DEF Task, Tasks, TaskOps
  <2>4. Posted(Task("published", id, -Len(pubs')))
    BY <2>1, <2>3, PostFacts, Zenon DEF TypeInv, TypeOK, Tasks
  <2> QED
    BY <1>t, <1>a, <2>4 DEF Posted, Task
<1>i. \A i \in 1 .. Len(tasks') : i \in 1 .. Len(tasks) \/ i = Len(tasks) + 1
  BY <1>t, <1>p
<1> DEFINE Then(i) == pubs'[-tasks'[i].conn].id
<1>l. /\ \A i \in 1 .. Len(tasks) : tasks[i].op = "published" => Then(i) = Label(tasks[i])
      /\ Then(Len(tasks) + 1) = requests[1].id
  BY <1>a, <1>p, Zenon DEF Label, TypeInv, TaskFacts
<1> HIDE DEF Then
<1>2. PubCalls'
  <2>1. \A i \in 1 .. Len(tasks') : tasks'[i].op = "publish" => i \in 1 .. Len(tasks)
    BY <1>i, <1>p, Zenon
  <2> QED
    BY <1>u, <1>p, <2>1, Zenon DEF PubFacts, PubCalls
<1>3. PubAnswers'
  <2>1. ASSUME NEW i \in 1 .. Len(tasks'), tasks'[i].op = "published"
        PROVE  \E k \in 1 .. Len(pendingPub) : pendingPub[k] = Then(i)
    <3>1. CASE i \in 1 .. Len(tasks)
      BY <1>l, <1>p, <2>1, <3>1, Zenon DEF PubFacts, PubAnswers
    <3>2. CASE i = Len(tasks) + 1
      BY <1>l, <1>s, <3>2, Zenon DEF PubFacts, PubRequests, RequestShift
    <3> QED
      BY <1>i, <3>1, <3>2, Zenon
  <2>2. ASSUME NEW i \in 1 .. Len(tasks'), tasks'[i].op = "published",
               NEW j \in 1 .. Len(tasks'), tasks'[j].op = "published", i < j
        PROVE  Then(i) < Then(j)
    <3>n. Len(tasks) \in Nat /\ Len(tasks') = Len(tasks) + 1
      BY <1>t, <1>p, Zenon
    <3>1. i \in 1 .. Len(tasks)
      BY <2>2, <3>n
    <3>2. CASE j \in 1 .. Len(tasks)
      BY <1>l, <1>p, <2>2, <3>1, <3>2, Zenon DEF PubFacts, PubAnswers
    <3>3. CASE j = Len(tasks) + 1
      BY <1>l, <1>p, <1>s, <2>2, <3>1, <3>3, Zenon DEF PubFacts, PubAnswers, RequestShift
    <3> QED
      BY <1>i, <3>2, <3>3, Zenon
  <2>3. ASSUME NEW i \in 1 .. Len(tasks'), tasks'[i].op = "published",
               NEW j \in 1 .. Len(requests'), requests'[j].op = "publish"
        PROVE  Then(i) < requests'[j].id
    <3>1. j + 1 \in 1 .. Len(requests) /\ requests'[j] = requests[j + 1] /\ 1 < j + 1
      BY <1>s DEF RequestShift
    <3>2. CASE i \in 1 .. Len(tasks)
      BY <1>l, <1>p, <2>3, <3>1, <3>2, Zenon DEF PubFacts, PubAnswers
    <3>3. CASE i = Len(tasks) + 1
      BY <1>l, <1>s, <2>3, <3>1, <3>3 DEF PubFacts, PubRequests, RequestShift
    <3> QED
      BY <1>i, <3>2, <3>3, Zenon
  <2> QED
    BY <1>u, <2>1, <2>2, <2>3, Zenon DEF PubAnswers, Label, Then
<1>4. PubRequests'
  <2>1. ASSUME NEW i \in 1 .. Len(requests'), requests'[i].op = "publish"
        PROVE  \E k \in 1 .. Len(pendingPub) : pendingPub[k] = requests'[i].id
    BY <1>s, <2>1 DEF PubFacts, PubRequests, RequestShift
  <2>2. ASSUME NEW i \in 1 .. Len(requests'), requests'[i].op = "publish",
               NEW j \in 1 .. Len(requests'), requests'[j].op = "publish", i < j
        PROVE  requests'[i].id < requests'[j].id
    <3>1. /\ i + 1 \in 1 .. Len(requests) /\ requests'[i] = requests[i + 1]
          /\ j + 1 \in 1 .. Len(requests) /\ requests'[j] = requests[j + 1] /\ i + 1 < j + 1
      BY <1>s, <2>2 DEF RequestShift
    <3> QED
      BY <2>2, <3>1, Zenon DEF PubFacts, PubRequests
  <2> QED
    BY <1>u, <2>1, <2>2, Zenon DEF PubRequests
<1> QED
  BY <1>u, <1>2, <1>3, <1>4, Zenon DEF PubFacts, PubPending

\* Apart from Publish, no step adds a publish request or changes their order.
LEMMA PublishRequestsKept ==
  ASSUME TypeInv, Next, ~Publish,
         NEW i \in 1 .. Len(requests'), requests'[i].op = "publish"
  PROVE  \E m \in 1 .. Len(requests) :
           /\ requests'[i] = requests[m]
           /\ \A j \in 1 .. Len(requests') : i < j /\ requests'[j].op = "publish" =>
                \E n \in 1 .. Len(requests) : m < n /\ requests'[j] = requests[n]
<1>1. CASE WorkerStep
  <2>1. Asked /\ Len(requests) \in Nat
    BY <1>1, WorkerSteps, OrderTypes, Zenon
  <2>2. ASSUME NEW j \in 1 .. Len(requests'), requests'[j].op = "publish"
        PROVE  j \in 1 .. Len(requests) /\ requests'[j] = requests[j]
    <3>1. ~NewPacket(requests'[j])
      BY <2>2, Zenon DEF NewPacket
    <3> QED
      BY <2>1, <3>1 DEF Asked
  <2> QED
    BY <2>2, Zenon
<1>2. CASE UNCHANGED requests
  BY <1>2, Zenon
<1>3. CASE requests' = <<>>
  BY <1>3, EmptySeq
<1>4. CASE RequestShift
  <2>1. \A j \in 1 .. Len(requests') :
          j + 1 \in 1 .. Len(requests) /\ requests'[j] = requests[j + 1]
    BY <1>4, Zenon DEF RequestShift
  <2>2. \A j \in 1 .. Len(requests') : i < j => i + 1 < j + 1
    OBVIOUS
  <2> QED
    BY <2>1, <2>2, Zenon
<1> QED
  BY <1>1, <1>2, <1>3, <1>4, OtherRequests, Shifted, Zenon DEF Served

\* Steps that leave the pending publications and the publish answers alone.
LEMMA PubByOthers ==
  ASSUME TypeInv, PubFacts, Next, ~OnPublishStream, ~Publish, ~ServerPublish
  PROVE  PubFacts'
<1>u. UNCHANGED <<pendingPub, pubs>>
  BY StepFrame, Zenon DEF Frame
<1>t. /\ Len(tasks) \in Nat /\ published \in Nat
      /\ \A k \in 1 .. Len(pendingPub) : pendingPub[k] \in 1 .. published
  <2>1. pendingPub \in Seq(1 .. published) /\ published \in 0 .. MaxPublish
    BY Zenon DEF TypeInv, TypeOK
  <2> QED
    BY <2>1, OrderTypes, ElementOfSeq, RoomStreamsAssumption
\* Publish answers keep their order, and a call adds at most one task.
<1>a. ASSUME NEW i \in 1 .. Len(tasks'), tasks'[i].op = "published"
      PROVE  \E m \in 1 .. Len(tasks) :
               /\ tasks'[i] = tasks[m]
               /\ \A j \in 1 .. Len(tasks') : i < j /\ tasks'[j].op = "published" =>
                    \E n \in 1 .. Len(tasks) : m < n /\ tasks'[j] = tasks[n]
  <2>1. CASE WorkerStep
    <3>1. TaskShift
      BY <2>1, WorkerSteps, Shifted, Zenon
    <3>2. \A j \in 1 .. Len(tasks') : j + 1 \in 1 .. Len(tasks) /\ tasks'[j] = tasks[j + 1]
      BY <3>1, Zenon DEF TaskShift
    <3>3. \A j \in 1 .. Len(tasks') : i < j => i + 1 < j + 1
      OBVIOUS
    <3> QED
      BY <3>2, <3>3, Zenon
  <2>2. CASE ~WorkerStep
    <3>1. Extended
      BY <2>2, OtherSteps, Zenon
    <3>2. ASSUME NEW j \in 1 .. Len(tasks'), tasks'[j].op = "published"
          PROVE  j \in 1 .. Len(tasks) /\ tasks'[j] = tasks[j]
      <4>1. ~NewTask(tasks'[j])
        BY <3>2, Zenon DEF NewTask
      <4> QED
        BY <3>1, <4>1 DEF Extended
    <3> QED
      BY <1>a, <3>2, Zenon
  <2> QED
    BY <2>1, <2>2, Zenon
<1>c. ASSUME NEW i \in 1 .. Len(tasks'), tasks'[i].op = "publish"
      PROVE  \/ /\ tasks'[i].id = published + 1
                /\ \A j \in 1 .. Len(tasks') : i < j => tasks'[j].op # "publish"
             \/ \E m \in 1 .. Len(tasks) :
                  /\ tasks'[i] = tasks[m]
                  /\ \A j \in 1 .. Len(tasks') : i < j /\ tasks'[j].op = "publish" =>
                       \/ tasks'[j].id = published + 1
                       \/ \E n \in 1 .. Len(tasks) : m < n /\ tasks'[j] = tasks[n]
  <2>1. CASE WorkerStep
    <3>1. TaskShift
      BY <2>1, WorkerSteps, Shifted, Zenon
    <3>2. \A j \in 1 .. Len(tasks') : j + 1 \in 1 .. Len(tasks) /\ tasks'[j] = tasks[j + 1]
      BY <3>1, Zenon DEF TaskShift
    <3>3. \A j \in 1 .. Len(tasks') : i < j => i + 1 < j + 1
      OBVIOUS
    <3> QED
      BY <3>2, <3>3, Zenon
  <2>2. CASE ~WorkerStep
    <3>1. Extended
      BY <2>2, OtherSteps, Zenon
    <3>2. ASSUME NEW j \in 1 .. Len(tasks'), tasks'[j].op = "publish"
          PROVE  \/ tasks'[j].id = published + 1 /\ j > Len(tasks) /\ Len(tasks') <= Len(tasks) + 1
                 \/ j \in 1 .. Len(tasks) /\ tasks'[j] = tasks[j]
      <4>1. CASE j > Len(tasks)
        <5>1. NewTask(tasks'[j])
          BY <3>1, <4>1, Zenon DEF Extended
        <5>2. tasks'[j].id = published + 1
          BY <3>2, <5>1, Zenon DEF NewTask
        <5>3. Len(tasks') <= Len(tasks) + 1
          BY <3>1, <3>2, <4>1, Zenon DEF Extended, PostedExisting
        <5> QED
          BY <4>1, <5>2, <5>3, Zenon
      <4>2. CASE ~(j > Len(tasks))
        BY <3>1, <4>2 DEF Extended
      <4> QED
        BY <4>1, <4>2, Zenon
    <3>3. Len(tasks') \in Nat
      BY <3>1, Zenon DEF Extended
    <3>4. CASE i \in 1 .. Len(tasks) /\ tasks'[i] = tasks[i]
      BY <3>2, <3>4, Zenon
    <3>5. CASE tasks'[i].id = published + 1 /\ i > Len(tasks) /\ Len(tasks') <= Len(tasks) + 1
      <4>1. \A j \in 1 .. Len(tasks') : ~(i < j)
        BY <1>t, <3>3, <3>5
      <4> QED
        BY <3>5, <4>1, Zenon
    <3> QED
      BY <1>c, <3>2, <3>4, <3>5, Zenon
  <2> QED
    BY <2>1, <2>2, Zenon
<1>2. PubCalls'
  <2>1. ASSUME NEW i \in 1 .. Len(tasks'), tasks'[i].op = "publish",
               NEW k \in 1 .. Len(pendingPub)
        PROVE  pendingPub[k] < tasks'[i].id
    <3>1. pendingPub[k] < published + 1
      BY <1>t
    <3> QED
      BY <1>c, <2>1, <3>1 DEF PubFacts, PubCalls
  <2>2. ASSUME NEW i \in 1 .. Len(tasks'), tasks'[i].op = "publish",
               NEW j \in 1 .. Len(tasks'), tasks'[j].op = "publish", i < j
        PROVE  tasks'[i].id < tasks'[j].id
    <3>1. PICK m \in 1 .. Len(tasks) :
            /\ tasks'[i] = tasks[m]
            /\ \/ tasks'[j].id = published + 1
               \/ \E n \in 1 .. Len(tasks) : m < n /\ tasks'[j] = tasks[n]
      BY <1>c, <2>2, Zenon
    <3>2. tasks[m].id < published + 1
      BY <1>t, <2>2, <3>1 DEF TypeInv, TaskFacts
    <3> QED
      BY <2>2, <3>1, <3>2, Zenon DEF PubFacts, PubCalls
  <2> QED
    BY <1>u, <2>1, <2>2, Zenon DEF PubCalls
<1>3. PubAnswers'
  <2>1. ASSUME NEW i \in 1 .. Len(tasks'), tasks'[i].op = "published"
        PROVE  \E k \in 1 .. Len(pendingPub) : pendingPub[k] = Label(tasks'[i])
    BY <1>a, <2>1 DEF PubFacts, PubAnswers
  <2>2. ASSUME NEW i \in 1 .. Len(tasks'), tasks'[i].op = "published",
               NEW j \in 1 .. Len(tasks'), tasks'[j].op = "published", i < j
        PROVE  Label(tasks'[i]) < Label(tasks'[j])
    <3>1. PICK m \in 1 .. Len(tasks) :
            /\ tasks'[i] = tasks[m]
            /\ \E n \in 1 .. Len(tasks) : m < n /\ tasks'[j] = tasks[n]
      BY <1>a, <2>2, Zenon
    <3> QED
      BY <2>2, <3>1, Zenon DEF PubFacts, PubAnswers
  <2>3. ASSUME NEW i \in 1 .. Len(tasks'), tasks'[i].op = "published",
               NEW j \in 1 .. Len(requests'), requests'[j].op = "publish"
        PROVE  Label(tasks'[i]) < requests'[j].id
    <3>1. PICK m \in 1 .. Len(tasks) : tasks'[i] = tasks[m]
      BY <1>a, <2>3, Zenon
    <3>2. PICK n \in 1 .. Len(requests) : requests'[j] = requests[n]
      BY <2>3, PublishRequestsKept, Zenon
    <3> QED
      BY <2>3, <3>1, <3>2, Zenon DEF PubFacts, PubAnswers
  <2> QED
    BY <1>u, <2>1, <2>2, <2>3, Zenon DEF PubAnswers, Label
<1>4. PubRequests'
  <2>1. ASSUME NEW i \in 1 .. Len(requests'), requests'[i].op = "publish"
        PROVE  \E k \in 1 .. Len(pendingPub) : pendingPub[k] = requests'[i].id
    BY <2>1, PublishRequestsKept DEF PubFacts, PubRequests
  <2>2. ASSUME NEW i \in 1 .. Len(requests'), requests'[i].op = "publish",
               NEW j \in 1 .. Len(requests'), requests'[j].op = "publish", i < j
        PROVE  requests'[i].id < requests'[j].id
    <3>1. PICK m \in 1 .. Len(requests) :
            /\ requests'[i] = requests[m]
            /\ \E n \in 1 .. Len(requests) : m < n /\ requests'[j] = requests[n]
      BY <2>2, PublishRequestsKept, Zenon
    <3> QED
      BY <2>2, <3>1, Zenon DEF PubFacts, PubRequests
  <2> QED
    BY <1>u, <2>1, <2>2, Zenon DEF PubRequests
<1> QED
  BY <1>u, <1>2, <1>3, <1>4, Zenon DEF PubFacts, PubPending

LEMMA PubStep ==
  ASSUME TypeInv, PubFacts, Next
  PROVE  PubFacts'
  BY PubByAnswer, PubByRequest, PubByPublication, PubByOthers, Zenon

LEMMA PendingInit ==
  ASSUME Init
  PROVE  SubFacts /\ PubFacts
<1>1. /\ 1 .. Len(tasks) = {} /\ 1 .. Len(requests) = {} /\ 1 .. Len(pendingPub) = {}
      /\ Len(alloc) = 0 /\ Len(pendingSub) = 0 /\ acked = 0
  <2>1. Len(<<>>) = 0 /\ 1 .. 0 = {}
    OBVIOUS
  <2> QED
    BY <2>1, Zenon DEF Init
<1>2. \A id \in RemoteIds : remote[id].conn = 0
  BY Zenon DEF Init, Absent, Ids
<1>3. SubFacts
  BY <1>1, <1>2 DEF SubFacts, SubBounds, SubTasks, SubCover, SubRequests, SubRemote
<1>4. PubFacts
  BY <1>1, Zenon DEF PubFacts, PubPending, PubCalls, PubAnswers, PubRequests
<1> QED
  BY <1>3, <1>4, Zenon

LEMMA PendingStutter ==
  ASSUME SubFacts, PubFacts, UNCHANGED vars
  PROVE  SubFacts' /\ PubFacts'
<1>1. /\ UNCHANGED <<tasks, remote, pendingSub, pendingPub>>
      /\ UNCHANGED <<requests, alloc, pubs, acked>>
  BY Zenon DEF vars, mapVars, serverVars, appVars, historyVars
<1> QED
  BY <1>1, ZenonT(30)
     DEF SubFacts, SubBounds, SubTasks, SubCover, SubRequests, SubRemote, PubFacts,
         PubPending, PubCalls, PubAnswers, PubRequests, Label

\* AnswerFindsPending for every set of streams and every number of joins:
\* OnSubscribeStream and OnPublishStream never take from an empty queue.
THEOREM AnswersFindPending == Spec => []AnswerFindsPending
<1> DEFINE PendingInv == TypeInv /\ SubFacts /\ PubFacts
<1>1. Init => PendingInv
  BY TypeInit, PendingInit, Zenon
<1>2. PendingInv /\ [Next]_vars => PendingInv'
  BY TypeStep, TypeStutter, SubStep, PubStep, PendingStutter, Zenon
<1>3. PendingInv => AnswerFindsPending
  <2> SUFFICES ASSUME TypeInv, SubFacts, PubFacts, tasks # <<>>
               PROVE  /\ Head(tasks).op = "subscribed" => pendingSub # <<>>
                      /\ Head(tasks).op = "published" => pendingPub # <<>>
    BY Zenon DEF AnswerFindsPending
  <2>2. 1 \in 1 .. Len(tasks) /\ Head(tasks) = tasks[1]
    <3>1. tasks \in Seq(Tasks)
      BY Zenon DEF TypeInv, TypeOK, Tasks
    <3> QED
      BY <3>1, HeadTailProperties, LenProperties, EmptySeq
  <2>3. ASSUME tasks[1].op = "subscribed"
        PROVE  pendingSub # <<>>
    BY <2>2, <2>3, NextAnswer
  <2>4. ASSUME tasks[1].op = "published"
        PROVE  pendingPub # <<>>
    <3>1. PICK k \in 1 .. Len(pendingPub) : pendingPub[k] = Label(tasks[1])
      BY <2>2, <2>4, Zenon DEF PubFacts, PubAnswers
    <3> QED
      BY <3>1
  <2> QED
    BY <2>2, <2>3, <2>4, Zenon
<1> QED
  BY <1>1, <1>2, <1>3, PTL DEF Spec
-----------------------------------------------------------------------------
(* What holds as long as the room has been joined once.  Nothing is dropped *)
(* then, so that the subscriptions numbered above are those of the pending  *)
(* streams, in order.                                                       *)


Arrives(i) == tasks[i].op \in {"add", "existing"} /\ tasks[i].id \in RemoteIds

\* Whatever concerns a stream comes after it was shown to the application.
ObservedFacts ==
    /\ answering \cup gathering \subseteq observed
    /\ observed \cup serverIds \subseteq known
    /\ \A id \in Ids : IsInfo(remote[id]) => id \in observed
    /\ \A k \in 1 .. Len(pendingSub) : pendingSub[k] \in observed
    /\ \A c \in 1 .. Len(alloc) : alloc[c].id \in observed
    /\ \A i \in 1 .. Len(requests) :
         requests[i].op = "subscribe" => requests[i].id \in observed
    /\ \A i \in 1 .. Len(tasks) :
         /\ tasks[i].op \in {"answer", "candidate"} => tasks[i].id \in observed
         /\ Arrives(i) => tasks[i].id \in known

\* The first join begins with nothing but calls of PublishStream, and then a
\* stream arrives once.
FirstJoin ==
    /\ link = "down" => requests = <<>>
    /\ joins = 0 => link = "down" /\ tasks = <<>>
    /\ joins = 0 \/ (joins <= 1 /\ link = "joining") =>
         /\ observed = {} /\ pendingSub = <<>> /\ alloc = <<>>
         /\ \A i \in 1 .. Len(tasks) : tasks[i].op = "publish"
    /\ joins <= 1 =>
         \A i \in 1 .. Len(tasks) : Arrives(i) =>
           /\ tasks[i].id \in known \ observed
           /\ \A j \in 1 .. Len(tasks) :
                Arrives(j) /\ tasks[j].id = tasks[i].id => i = j

\* In the first join the pending streams are those of the connections that are
\* still to be handled and of the requests under way, each once, in this order.
OrderOfAllocs ==
    \A c \in 1 .. Len(alloc) : acked < c => alloc[c].id = pendingSub[c - acked]

OrderOfRequests ==
    /\ \A i \in 1 .. Len(requests) :
         requests[i].op = "subscribe" => requests[i].id = pendingSub[requests[i].conn - acked]
    /\ \A n \in 1 .. acked + Len(pendingSub) : link # "down" /\ Len(alloc) < n =>
         \E i \in 1 .. Len(requests) : requests[i].op = "subscribe" /\ requests[i].conn = n

OrderOnce ==
    /\ \A i, j \in 1 .. Len(pendingSub) : pendingSub[i] = pendingSub[j] => i = j
    /\ \A c \in 1 .. acked : /\ \A k \in 1 .. Len(pendingSub) : alloc[c].id # pendingSub[k]
                            /\ \A d \in 1 .. acked : alloc[c].id = alloc[d].id => c = d

OrderFacts == joins <= 1 => OrderOfAllocs /\ OrderOfRequests /\ OrderOnce

\* The erizo_id_ is that of a connection, and known as soon as one is.
ErizoFacts ==
    /\ erizoId # NoErizo =>
         \/ \E c \in 1 .. Len(alloc) : alloc[c].erizo = erizoId
         \/ \E c \in 1 .. Len(pubs) : pubs[c].erizo = erizoId
    /\ acked > 0 => erizoId # NoErizo

\* A stream with an answer has a connection.
HasConn(id) == IsInfo(remote[id]) => remote[id].conn # 0

AnswerFacts ==
    joins <= 1 =>
        /\ \A id \in answering \cup gathering : HasConn(id)
        /\ \A i \in 1 .. Len(tasks) :
             tasks[i].op \in {"answer", "candidate"} => HasConn(tasks[i].id)

\* As long as streams only arrive the map has a stream info exactly for those
\* that were shown, with the connection the server allocated, and a task that
\* looks for a connection finds it.
Calm == removed = {} /\ joins <= 1

CalmFacts ==
    Calm =>
        /\ crash = "no"
        /\ \A id \in Ids : IF id \in observed THEN IsInfo(remote[id]) ELSE remote[id] = Absent
        /\ \A c \in 1 .. acked : remote[alloc[c].id] = Info(c)
        /\ \A i \in 1 .. Len(tasks) :
             /\ tasks[i].op # "remove"
             /\ tasks[i].op = "ready" => tasks[i].conn \in 1 .. acked
             /\ tasks[i].op = "offer" =>
                  \/ tasks[i].conn <= acked
                  \/ \E j \in 1 .. Len(tasks) :
                       j < i /\ tasks[j].op = "subscribed" /\ tasks[j].conn = tasks[i].conn
        /\ \A i \in 1 .. Len(requests) :
             requests[i].op = "answer" => requests[i].conn <= acked

Inv ==
    /\ TypeInv /\ SubFacts /\ ObservedFacts /\ FirstJoin /\ OrderFacts
    /\ ErizoFacts /\ AnswerFacts /\ ConnectionsMatch /\ CalmFacts

-----------------------------------------------------------------------------
(* What the application has been shown.                                    *)

\* Where a task and a packet come from.
LEMMA Origins ==
  ASSUME TypeInv, Next
  PROVE  /\ \A i \in 1 .. Len(tasks') :
              \/ \E m \in 1 .. Len(tasks) : tasks'[i] = tasks[m]
              \/ ~WorkerStep /\ NewTask(tasks'[i])
         /\ \A i \in 1 .. Len(requests') :
              \/ \E m \in 1 .. Len(requests) : requests'[i] = requests[m]
              \/ WorkerStep /\ NewPacket(requests'[i])
<1>t. Len(tasks) \in Nat /\ Len(requests) \in Nat
  BY OrderTypes, Zenon
<1>1. CASE WorkerStep
  <2>1. TaskShift /\ Asked
    BY <1>1, WorkerSteps, Shifted, Zenon
  <2>2. \A i \in 1 .. Len(tasks') : \E m \in 1 .. Len(tasks) : tasks'[i] = tasks[m]
    BY <2>1, Zenon DEF TaskShift
  <2>3. \A i \in 1 .. Len(requests') : i \in 1 .. Len(requests) \/ i > Len(requests)
    BY <1>t
  <2> QED
    BY <1>1, <2>1, <2>2, <2>3, Zenon DEF Asked
<1>2. CASE ~WorkerStep
  <2>1. Extended /\ Served
    BY <1>2, OtherSteps, OtherRequests, Zenon
  <2>2. \A i \in 1 .. Len(tasks') : i \in 1 .. Len(tasks) \/ i > Len(tasks)
    BY <1>t
  <2>3. \A i \in 1 .. Len(requests') : \E m \in 1 .. Len(requests) : requests'[i] = requests[m]
    <3>1. CASE requests' = <<>>
      BY <3>1, EmptySeq
    <3>2. CASE RequestShift
      BY <3>2, Zenon DEF RequestShift
    <3> QED
      BY <2>1, <3>1, <3>2, Shifted, Zenon DEF Served
  <2> QED
    BY <1>2, <2>1, <2>2, <2>3, Zenon DEF Extended
<1> QED
  BY <1>1, <1>2, Zenon

\* The steps that show a stream.
LEMMA ObservedOnly ==
  ASSUME TypeInv, Next
  PROVE  UNCHANGED observed \/ \E id \in RemoteIds : Subscribes(id)
  BY StepFrame, SubscribeSteps, Zenon DEF Frame, appVars

LEMMA KnownGrows ==
  ASSUME TypeInv, Next
  PROVE  known \subseteq known'
  BY StepFrame, Zenon DEF Frame, Joins, OnJoinRoom, ServerPublish, ServerAddStream, ServerRemoveStream

LEMMA ObservedStep ==
  ASSUME TypeInv, ObservedFacts, Next
  PROVE  ObservedFacts'
<1>g. observed \subseteq observed' /\ known \subseteq known'
  BY StepGrows, KnownGrows, Zenon DEF Grows
<1>f. Frame
  BY StepFrame, Zenon
<1>t. remote \in [Ids -> Entry] /\ RemoteIds \subseteq Ids
  BY Zenon DEF TypeInv, TypeOK, Ids
<1>1. answering' \cup gathering' \subseteq observed'
  <2>1. answering \cup gathering \subseteq observed
    BY Zenon DEF ObservedFacts
  <2>2. CASE ReceiveOffer
    <3>1. \A conn : Matches(remote, conn) \subseteq observed
      BY DEF Matches, ObservedFacts, IsInfo, Info
    <3> QED
      BY <1>g, <2>1, <2>2, <3>1, Zenon DEF ReceiveOffer
  <2> QED
    BY <1>f, <1>g, <2>1, <2>2, Zenon DEF Frame, OnSdpCreateSuccess, OnIceCandidate
<1>2. observed' \cup serverIds' \subseteq known'
  <2>1. observed' \subseteq known'
    <3>1. ASSUME NEW id \in RemoteIds, Subscribes(id)
          PROVE  observed' \subseteq known'
      <4>1. ExistingStream \/ OnAddStream
        BY <3>1, Zenon DEF Subscribes
      <4>2. 1 \in 1 .. Len(tasks)
        BY <4>1, WorkerSteps, Shifted, Zenon DEF WorkerStep, TaskShift
      <4>3. Arrives(1) /\ id = tasks[1].id
        BY <3>1, Zenon DEF Subscribes, Arrives
      <4> QED
        BY <1>g, <3>1, <4>2, <4>3, Zenon DEF Subscribes, ObservedFacts
    <3> QED
      BY <1>g, <3>1, ObservedOnly, Zenon DEF ObservedFacts
  <2>2. serverIds' \subseteq known'
    BY <1>f, <1>g, Zenon DEF Frame, Joins, OnJoinRoom, ServerPublish, ServerAddStream,
       ServerRemoveStream, ObservedFacts
  <2> QED
    BY <2>1, <2>2, Zenon
<1>3. \A id \in Ids : IsInfo(remote'[id]) => id \in observed'
  <2>1. \A id \in Ids : IsInfo(remote[id]) => id \in observed'
    BY <1>g, Zenon DEF ObservedFacts
  <2>i. ~IsInfo(Absent) /\ ~IsInfo(Null)
    BY Zenon DEF IsInfo, Absent, Null
  <2>2. CASE UNCHANGED remote \/ remote' = [id \in Ids |-> Absent]
    BY <2>1, <2>i, <2>2, Zenon
  <2>3. CASE \E id \in RemoteIds : Subscribes(id) /\ remote' = [remote EXCEPT ![id] = Info(0)]
    BY <1>t, <2>1, <2>3, Zenon DEF Subscribes
  <2>4. CASE \E id \in RemoteIds : \/ remote' = [remote EXCEPT ![id] = Absent]
                                   \/ remote' = [remote EXCEPT ![id] = Null]
    BY <1>t, <2>1, <2>i, <2>4, Zenon
  <2>5. CASE \E id \in RemoteIds : \E c : /\ IsInfo(remote[id])
                                         /\ remote' = [remote EXCEPT ![id] = Info(c)]
    BY <1>t, <2>1, <2>5, Zenon
  <2> QED
    BY <2>2, <2>3, <2>4, <2>5, RemoteSteps, Zenon DEF RemoteChange
<1>4. \A k \in 1 .. Len(pendingSub') : pendingSub'[k] \in observed'
  <2>n. Len(pendingSub) \in Nat /\ \A k \in 1 .. Len(pendingSub) : pendingSub[k] \in observed'
    BY <1>g, OrderTypes, Zenon DEF ObservedFacts
  <2>1. ASSUME NEW id \in RemoteIds, Subscribes(id)
        PROVE  \A k \in 1 .. Len(pendingSub') : pendingSub'[k] \in observed'
    <3>1. id \in observed'
      BY <2>1, Zenon DEF Subscribes
    <3>2. /\ Len(pendingSub') = Len(pendingSub) + 1 /\ pendingSub'[Len(pendingSub) + 1] = id
          /\ \A k \in 1 .. Len(pendingSub) : pendingSub'[k] = pendingSub[k]
      BY <2>1, SubscribeCounts, Zenon
    <3>3. \A k \in 1 .. Len(pendingSub') : k \in 1 .. Len(pendingSub) \/ k = Len(pendingSub) + 1
      BY <2>n, <3>2
    <3> QED
      BY <2>n, <3>1, <3>2, <3>3, Zenon
  <2>2. CASE OnSubscribeStream
    BY <2>n, <2>2, AnswerCounts, Zenon
  <2> QED
    BY <1>f, <2>n, <2>1, <2>2, SubscribeSteps, Zenon DEF Frame
<1>5. \A c \in 1 .. Len(alloc') : alloc'[c].id \in observed'
  <2>1. CASE ServerSubscribe
    <3>1. /\ RequestShift /\ requests[1].op = "subscribe" /\ Len(alloc') = Len(alloc) + 1
          /\ alloc'[Len(alloc) + 1].id = requests[1].id
      BY <2>1, AllocateFacts, Shifted, Zenon DEF Handled
    <3>2. requests[1].id \in observed'
      BY <1>g, <3>1, Zenon DEF ObservedFacts, RequestShift
    <3>3. Len(alloc) \in Nat /\ \A c \in 1 .. Len(alloc) : alloc'[c] = alloc[c]
      BY StepGrows, Zenon DEF Grows
    <3>4. \A c \in 1 .. Len(alloc') : c \in 1 .. Len(alloc) \/ c = Len(alloc) + 1
      BY <3>1, <3>3
    <3> QED
      BY <1>g, <3>1, <3>2, <3>3, <3>4, Zenon DEF ObservedFacts
  <2> QED
    BY <1>f, <1>g, <2>1, Zenon DEF Frame, ObservedFacts
<1>6. ASSUME NEW i \in 1 .. Len(requests'), requests'[i].op = "subscribe"
      PROVE  requests'[i].id \in observed'
  <2>1. CASE NewPacket(requests'[i])
    BY <1>6, <2>1, Zenon DEF NewPacket, Subscribes
  <2> QED
    BY <1>g, <1>6, <2>1, Origins, Zenon DEF ObservedFacts
<1>7. ASSUME NEW i \in 1 .. Len(tasks'), tasks'[i].op \in {"answer", "candidate"}
      PROVE  tasks'[i].id \in observed'
  <2>1. CASE NewTask(tasks'[i])
    <3>1. tasks'[i].id \in answering \cup gathering
      BY <1>7, <2>1, Zenon DEF NewTask
    <3> QED
      BY <1>g, <3>1, Zenon DEF ObservedFacts
  <2> QED
    BY <1>g, <1>7, <2>1, Origins, Zenon DEF ObservedFacts
<1>8. ASSUME NEW i \in 1 .. Len(tasks'), tasks'[i].op \in {"add", "existing"},
             tasks'[i].id \in RemoteIds
      PROVE  tasks'[i].id \in known'
  <2>1. CASE NewTask(tasks'[i])
    <3>1. announce \subseteq LocalIds /\ RemoteIds \cap LocalIds = {}
      BY RoomStreamsAssumption, Zenon DEF TypeInv, TypeOK
    <3>2. tasks'[i].id \in serverIds \/ tasks'[i].id \in known'
      BY <1>8, <2>1, <3>1, Zenon DEF NewTask
    <3> QED
      BY <1>g, <3>2, Zenon DEF ObservedFacts
  <2> QED
    BY <1>g, <1>8, <2>1, Origins, Zenon DEF ObservedFacts, Arrives
<1> QED
  BY <1>1, <1>2, <1>3, <1>4, <1>5, <1>6, <1>7, <1>8, Zenon DEF ObservedFacts, Arrives

-----------------------------------------------------------------------------
(* The first join.                                                         *)

LEMMA NothingSentWhileDown ==
  ASSUME Next, link = "down"
  PROVE  UNCHANGED requests
<1>1. CASE WorkerStep
  BY <1>1, Zenon DEF WorkerStep, ExistingStream, OnAddStream, OnAddRemoteStream, SubscribeStream,
     OnRemoveStream, OnSubscribeStream, Publish, OnPublishStream, ReceiveOffer, SendAnswer,
     OnPeerConnectionConnectErizoReady, SendIceCandidate, Send
<1>2. CASE ~WorkerStep
  BY <1>2, ZenonT(30) DEF Next, OnJoinRoom, PostExisting, Disconnected, ServerAddStream, ServerSends,
     ServerRemoveStream, ServerSubscribe, ServerPublish, ServerAnnounce, ServerOffer, Handle,
     ServerAnswer, ServerCandidate, PublishStream, OnSdpCreateSuccess, OnIceCandidate,
     RaceWithJoin
<1> QED
  BY <1>1, <1>2, Zenon

\* The first step is OnJoinRoom.
LEMMA FirstStep ==
  ASSUME TypeInv, ObservedFacts, FirstJoin, Next, joins = 0
  PROVE  Joins
<1>1. link = "down" /\ tasks = <<>> /\ answering = {} /\ gathering = {}
  BY Zenon DEF FirstJoin, ObservedFacts
<1>2. ~WorkerStep
  BY <1>1, EmptySeq, WorkerSteps, Shifted DEF TaskShift
<1>3. ~PostExisting /\ ~Disconnected
  BY <1>1, Zenon DEF PostExisting, Disconnected
<1>4. ~PublishStream
  <2>1. PublishStream => joins > 0
    BY Zenon DEF PublishStream
  <2> QED
    BY <2>1
<1>5. \A id : ~ServerAddStream(id) /\ ~ServerRemoveStream(id) /\ ~ServerAnnounce(id)
  BY <1>1, Zenon DEF ServerAddStream, ServerRemoveStream, ServerAnnounce, ServerSends
<1>6. ~ServerSubscribe /\ ~ServerPublish /\ ~ServerAnswer /\ ~ServerCandidate
  BY <1>1, Zenon DEF ServerSubscribe, ServerPublish, ServerAnswer, ServerCandidate, Handle, ServerSends
<1>7. \A conn : ~ServerOffer(conn)
  BY <1>1, Zenon DEF ServerOffer, ServerSends
<1>8. \A id : ~OnSdpCreateSuccess(id) /\ ~OnIceCandidate(id)
  BY <1>1, Zenon DEF OnSdpCreateSuccess, OnIceCandidate
<1>9. ~RaceWithJoin
  BY <1>1, Zenon DEF RaceWithJoin
<1> QED
  BY <1>2, <1>3, <1>4, <1>5, <1>6, <1>7, <1>8, <1>9, Zenon DEF Next, Joins

\* While OnJoinRoom is under way for the first time, only the application does
\* something, and the tasks it has posted use none of what OnJoinRoom replaces.
LEMMA JoiningSteps ==
  ASSUME TypeInv, ObservedFacts, FirstJoin, Next, joins <= 1, link = "joining"
  PROVE  PostExisting \/ Publish \/ PublishStream
<1>1. /\ answering = {} /\ gathering = {}
      /\ \A i \in 1 .. Len(tasks) : tasks[i].op = "publish"
  BY Zenon DEF FirstJoin, ObservedFacts
<1>2. WorkerStep => Publish
  <2>1. WorkerStep => 1 \in 1 .. Len(tasks)
    BY WorkerSteps, Shifted, Zenon DEF TaskShift
  <2> QED
    BY <1>1, <2>1, TaskOfStep, Zenon
<1>3. ~RaceWithJoin
  <2>1. tasks # <<>> => Head(tasks).op = "publish"
    <3>1. tasks \in Seq(Tasks)
      BY Zenon DEF TypeInv, TypeOK, Tasks
    <3>2. tasks # <<>> => Head(tasks) = tasks[1] /\ 1 \in 1 .. Len(tasks)
      BY <3>1, HeadTailProperties, EmptySeq, LenProperties
    <3> QED
      BY <1>1, <3>2, Zenon
  <2> QED
    BY <2>1, Zenon DEF RaceWithJoin
<1> QED
  BY <1>1, <1>2, <1>3, ZenonT(30) DEF Next, OnJoinRoom, Disconnected, ServerAddStream, ServerSends, Handle,
     ServerRemoveStream, ServerSubscribe, ServerPublish, ServerAnnounce, ServerOffer,
     ServerAnswer, ServerCandidate, OnSdpCreateSuccess, OnIceCandidate

LEMMA FirstJoinStep ==
  ASSUME TypeInv, ObservedFacts, FirstJoin, Next
  PROVE  FirstJoin'
<1>f. Frame
  BY StepFrame, Zenon
<1>g. joins \in Nat /\ joins' \in Nat /\ joins <= joins'
  BY StepGrows DEF Grows
<1>n. Len(tasks) \in Nat
  BY OrderTypes, Zenon
<1>1. link' = "down" => requests' = <<>>
  BY <1>f, NothingSentWhileDown, Zenon DEF Frame, Joins, OnJoinRoom, PostExisting, Disconnected,
     FirstJoin
<1>2. joins' # 0
  BY <1>g, FirstStep DEF Joins, OnJoinRoom
<1>3. ASSUME joins' <= 1, link' = "joining"
      PROVE  /\ observed' = {} /\ pendingSub' = <<>> /\ alloc' = <<>>
             /\ \A i \in 1 .. Len(tasks') : tasks'[i].op = "publish"
  <2>1. CASE Joins
    <3>1. joins = 0
      BY <1>g, <1>3, <2>1 DEF Joins, OnJoinRoom
    <3> QED
      BY <2>1, <3>1, Zenon DEF FirstJoin, Joins, OnJoinRoom, appVars
  <2>2. CASE ~Joins
    <3>1. joins <= 1 /\ link = "joining" /\ ~PostExisting
      BY <1>f, <1>g, <1>3, <2>2, Zenon DEF Frame, PostExisting, Disconnected
    <3>2. /\ observed = {} /\ pendingSub = <<>> /\ alloc = <<>>
          /\ \A i \in 1 .. Len(tasks) : tasks[i].op = "publish"
      BY <3>1, Zenon DEF FirstJoin
    <3>3. Publish \/ PublishStream
      BY <3>1, JoiningSteps, Zenon
    <3>4. UNCHANGED <<observed, pendingSub, alloc>>
      BY <3>3, Zenon DEF Publish, PublishStream, Run, serverVars, appVars, mapVars
    <3>5. \A i \in 1 .. Len(tasks') : tasks'[i].op = "publish"
      <4>1. CASE Publish
        BY <3>2, <4>1, WorkerSteps, Shifted, ZenonT(30) DEF WorkerStep, TaskShift
      <4>2. CASE PublishStream
        <5>1. Task("publish", published', 0) \in Tasks
          <6>1. published' \in Nat
            BY StepGrows, RoomStreamsAssumption DEF Grows
          <6> QED
            BY <6>1 DEF Task, Tasks, TaskOps
        <5>2. Posted(Task("publish", published', 0))
          BY <4>2, <5>1, PostFacts, Zenon DEF PublishStream, TypeInv, TypeOK, Tasks
        <5>3. \A i \in 1 .. Len(tasks') : i \in 1 .. Len(tasks) \/ i = Len(tasks) + 1
          BY <5>2 DEF Posted
        <5> QED
          BY <3>2, <5>2, <5>3 DEF Posted, Task
      <4> QED
        BY <3>3, <4>1, <4>2, Zenon
    <3> QED
      BY <3>2, <3>4, <3>5, Zenon
  <2> QED
    BY <2>1, <2>2, Zenon
<1> DEFINE Comes(i) == tasks'[i].op \in {"add", "existing"} /\ tasks'[i].id \in RemoteIds
<1>4. ASSUME joins' <= 1
      PROVE  \A i \in 1 .. Len(tasks') : Comes(i) =>
               /\ tasks'[i].id \in known' \ observed'
               /\ \A j \in 1 .. Len(tasks') :
                    Comes(j) /\ tasks'[j].id = tasks'[i].id => i = j
  <2>j. /\ joins <= 1
        /\ \A i \in 1 .. Len(tasks) : Arrives(i) =>
             /\ tasks[i].id \notin observed
             /\ \A j \in 1 .. Len(tasks) : Arrives(j) /\ tasks[j].id = tasks[i].id => i = j
    BY <1>g, <1>4 DEF FirstJoin
  <2>k. \A i \in 1 .. Len(tasks') : Comes(i) => tasks'[i].id \in known'
    BY ObservedStep, Zenon DEF ObservedFacts, Arrives
  <2>1. CASE WorkerStep
    <3>1. TaskShift
      BY <2>1, WorkerSteps, Shifted, Zenon
    <3>2. ASSUME NEW i \in 1 .. Len(tasks'), Comes(i)
          PROVE  tasks'[i].id \notin observed'
      <4>1. i + 1 \in 1 .. Len(tasks) /\ tasks'[i] = tasks[i + 1] /\ i + 1 # 1 /\ Arrives(i + 1)
        BY <3>1, <3>2 DEF TaskShift, Arrives
      <4>2. ASSUME NEW id \in RemoteIds, Subscribes(id)
            PROVE  tasks'[i].id # id
        <5>1. id = tasks[1].id /\ Arrives(1) /\ 1 \in 1 .. Len(tasks)
          BY <3>1, <4>2, Zenon DEF Subscribes, Arrives, TaskShift
        <5> QED
          BY <2>j, <4>1, <5>1, Zenon
      <4>3. tasks'[i].id \notin observed
        BY <2>j, <4>1, Zenon
      <4> QED
        BY <4>2, <4>3, ObservedOnly, Zenon DEF Subscribes
    <3>3. ASSUME NEW i \in 1 .. Len(tasks'), Comes(i), NEW j \in 1 .. Len(tasks'), Comes(j),
                 tasks'[j].id = tasks'[i].id
          PROVE  i = j
      <4>1. /\ i + 1 \in 1 .. Len(tasks) /\ tasks'[i] = tasks[i + 1]
            /\ j + 1 \in 1 .. Len(tasks) /\ tasks'[j] = tasks[j + 1]
        BY <3>1, Zenon DEF TaskShift
      <4>2. i + 1 = j + 1
        BY <2>j, <3>3, <4>1, Zenon DEF Arrives
      <4> QED
        BY <4>2
    <3> QED
      BY <2>k, <3>2, <3>3, Zenon
  <2>2. CASE PostExisting
    <3>1. PostedExisting
      BY <2>2, PostExistingFacts, Zenon DEF TypeInv
    <3>2. observed' = {}  /\ \A i \in 1 .. Len(tasks) : tasks[i].op = "publish"
      BY <2>2, <2>j, Zenon DEF PostExisting, FirstJoin, appVars
    <3>3. \A i \in 1 .. Len(tasks') : Comes(i) => i > Len(tasks)
      BY <1>n, <3>1, <3>2 DEF PostedExisting
    <3> QED
      BY <2>k, <3>1, <3>2, <3>3, Zenon DEF PostedExisting
  <2>3. CASE ~WorkerStep /\ ~PostExisting
    <3>1. Extended /\ UNCHANGED observed
      BY <1>f, <2>3, OtherSteps, Zenon DEF Frame, WorkerStep
    <3>2. ASSUME NEW i \in 1 .. Len(tasks'), Comes(i), i > Len(tasks)
          PROVE  tasks'[i].id \notin known
      <4>1. NewTask(tasks'[i])
        BY <3>1, <3>2, Zenon DEF Extended
      <4>2. announce \subseteq LocalIds /\ RemoteIds \cap LocalIds = {}
        BY RoomStreamsAssumption, Zenon DEF TypeInv, TypeOK
      <4> QED
        BY <2>3, <3>2, <4>1, <4>2, Zenon DEF NewTask
    <3>3. ASSUME NEW i \in 1 .. Len(tasks'), Comes(i), i <= Len(tasks)
          PROVE  /\ i \in 1 .. Len(tasks) /\ tasks'[i] = tasks[i] /\ Arrives(i)
                 /\ tasks'[i].id \in known
      <4>1. i \in 1 .. Len(tasks) /\ tasks'[i] = tasks[i]
        BY <3>1, <3>3 DEF Extended
      <4>2. Arrives(i)
        BY <3>3, <4>1, Zenon DEF Arrives
      <4> QED
        BY <4>1, <4>2, Zenon DEF ObservedFacts
    <3>4. ASSUME NEW i \in 1 .. Len(tasks'), Comes(i)
          PROVE  tasks'[i].id \notin observed'
      <4>1. CASE i > Len(tasks)
        BY <3>1, <3>2, <3>4, <4>1, Zenon DEF ObservedFacts
      <4>2. CASE i <= Len(tasks)
        BY <2>j, <3>1, <3>3, <3>4, <4>2, Zenon
      <4> QED
        BY <1>n, <4>1, <4>2
    <3>5. ASSUME NEW i \in 1 .. Len(tasks'), Comes(i), NEW j \in 1 .. Len(tasks'), Comes(j),
                 tasks'[j].id = tasks'[i].id
          PROVE  i = j
      <4>1. CASE i > Len(tasks) /\ j > Len(tasks)
        <5>1. Len(tasks') <= Len(tasks) + 1 /\ Len(tasks') \in Nat
          BY <2>3, <3>1, Zenon DEF Extended
        <5> QED
          BY <1>n, <4>1, <5>1
      <4>2. CASE i <= Len(tasks) /\ j <= Len(tasks)
        BY <2>j, <3>3, <3>5, <4>2, Zenon
      <4>3. CASE (i <= Len(tasks) /\ j > Len(tasks)) \/ (i > Len(tasks) /\ j <= Len(tasks))
        BY <3>2, <3>3, <3>5, <4>3, Zenon
      <4> QED
        BY <1>n, <4>1, <4>2, <4>3
    <3> QED
      BY <2>k, <3>4, <3>5, Zenon
  <2> HIDE DEF Comes
  <2> QED
    BY <2>1, <2>2, <2>3, Zenon
<1> QED
  BY <1>1, <1>2, <1>3, <1>4, Zenon DEF FirstJoin, Arrives

-----------------------------------------------------------------------------
(* The order of subscriptions in the first join.                           *)

LEMMA OrderByAnswer ==
  ASSUME TypeInv, SubFacts, OrderFacts, Next, OnSubscribeStream, joins <= 1
  PROVE  OrderOfAllocs' /\ OrderOfRequests' /\ OrderOnce'
<1>t. /\ acked \in Nat /\ Len(alloc) \in Nat /\ Len(pendingSub) \in Nat
      /\ \A i \in 1 .. Len(requests) : requests[i].conn \in Int
  BY OrderTypes, Zenon
<1>c. /\ Taken("subscribed") /\ acked' = acked + 1 /\ UNCHANGED <<alloc, requests, link>>
      /\ Len(pendingSub') \in Nat /\ Len(pendingSub) = Len(pendingSub') + 1
      /\ \A k \in 1 .. Len(pendingSub') :
           k + 1 \in 1 .. Len(pendingSub) /\ pendingSub'[k] = pendingSub[k + 1]
  BY AnswerCounts, Zenon DEF OnSubscribeStream, Run
<1>n. acked + 1 <= Len(alloc) /\ Len(alloc) <= acked + Len(pendingSub)
  BY <1>c, NextAnswer, Shifted, Zenon DEF TaskShift, Taken, SubFacts, SubBounds
<1>l. /\ acked \in Nat /\ Len(alloc) \in Nat /\ Len(pendingSub') \in Nat
      /\ Len(pendingSub) = Len(pendingSub') + 1 /\ acked + 1 <= Len(alloc)
      /\ Len(alloc) <= acked + Len(pendingSub)
  BY <1>t, <1>c, <1>n, Zenon
<1>o. OrderOfAllocs /\ OrderOfRequests /\ OrderOnce
  BY Zenon DEF OrderFacts
<1>1. OrderOfAllocs'
  <2>1. ASSUME NEW c \in 1 .. Len(alloc), acked + 1 < c
        PROVE  alloc[c].id = pendingSub'[c - (acked + 1)]
    <3>1. c - (acked + 1) \in 1 .. Len(pendingSub') /\ c - (acked + 1) + 1 = c - acked /\ acked < c
      BY <1>l, <2>1
    <3> QED
      BY <1>c, <1>o, <3>1, Zenon DEF OrderOfAllocs
  <2> QED
    BY <1>c, <2>1, Zenon DEF OrderOfAllocs
<1>2. OrderOfRequests'
  <2>1. ASSUME NEW i \in 1 .. Len(requests), requests[i].op = "subscribe"
        PROVE  requests[i].id = pendingSub'[requests[i].conn - (acked + 1)]
    <3>1. /\ Len(alloc) < requests[i].conn /\ requests[i].conn <= acked + Len(pendingSub)
          /\ requests[i].conn \in Int
      BY <1>t, <2>1, Zenon DEF SubFacts, SubRequests
    <3>2. /\ requests[i].conn - (acked + 1) \in 1 .. Len(pendingSub')
          /\ requests[i].conn - (acked + 1) + 1 = requests[i].conn - acked
      <4> DEFINE c == requests[i].conn
      <4>1. Len(alloc) < c /\ c <= acked + Len(pendingSub) /\ c \in Int
        BY <3>1
      <4> HIDE DEF c
      <4>2. c - (acked + 1) \in 1 .. Len(pendingSub') /\ c - (acked + 1) + 1 = c - acked
        BY <1>l, <4>1
      <4> QED
        BY <4>2 DEF c
    <3>3. pendingSub'[requests[i].conn - (acked + 1)] = pendingSub[requests[i].conn - acked]
      BY <1>c, <3>2, Zenon
    <3> QED
      BY <1>o, <2>1, <3>3, Zenon DEF OrderOfRequests
  <2>2. acked' + Len(pendingSub') = acked + Len(pendingSub)
    BY <1>t, <1>c
  <2> QED
    BY <1>c, <1>o, <2>1, <2>2, Zenon DEF OrderOfRequests
<1>3. OrderOnce'
  <2>1. ASSUME NEW i \in 1 .. Len(pendingSub'), NEW j \in 1 .. Len(pendingSub'),
               pendingSub'[i] = pendingSub'[j]
        PROVE  i = j
    <3>1. /\ i + 1 \in 1 .. Len(pendingSub) /\ pendingSub'[i] = pendingSub[i + 1]
          /\ j + 1 \in 1 .. Len(pendingSub) /\ pendingSub'[j] = pendingSub[j + 1]
      BY <1>c, Zenon
    <3>2. i + 1 = j + 1
      BY <1>o, <2>1, <3>1, Zenon DEF OrderOnce
    <3> QED
      BY <3>2
  <2>2. alloc[acked + 1].id = pendingSub[1] /\ 1 \in 1 .. Len(pendingSub)
    <3>1. PICK c \in 1 .. Len(alloc) : c = acked + 1 /\ acked < c /\ c - acked = 1
      BY <1>t, <1>n
    <3>2. 1 \in 1 .. Len(pendingSub)
      BY <1>t, <1>c
    <3>3. alloc[c].id = pendingSub[c - acked]
      BY <1>o, <3>1, Zenon DEF OrderOfAllocs
    <3> QED
      BY <3>1, <3>2, <3>3, Zenon
  <2>3. ASSUME NEW c \in 1 .. acked + 1
        PROVE  /\ \A k \in 1 .. Len(pendingSub') : alloc[c].id # pendingSub'[k]
               /\ \A d \in 1 .. acked + 1 : alloc[c].id = alloc[d].id => c = d
    <3>1. c \in 1 .. acked \/ c = acked + 1
      BY <1>t
    <3>2. ASSUME NEW k \in 1 .. Len(pendingSub')
          PROVE  alloc[c].id # pendingSub'[k]
      <4>1. k + 1 \in 1 .. Len(pendingSub) /\ pendingSub'[k] = pendingSub[k + 1] /\ k + 1 # 1
        BY <1>c
      <4> QED
        BY <1>o, <2>2, <3>1, <4>1, Zenon DEF OrderOnce
    <3>3. ASSUME NEW d \in 1 .. acked + 1, alloc[c].id = alloc[d].id
          PROVE  c = d
      <4>1. d \in 1 .. acked \/ d = acked + 1
        BY <1>t
      <4> QED
        BY <1>o, <2>2, <3>1, <3>3, <4>1, Zenon DEF OrderOnce
    <3> QED
      BY <3>2, <3>3, Zenon
  <2> QED
    BY <1>c, <2>1, <2>3, Zenon DEF OrderOnce
<1> QED
  BY <1>1, <1>2, <1>3, Zenon

\* In the first join the next subscribe request is that of the next connection.
LEMMA NextRequest ==
  ASSUME TypeInv, SubFacts, OrderFacts, joins <= 1, link # "down",
         1 \in 1 .. Len(requests), requests[1].op = "subscribe"
  PROVE  requests[1].conn = Len(alloc) + 1
<1>t. /\ acked \in Nat /\ Len(alloc) \in Nat /\ Len(pendingSub) \in Nat
      /\ requests[1].conn \in Int
  BY OrderTypes, Zenon
<1>1. Len(alloc) < requests[1].conn /\ requests[1].conn <= acked + Len(pendingSub)
  BY Zenon DEF SubFacts, SubRequests
<1>2. Len(alloc) + 1 \in 1 .. acked + Len(pendingSub) /\ Len(alloc) < Len(alloc) + 1
  BY <1>t, <1>1
<1>3. PICK i \in 1 .. Len(requests) : requests[i].op = "subscribe" /\ requests[i].conn = Len(alloc) + 1
  BY <1>2, Zenon DEF OrderFacts, OrderOfRequests
<1>4. i # 1 => requests[1].conn < Len(alloc) + 1
  <2>1. i # 1 => 1 < i
    OBVIOUS
  <2> QED
    BY <1>3, <2>1, Zenon DEF SubFacts, SubRequests
<1> QED
  BY <1>t, <1>1, <1>3, <1>4

LEMMA OrderByAllocation ==
  ASSUME TypeInv, SubFacts, OrderFacts, Next, ServerSubscribe, joins <= 1
  PROVE  OrderOfAllocs' /\ OrderOfRequests' /\ OrderOnce'
<1>t. acked \in Nat /\ Len(alloc) \in Nat /\ Len(pendingSub) \in Nat
  BY OrderTypes, Zenon
<1>a. /\ RequestShift /\ requests[1].op = "subscribe"
      /\ Len(alloc') = Len(alloc) + 1 /\ alloc'[Len(alloc) + 1].id = requests[1].id
      /\ \A c \in 1 .. Len(alloc) : alloc'[c] = alloc[c]
  BY AllocateFacts, Shifted, StepGrows, Zenon DEF Handled, Grows
<1>u. UNCHANGED <<acked, pendingSub, link>> /\ link = "up"
  BY Zenon DEF ServerSubscribe, Handle, ServerSends, mapVars, historyVars
<1>n. requests[1].conn = Len(alloc) + 1 /\ 1 \in 1 .. Len(requests)
  BY <1>a, <1>u, NextRequest, Zenon DEF RequestShift
<1>o. OrderOfAllocs /\ OrderOfRequests /\ OrderOnce /\ acked <= Len(alloc)
  BY Zenon DEF OrderFacts, SubFacts, SubBounds
<1>1. OrderOfAllocs'
  <2>1. ASSUME NEW c \in 1 .. Len(alloc'), acked < c
        PROVE  alloc'[c].id = pendingSub[c - acked]
    <3>1. CASE c \in 1 .. Len(alloc)
      BY <1>a, <1>o, <2>1, <3>1, Zenon DEF OrderOfAllocs
    <3>2. CASE c = Len(alloc) + 1
      BY <1>a, <1>n, <1>o, <3>2, Zenon DEF OrderOfRequests
    <3> QED
      BY <1>t, <1>a, <3>1, <3>2
  <2> QED
    BY <1>u, <2>1, Zenon DEF OrderOfAllocs
<1>2. OrderOfRequests'
  <2>1. ASSUME NEW i \in 1 .. Len(requests'), requests'[i].op = "subscribe"
        PROVE  requests'[i].id = pendingSub[requests'[i].conn - acked]
    BY <1>a, <1>o, <2>1 DEF OrderOfRequests, RequestShift
  <2>2. ASSUME NEW n \in 1 .. acked + Len(pendingSub), Len(alloc) + 1 < n
        PROVE  \E i \in 1 .. Len(requests') :
                 requests'[i].op = "subscribe" /\ requests'[i].conn = n
    <3>1. Len(alloc) < n /\ n # Len(alloc) + 1
      BY <1>t, <2>2
    <3>2. PICK i \in 1 .. Len(requests) : requests[i].op = "subscribe" /\ requests[i].conn = n
      BY <1>o, <1>u, <3>1, Zenon DEF OrderOfRequests
    <3>3. i # 1
      BY <1>n, <3>1, <3>2, Zenon
    <3> QED
      BY <1>a, <3>2, <3>3 DEF RequestShift
  <2> QED
    BY <1>a, <1>u, <2>1, <2>2, Zenon DEF OrderOfRequests
<1>3. OrderOnce'
  <2>1. \A c \in 1 .. acked : alloc'[c] = alloc[c]
    BY <1>t, <1>a, <1>o
  <2> QED
    BY <1>o, <1>u, <2>1 DEF OrderOnce
<1> QED
  BY <1>1, <1>2, <1>3, Zenon

LEMMA OrderBySubscription ==
  ASSUME TypeInv, SubFacts, ObservedFacts, FirstJoin, OrderFacts, Next, joins <= 1,
         NEW id \in RemoteIds, Subscribes(id)
  PROVE  OrderOfAllocs' /\ OrderOfRequests' /\ OrderOnce'
<1>t. /\ acked \in Nat /\ Len(alloc) \in Nat /\ Len(pendingSub) \in Nat
      /\ Len(requests) \in Nat /\ \A i \in 1 .. Len(requests) : requests[i].conn \in Int
  BY OrderTypes, Zenon
<1>w. (ExistingStream \/ OnAddStream) /\ WorkerStep
  BY Zenon DEF Subscribes, WorkerStep
<1>u. UNCHANGED <<acked, alloc, link>>
  BY <1>w, Zenon DEF ExistingStream, OnAddStream, Run, serverVars, historyVars
<1>p. /\ Len(pendingSub') = Len(pendingSub) + 1 /\ pendingSub'[Len(pendingSub) + 1] = id
      /\ \A k \in 1 .. Len(pendingSub) : pendingSub'[k] = pendingSub[k]
  BY SubscribeCounts, Zenon
<1>k. \A k \in 1 .. Len(pendingSub') : k \in 1 .. Len(pendingSub) \/ k = Len(pendingSub) + 1
  BY <1>t, <1>p
<1>o. /\ OrderOfAllocs /\ OrderOfRequests /\ OrderOnce
      /\ acked <= Len(alloc) /\ Len(alloc) <= acked + Len(pendingSub)
  BY Zenon DEF OrderFacts, SubFacts, SubBounds
<1>n. /\ id \notin observed
      /\ \A k \in 1 .. Len(pendingSub) : pendingSub[k] # id
      /\ \A c \in 1 .. Len(alloc) : alloc[c].id # id
  <2>1. 1 \in 1 .. Len(tasks) /\ Arrives(1) /\ id = tasks[1].id
    BY <1>w, WorkerSteps, Shifted, Zenon DEF Subscribes, Arrives, TaskShift
  <2>2. id \notin observed
    BY <2>1, Zenon DEF FirstJoin
  <2> QED
    BY <2>2, Zenon DEF ObservedFacts
<1>r. /\ \A i \in 1 .. Len(requests) : requests'[i] = requests[i] /\ i \in 1 .. Len(requests')
      /\ \A i \in 1 .. Len(requests') : i \in 1 .. Len(requests) \/ i = Len(requests) + 1
      /\ link # "down" => Len(requests) + 1 \in 1 .. Len(requests')
      /\ Len(requests) + 1 \in 1 .. Len(requests') =>
           /\ requests'[Len(requests) + 1].op = "subscribe"
           /\ requests'[Len(requests) + 1].id = id
           /\ requests'[Len(requests) + 1].conn = acked + Len(pendingSub) + 1
  <2> DEFINE p == SubscribePacket(id)
  <2>1. /\ p \in Packets /\ p.op = "subscribe" /\ p.id = id
        /\ p.conn = acked + Len(pendingSub) + 1
    <3>1. id \in Nat /\ erizoId \in Erizos \cup {NoErizo}
      BY RoomStreamsAssumption, Zenon DEF TypeInv, TypeOK
    <3>2. acked + Len(pendingSub) + 1 \in Int
      BY <1>t
    <3> QED
      BY <3>1, <3>2, Zenon DEF SubscribePacket, Packet, Packets, PacketOps
  <2>2. Send(p) /\ requests \in Seq(Packets)
    BY Zenon DEF Subscribes, TypeInv, TypeOK, Packets
  <2> HIDE DEF p
  <2>3. Sent(p)
    BY <2>1, <2>2, SendFacts, Zenon
  <2> QED
    BY <2>1, <2>3 DEF Sent
<1>1. OrderOfAllocs'
  <2>1. ASSUME NEW c \in 1 .. Len(alloc), acked < c
        PROVE  alloc[c].id = pendingSub'[c - acked]
    <3>1. c - acked \in 1 .. Len(pendingSub)
      BY <1>t, <1>o, <2>1
    <3> QED
      BY <1>o, <1>p, <2>1, <3>1, Zenon DEF OrderOfAllocs
  <2> QED
    BY <1>u, <2>1, Zenon DEF OrderOfAllocs
<1>2. OrderOfRequests'
  <2>1. ASSUME NEW i \in 1 .. Len(requests'), requests'[i].op = "subscribe"
        PROVE  requests'[i].id = pendingSub'[requests'[i].conn - acked]
    <3>1. CASE i \in 1 .. Len(requests)
      <4>1. /\ Len(alloc) < requests[i].conn /\ requests[i].conn <= acked + Len(pendingSub)
            /\ requests[i].conn \in Int /\ requests'[i] = requests[i]
        BY <1>t, <1>r, <2>1, <3>1, Zenon DEF SubFacts, SubRequests
      <4>2. requests[i].conn - acked \in 1 .. Len(pendingSub)
        BY <1>t, <1>o, <4>1
      <4>3. requests[i].id = pendingSub[requests[i].conn - acked]
        BY <1>o, <2>1, <3>1, <4>1, Zenon DEF OrderOfRequests
      <4> QED
        BY <1>p, <4>1, <4>2, <4>3, Zenon
    <3>2. CASE i = Len(requests) + 1
      <4>1. requests'[i].id = id /\ requests'[i].conn = acked + Len(pendingSub) + 1
        BY <1>r, <3>2, Zenon
      <4>2. requests'[i].conn - acked = Len(pendingSub) + 1
        BY <1>t, <4>1
      <4> QED
        BY <1>p, <4>1, <4>2, Zenon
    <3> QED
      BY <1>r, <3>1, <3>2, Zenon
  <2>2. ASSUME NEW n \in 1 .. acked + Len(pendingSub'), link # "down", Len(alloc) < n
        PROVE  \E i \in 1 .. Len(requests') :
                 requests'[i].op = "subscribe" /\ requests'[i].conn = n
    <3>1. CASE n \in 1 .. acked + Len(pendingSub)
      <4>1. PICK i \in 1 .. Len(requests) : requests[i].op = "subscribe" /\ requests[i].conn = n
        BY <1>o, <2>2, <3>1, Zenon DEF OrderOfRequests
      <4> QED
        BY <1>r, <4>1, Zenon
    <3>2. CASE n = acked + Len(pendingSub) + 1
      BY <1>r, <2>2, <3>2, Zenon
    <3> QED
      BY <1>t, <1>p, <3>1, <3>2
  <2> QED
    BY <1>u, <2>1, <2>2, Zenon DEF OrderOfRequests
<1>3. OrderOnce'
  <2>1. ASSUME NEW i \in 1 .. Len(pendingSub'), NEW j \in 1 .. Len(pendingSub'),
               pendingSub'[i] = pendingSub'[j]
        PROVE  i = j
    BY <1>k, <1>n, <1>o, <1>p, <2>1 DEF OrderOnce
  <2>2. ASSUME NEW c \in 1 .. acked, NEW k \in 1 .. Len(pendingSub')
        PROVE  alloc[c].id # pendingSub'[k]
    <3>1. c \in 1 .. Len(alloc)
      BY <1>t, <1>o
    <3> QED
      BY <1>k, <1>n, <1>o, <1>p, <3>1 DEF OrderOnce
  <2> QED
    BY <1>o, <1>u, <2>1, <2>2, Zenon DEF OrderOnce
<1> QED
  BY <1>1, <1>2, <1>3, Zenon

LEMMA OrderStep ==
  ASSUME TypeInv, SubFacts, ObservedFacts, FirstJoin, OrderFacts, Next
  PROVE  OrderFacts'
<1> SUFFICES ASSUME joins' <= 1
             PROVE  OrderOfAllocs' /\ OrderOfRequests' /\ OrderOnce'
  BY Zenon DEF OrderFacts
<1>f. Frame
  BY StepFrame, Zenon
<1>g. joins \in Nat /\ joins' \in Nat /\ joins <= joins'
  BY StepGrows DEF Grows
<1>j. joins <= 1
  BY <1>g
<1>t. acked \in Nat /\ Len(requests) \in Nat
  BY OrderTypes, Zenon
<1>1. CASE Joins
  <2>1. joins = 0
    BY <1>g, <1>1 DEF Joins, OnJoinRoom
  <2>2. pendingSub' = <<>> /\ alloc' = <<>> /\ acked' = acked /\ alloc = <<>> /\ requests' = <<>>
    BY <1>1, <2>1, Zenon DEF Joins, OnJoinRoom, FirstJoin, historyVars
  <2>3. acked = 0
    BY <1>t, <2>2, EmptySeq DEF SubFacts, SubBounds
  <2> QED
    BY <2>2, <2>3, EmptySeq DEF OrderOfAllocs, OrderOfRequests, OrderOnce
<1>2. CASE \E id \in RemoteIds : Subscribes(id)
  BY <1>j, <1>2, OrderBySubscription, Zenon
<1>3. CASE OnSubscribeStream \/ ServerSubscribe
  BY <1>j, <1>3, OrderByAnswer, OrderByAllocation, Zenon
<1>4. CASE /\ ~Joins /\ ~OnSubscribeStream /\ ~ServerSubscribe
           /\ ~\E id \in RemoteIds : Subscribes(id)
  <2>u. UNCHANGED <<acked, alloc, pendingSub>>
    BY <1>f, <1>4, SubscribeSteps, Zenon DEF Frame
  <2>o. OrderOfAllocs /\ OrderOfRequests /\ OrderOnce
    BY <1>j, Zenon DEF OrderFacts
  <2>1. ASSUME NEW i \in 1 .. Len(requests'), requests'[i].op = "subscribe"
        PROVE  requests'[i].id = pendingSub[requests'[i].conn - acked]
    <3>1. ~NewPacket(requests'[i])
      BY <1>4, <2>1, Zenon DEF NewPacket
    <3>2. PICK m \in 1 .. Len(requests) : requests'[i] = requests[m]
      BY <3>1, Origins, Zenon
    <3> QED
      BY <2>o, <2>1, <3>2, Zenon DEF OrderOfRequests
  <2>2. ASSUME NEW n \in 1 .. acked + Len(pendingSub), link' # "down", Len(alloc) < n
        PROVE  \E i \in 1 .. Len(requests') :
                 requests'[i].op = "subscribe" /\ requests'[i].conn = n
    <3>1. link # "down"
      BY <1>f, <1>4, <2>2, Zenon DEF Frame, PostExisting, Disconnected
    <3>2. PICK i \in 1 .. Len(requests) : requests[i].op = "subscribe" /\ requests[i].conn = n
      BY <2>o, <2>2, <3>1, Zenon DEF OrderOfRequests
    <3>3. CASE WorkerStep
      <4>1. i \in 1 .. Len(requests') /\ requests'[i] = requests[i]
        BY <1>t, <3>3, WorkerSteps DEF Asked
      <4> QED
        BY <3>2, <4>1, Zenon
    <3>4. CASE ~WorkerStep
      <4>1. CASE UNCHANGED requests
        BY <3>2, <4>1, Zenon
      <4>2. CASE Disconnected
        BY <2>2, <4>2, Zenon DEF Disconnected
      <4>3. ASSUME NEW op, Handled(op), op # "subscribe"
            PROVE  \E k \in 1 .. Len(requests') :
                     requests'[k].op = "subscribe" /\ requests'[k].conn = n
        <5>1. i # 1 /\ RequestShift
          BY <3>2, <4>3, Shifted, Zenon DEF Handled
        <5> QED
          BY <3>2, <5>1 DEF RequestShift
      <4> QED
        BY <1>4, <3>4, <4>1, <4>2, <4>3, OtherRequests, Zenon DEF Served
    <3> QED
      BY <3>3, <3>4, Zenon
  <2> QED
    BY <2>u, <2>o, <2>1, <2>2, ZenonT(30) DEF OrderOfAllocs, OrderOfRequests, OrderOnce
<1> QED
  BY <1>1, <1>2, <1>3, <1>4, Zenon

-----------------------------------------------------------------------------
(* Connections and answers.                                                *)

LEMMA ErizoStep ==
  ASSUME TypeInv, SubFacts, ErizoFacts, Next
  PROVE  ErizoFacts'
<1>g. /\ Len(alloc) \in Nat /\ Len(alloc') \in Nat /\ Len(alloc) <= Len(alloc')
      /\ \A c \in 1 .. Len(alloc) : alloc'[c] = alloc[c]
      /\ Len(pubs) \in Nat /\ Len(pubs') \in Nat /\ Len(pubs) <= Len(pubs')
      /\ \A c \in 1 .. Len(pubs) : pubs'[c] = pubs[c]
  BY StepGrows, Zenon DEF Grows
<1> DEFINE Names(e) == \/ \E c \in 1 .. Len(alloc) : alloc[c].erizo = e
                       \/ \E c \in 1 .. Len(pubs) : pubs[c].erizo = e
<1>n. \A e : Names(e) => \/ \E c \in 1 .. Len(alloc') : alloc'[c].erizo = e
                         \/ \E c \in 1 .. Len(pubs') : pubs'[c].erizo = e
  <2>1. \A c \in 1 .. Len(alloc) : c \in 1 .. Len(alloc') /\ alloc'[c] = alloc[c]
    BY <1>g
  <2>2. \A c \in 1 .. Len(pubs) : c \in 1 .. Len(pubs') /\ pubs'[c] = pubs[c]
    BY <1>g
  <2> QED
    BY <2>1, <2>2, Zenon
<1>1. CASE OnSubscribeStream \/ OnPublishStream
  <2>1. Taken(tasks[1].op) /\ WorkerStep
    BY <1>1, WorkerSteps, Zenon DEF WorkerStep
  <2>2. Head(tasks) = tasks[1] /\ 1 \in 1 .. Len(tasks)
    BY <2>1 DEF Taken
  <2>3. PICK e \in Erizos : LearnErizo(e) /\ Names(e)
    <3>1. CASE OnSubscribeStream
      <4>1. tasks[1].conn \in 1 .. Len(alloc)
        BY <2>1, <2>2, <3>1, TaskOfStep, Zenon DEF TypeInv, TaskFacts
      <4>2. alloc[tasks[1].conn].erizo \in Erizos
        BY <4>1, OrderTypes, Zenon
      <4> QED
        BY <2>2, <3>1, <4>1, <4>2, Zenon DEF OnSubscribeStream
    <3>2. CASE OnPublishStream
      <4>1. -tasks[1].conn \in 1 .. Len(pubs)
        BY <2>1, <2>2, <3>2, TaskOfStep, Zenon DEF TypeInv, TaskFacts
      <4>2. pubs[-tasks[1].conn].erizo \in Erizos
        BY <4>1, OrderTypes, Zenon
      <4> QED
        BY <2>2, <3>2, <4>1, <4>2, Zenon DEF OnPublishStream
    <3> QED
      BY <1>1, <3>1, <3>2, Zenon
  <2>4. erizoId' # NoErizo /\ Names(erizoId')
    <3>1. e # NoErizo
      BY RoomStreamsAssumption, Zenon
    <3> HIDE DEF Names
    <3>2. erizoId # NoErizo => Names(erizoId)
      BY Zenon DEF ErizoFacts, Names
    <3> QED
      BY <2>3, <3>1, <3>2, Zenon DEF LearnErizo
  <2> QED
    BY <1>n, <2>4, Zenon DEF ErizoFacts
<1>2. CASE UNCHANGED <<erizoId, acked>>
  BY <1>n, <1>2, Zenon DEF ErizoFacts
<1> QED
  BY <1>1, <1>2, StepFrame, Zenon DEF Frame

\* In the first join a stream that was shown keeps its connection.
LEMMA HasConnStays ==
  ASSUME TypeInv, SubFacts, ObservedFacts, FirstJoin, Next, joins <= 1,
         NEW id \in observed, HasConn(id)
  PROVE  IsInfo(remote'[id]) => remote'[id].conn # 0
<1>t. remote \in [Ids -> Entry] /\ id \in Ids /\ acked \in Nat
  BY OrderTypes, Zenon DEF TypeInv, TypeOK, Ids
<1>i. ~IsInfo(Absent) /\ ~IsInfo(Null) /\ \A c : Info(c).conn = c
  BY Zenon DEF IsInfo, Absent, Null, Info
<1>1. CASE UNCHANGED remote
  BY <1>1, Zenon DEF HasConn
<1>2. CASE remote' = [x \in Ids |-> Absent]
  BY <1>t, <1>i, <1>2, Zenon
<1>3. ASSUME NEW x \in RemoteIds, Subscribes(x), remote' = [remote EXCEPT ![x] = Info(0)]
      PROVE  IsInfo(remote'[id]) => remote'[id].conn # 0
  <2>1. 1 \in 1 .. Len(tasks) /\ Arrives(1) /\ x = tasks[1].id
    <3>1. WorkerStep
      BY <1>3, Zenon DEF Subscribes, WorkerStep
    <3> QED
      BY <1>3, <3>1, WorkerSteps, Shifted, Zenon DEF Subscribes, Arrives, TaskShift
  <2>2. x # id
    BY <2>1, Zenon DEF FirstJoin
  <2> QED
    BY <1>t, <1>3, <2>2, Zenon DEF HasConn
<1>4. CASE \E x \in RemoteIds : \/ remote' = [remote EXCEPT ![x] = Absent]
                                \/ remote' = [remote EXCEPT ![x] = Null]
  BY <1>t, <1>i, <1>4, Zenon DEF HasConn
<1>5. CASE OnSubscribeStream /\ remote' = [remote EXCEPT ![pendingSub[1]] = Info(tasks[1].conn)]
  <2>1. tasks[1].conn = acked + 1
    BY <1>5, NextAnswer, AnswerCounts, Shifted, Zenon DEF Taken, TaskShift
  <2>2. tasks[1].conn # 0
    BY <1>t, <2>1
  <2> QED
    BY <1>t, <1>i, <1>5, <2>2, Zenon DEF HasConn
<1> QED
  BY <1>1, <1>2, <1>3, <1>4, <1>5, RemoteSteps, Zenon DEF RemoteChange

LEMMA AnswerStep ==
  ASSUME TypeInv, SubFacts, ObservedFacts, FirstJoin, AnswerFacts, Next
  PROVE  AnswerFacts'
<1> DEFINE Then(id) == IsInfo(remote'[id]) => remote'[id].conn # 0
<1> SUFFICES ASSUME joins' <= 1
             PROVE  /\ \A id \in answering' \cup gathering' : Then(id)
                    /\ \A i \in 1 .. Len(tasks') :
                         tasks'[i].op \in {"answer", "candidate"} => Then(tasks'[i].id)
  BY Zenon DEF AnswerFacts, HasConn
<1>j. joins <= 1
  <2>1. joins \in Nat /\ joins' \in Nat /\ joins <= joins'
    BY StepGrows DEF Grows
  <2> QED
    BY <2>1
<1>a. \A id \in observed : HasConn(id) => Then(id)
  BY <1>j, HasConnStays, Zenon
<1>b. \A id \in answering \cup gathering : Then(id)
  BY <1>a, <1>j, Zenon DEF AnswerFacts, ObservedFacts
<1>1. \A id \in answering' \cup gathering' : Then(id)
  <2>1. CASE ReceiveOffer
    <3>1. WorkerStep /\ 1 \in 1 .. Len(tasks) /\ Head(tasks) = tasks[1] /\ tasks[1].op = "offer"
      BY <2>1, WorkerSteps, Shifted, TaskOfStep, Zenon DEF WorkerStep, TaskShift, Taken
    <3>2. tasks[1].conn \in 1 .. Len(alloc) /\ Len(alloc) \in Nat
      BY <3>1, OrderTypes, Zenon DEF TypeInv, TaskFacts
    <3>3. \A id \in Matches(remote, tasks[1].conn) : remote[id].conn # 0
      BY <3>2 DEF Matches, Info
    <3>4. UNCHANGED <<remote, gathering>>
      BY <2>1, Zenon DEF ReceiveOffer, mapVars
    <3>5. ASSUME NEW id \in answering'
          PROVE  id \in answering \/ id \in Matches(remote, tasks[1].conn)
      BY <2>1, <3>1, <3>5, Zenon DEF ReceiveOffer
    <3> QED
      BY <1>b, <3>3, <3>4, <3>5, Zenon
  <2>2. CASE UNCHANGED <<answering, gathering>>
    BY <1>b, <2>2, Zenon
  <2>3. CASE \E id \in Ids : OnSdpCreateSuccess(id) \/ OnIceCandidate(id)
    <3>1. answering' \cup gathering' \subseteq answering \cup gathering
      BY <2>3, Zenon DEF OnSdpCreateSuccess, OnIceCandidate
    <3> QED
      BY <1>b, <3>1, Zenon
  <2> QED
    BY <2>1, <2>2, <2>3, StepFrame, Zenon DEF Frame
<1>2. ASSUME NEW i \in 1 .. Len(tasks'), tasks'[i].op \in {"answer", "candidate"}
      PROVE  Then(tasks'[i].id)
  <2>1. CASE NewTask(tasks'[i])
    <3>1. tasks'[i].id \in answering \cup gathering
      BY <1>2, <2>1, Zenon DEF NewTask
    <3> HIDE DEF Then
    <3> QED
      BY <1>b, <3>1, Zenon
  <2>2. ASSUME NEW m \in 1 .. Len(tasks), tasks'[i] = tasks[m]
        PROVE  Then(tasks'[i].id)
    <3>1. tasks[m].id \in observed /\ HasConn(tasks[m].id)
      BY <1>2, <1>j, <2>2, Zenon DEF AnswerFacts, ObservedFacts
    <3> HIDE DEF Then
    <3> QED
      BY <1>a, <2>2, <3>1, Zenon
  <2> QED
    BY <2>1, <2>2, Origins, Zenon
<1> QED
  BY <1>1, <1>2, Zenon

\* If all connections are on one erizo, so were the first ones.
LEMMA OneErizoBefore ==
  ASSUME TypeInv, Next, OneErizo'
  PROVE  OneErizo
<1>1. PICK e \in Erizos : /\ \A c \in DOMAIN alloc' : alloc'[c].erizo = e
                          /\ \A c \in DOMAIN pubs' : pubs'[c].erizo = e
  BY Zenon DEF OneErizo
<1>2. /\ alloc \in Seq(Allocs) /\ alloc' \in Seq(Allocs) /\ Len(alloc) \in Nat
      /\ Len(alloc') \in Nat /\ Len(alloc) <= Len(alloc')
      /\ \A c \in 1 .. Len(alloc) : alloc'[c] = alloc[c]
  BY StepGrows, Zenon DEF Grows, TypeInv, TypeOK, Allocs
<1>3. /\ pubs \in Seq(Pubs) /\ pubs' \in Seq(Pubs') /\ Len(pubs) \in Nat
      /\ Len(pubs') \in Nat /\ Len(pubs) <= Len(pubs')
      /\ \A c \in 1 .. Len(pubs) : pubs'[c] = pubs[c]
  BY StepGrows, Zenon DEF Grows, TypeInv, TypeOK, Pubs
<1>4. \A c \in DOMAIN alloc : c \in DOMAIN alloc' /\ alloc'[c] = alloc[c]
  BY <1>2, LenProperties
<1>5. \A c \in DOMAIN pubs : c \in DOMAIN pubs' /\ pubs'[c] = pubs[c]
  BY <1>3, LenProperties
<1> QED
  BY <1>1, <1>4, <1>5 DEF OneErizo

LEMMA MatchStep ==
  ASSUME TypeInv, SubFacts, ObservedFacts, FirstJoin, OrderFacts, ErizoFacts, AnswerFacts,
         ConnectionsMatch, Next
  PROVE  ConnectionsMatch'
<1> SUFFICES ASSUME joins' <= 1
             PROVE  /\ \A id \in RemoteIds : IsInfo(remote'[id]) /\ remote'[id].conn # 0 =>
                         alloc'[remote'[id].conn].id = id
                    /\ \A a \in answered' :
                         /\ a.conn \in DOMAIN alloc'
                         /\ alloc'[a.conn].id = a.id
                         /\ OneErizo' => a.erizo = alloc'[a.conn].erizo
  BY Zenon DEF ConnectionsMatch
<1>j. joins <= 1
  <2>1. joins \in Nat /\ joins' \in Nat /\ joins <= joins'
    BY StepGrows DEF Grows
  <2> QED
    BY <2>1
<1>d. /\ \A c \in 1 .. Len(alloc) : alloc'[c] = alloc[c]
      /\ DOMAIN alloc = 1 .. Len(alloc) /\ DOMAIN alloc' = 1 .. Len(alloc')
      /\ Len(alloc) \in Nat /\ Len(alloc') \in Nat /\ Len(alloc) <= Len(alloc')
  <2>1. alloc \in Seq(Allocs)
    BY Zenon DEF TypeInv, TypeOK, Allocs
  <2> QED
    BY <2>1, StepGrows, LenProperties, Zenon DEF Grows
<1>t. /\ acked \in Nat /\ acked <= Len(alloc)
      /\ \A id \in RemoteIds : remote[id].conn \in 0 .. acked
  BY OrderTypes, Zenon DEF SubFacts, SubBounds, SubRemote
<1>m. \A id \in RemoteIds : IsInfo(remote[id]) /\ remote[id].conn # 0 =>
        /\ remote[id].conn \in 1 .. Len(alloc)
        /\ alloc'[remote[id].conn].id = id /\ alloc[remote[id].conn].id = id
  BY <1>d, <1>j, <1>t DEF ConnectionsMatch
<1>1. ASSUME NEW id \in RemoteIds, IsInfo(remote'[id]), remote'[id].conn # 0
      PROVE  alloc'[remote'[id].conn].id = id
  <2>r. remote \in [Ids -> Entry] /\ id \in Ids
    BY Zenon DEF TypeInv, TypeOK, Ids
  <2>i. ~IsInfo(Absent) /\ ~IsInfo(Null) /\ \A c : Info(c).conn = c
    BY Zenon DEF IsInfo, Absent, Null, Info
  <2>1. CASE remote'[id] = remote[id]
    BY <1>1, <1>m, <2>1, Zenon
  <2>2. CASE remote'[id] # remote[id]
    <3>1. /\ OnSubscribeStream /\ id = pendingSub[1]
          /\ remote'[id] = Info(tasks[1].conn)
      BY <1>1, <2>2, <2>r, <2>i, RemoteSteps, Zenon DEF RemoteChange
    <3>2. tasks[1].conn = acked + 1 /\ acked + 1 <= Len(alloc)
      BY <3>1, NextAnswer, AnswerCounts, Shifted, Zenon DEF Taken, TaskShift
    <3>3. PICK c \in 1 .. Len(alloc) : c = acked + 1 /\ acked < c /\ c - acked = 1
      BY <1>t, <1>d, <3>2
    <3>4. alloc[c].id = pendingSub[c - acked]
      BY <1>j, <3>3, Zenon DEF OrderFacts, OrderOfAllocs
    <3> QED
      BY <1>d, <2>i, <3>1, <3>2, <3>3, <3>4
  <2> QED
    BY <2>1, <2>2, Zenon
<1>2. ASSUME NEW a \in answered'
      PROVE  /\ a.conn \in DOMAIN alloc
             /\ alloc[a.conn].id = a.id
             /\ OneErizo => a.erizo = alloc[a.conn].erizo
  <2>1. CASE a \in answered
    BY <1>j, <2>1, Zenon DEF ConnectionsMatch
  <2>2. CASE a \notin answered
    <3>1. SendAnswer
      BY <1>2, <2>2, StepFrame, Zenon DEF Frame
    <3>2. WorkerStep /\ 1 \in 1 .. Len(tasks) /\ Head(tasks) = tasks[1] /\ tasks[1].op = "answer"
      BY <3>1, WorkerSteps, Shifted, TaskOfStep, Zenon DEF WorkerStep, TaskShift, Taken
    <3> DEFINE id == tasks[1].id
    <3>3. id \in RemoteIds /\ HasConn(id)
      BY <1>j, <3>2, Zenon DEF TypeInv, TaskFacts, AnswerFacts
    <3>4. IsInfo(remote[id]) /\ a = Packet("answer", id, remote[id].conn)
      BY <1>2, <2>2, <3>1, <3>2 DEF SendAnswer
    <3> HIDE DEF id
    <3>5. a.conn = remote[id].conn /\ a.id = id /\ a.erizo = erizoId
      BY <3>4, Zenon DEF Packet
    <3>6. a.conn \in 1 .. Len(alloc) /\ alloc[a.conn].id = a.id /\ acked > 0
      <4>1. remote[id].conn # 0
        BY <3>3, <3>4, Zenon DEF HasConn
      <4>2. remote[id].conn \in 0 .. acked
        BY <1>t, <3>3, Zenon
      <4>3. acked > 0
        BY <1>t, <4>1, <4>2
      <4> QED
        BY <1>m, <3>3, <3>4, <3>5, <4>1, <4>3, Zenon
    <3>7. ASSUME OneErizo
          PROVE  a.erizo = alloc[a.conn].erizo
      <4>1. PICK e : /\ \A c \in DOMAIN alloc : alloc[c].erizo = e
                     /\ \A c \in DOMAIN pubs : pubs[c].erizo = e
        BY <3>7, Zenon DEF OneErizo
      <4>2. DOMAIN pubs = 1 .. Len(pubs)
        <5>1. pubs \in Seq(Pubs)
          BY Zenon DEF TypeInv, TypeOK, Pubs
        <5> QED
          BY <5>1, LenProperties, Zenon
      <4>3. erizoId = e
        BY <1>d, <3>6, <4>1, <4>2 DEF ErizoFacts
      <4> QED
        BY <1>d, <3>5, <3>6, <4>1, <4>3, Zenon
    <3> QED
      BY <1>d, <3>6, <3>7, Zenon
  <2> QED
    BY <2>1, <2>2, Zenon
<1>3. ASSUME NEW a \in answered'
      PROVE  /\ a.conn \in DOMAIN alloc'
             /\ alloc'[a.conn].id = a.id
             /\ OneErizo' => a.erizo = alloc'[a.conn].erizo
  <2>1. a.conn \in DOMAIN alloc' /\ alloc'[a.conn] = alloc[a.conn]
    BY <1>d, <1>2
  <2> QED
    BY <1>2, <2>1, OneErizoBefore, Zenon
<1> QED
  BY <1>1, <1>3, Zenon

-----------------------------------------------------------------------------
(* As long as streams only arrive.                                         *)

LEMMA CalmBefore ==
  ASSUME TypeInv, Next, Calm'
  PROVE  Calm
<1>1. removed = {}
  BY StepFrame, Zenon DEF Frame, Calm, ServerRemoveStream
<1>2. joins \in Nat /\ joins' \in Nat /\ joins <= joins'
  BY StepGrows DEF Grows
<1> QED
  BY <1>1, <1>2 DEF Calm

\* What a task looks for is there.
LEMMA CalmMaps ==
  ASSUME TypeInv, SubFacts, ObservedFacts, CalmFacts, Calm
  PROVE  /\ Nulls(remote) = {}
         /\ \A id \in observed : IsInfo(remote[id])
         /\ \A c \in 1 .. acked : Matches(remote, c) # {}
<1>1. \A id \in Ids : IF id \in observed THEN IsInfo(remote[id]) ELSE remote[id] = Absent
  BY Zenon DEF CalmFacts
<1>2. ~IsInfo(Null) /\ Absent # Null
  BY Zenon DEF IsInfo, Null, Absent
<1>3. observed \subseteq Ids
  BY Zenon DEF TypeInv, TypeOK, Ids
<1>4. \A c \in 1 .. acked : alloc[c].id \in Ids
  BY OrderTypes DEF SubFacts, SubBounds, Ids
<1>5. \A c \in 1 .. acked : remote[alloc[c].id] = Info(c)
  BY Zenon DEF CalmFacts
<1>6. Nulls(remote) = {}
  BY <1>1, <1>2, Zenon DEF Nulls
<1>7. \A c \in 1 .. acked : alloc[c].id \in Matches(remote, c)
  BY <1>4, <1>5, Zenon DEF Matches
<1> QED
  BY <1>1, <1>3, <1>6, <1>7, Zenon

LEMMA NoCrash ==
  ASSUME TypeInv, SubFacts, ObservedFacts, FirstJoin, CalmFacts, Calm, Next
  PROVE  crash' = "no"
<1>c. crash = "no" /\ joins <= 1
  BY Zenon DEF CalmFacts, Calm
<1>1. CASE WorkerStep
  <2>1. /\ 1 \in 1 .. Len(tasks) /\ Head(tasks) = tasks[1] /\ tasks[1].op # "remove"
        /\ tasks[1].op = "ready" => tasks[1].conn \in 1 .. acked
        /\ tasks[1].op \in {"answer", "candidate"} => tasks[1].id \in observed
    BY <1>1, WorkerSteps, Shifted, Zenon DEF Taken, TaskShift, CalmFacts, ObservedFacts
  <2>2. tasks[1].op = "offer" => tasks[1].conn \in 1 .. acked
    <3>1. \A j \in 1 .. Len(tasks) : ~(j < 1)
      OBVIOUS
    <3>2. tasks[1].op = "offer" => tasks[1].conn <= acked
      BY <2>1, <3>1, Zenon DEF CalmFacts
    <3>3. tasks[1].op = "offer" => tasks[1].conn \in 1 .. Len(alloc)
      BY <2>1, Zenon DEF TypeInv, TaskFacts
    <3> QED
      BY <3>2, <3>3, OrderTypes
  <2>3. CASE OnSubscribeStream
    <3>1. pendingSub[1] \in observed /\ Head(pendingSub) = pendingSub[1]
      <4>1. /\ Len(pendingSub') \in Nat /\ Len(pendingSub) = Len(pendingSub') + 1
            /\ Head(pendingSub) = pendingSub[1]
        BY <2>3, AnswerCounts, Zenon
      <4> QED
        BY <4>1 DEF ObservedFacts
    <3> QED
      BY <1>c, <2>3, <3>1, CalmMaps, Zenon DEF OnSubscribeStream
  <2>4. CASE ReceiveOffer
    <3>1. tasks[1].conn \in 1 .. acked
      BY <1>1, <2>2, <2>4, TaskOfStep, Zenon
    <3> QED
      BY <1>c, <2>1, <2>4, <3>1, CalmMaps, Zenon DEF ReceiveOffer
  <2>5. CASE OnPeerConnectionConnectErizoReady
    <3>1. tasks[1].conn \in 1 .. acked
      BY <1>1, <2>1, <2>5, TaskOfStep, Zenon
    <3> QED
      BY <1>c, <2>1, <2>5, <3>1, CalmMaps, Zenon DEF OnPeerConnectionConnectErizoReady
  <2>6. CASE SendAnswer
    <3>1. tasks[1].id \in observed
      BY <1>1, <2>1, <2>6, TaskOfStep, Zenon
    <3> QED
      BY <1>c, <2>1, <2>6, <3>1, CalmMaps, Zenon DEF SendAnswer
  <2>7. CASE SendIceCandidate
    <3>1. tasks[1].id \in observed
      BY <1>1, <2>1, <2>7, TaskOfStep, Zenon
    <3> QED
      BY <1>c, <2>1, <2>7, <3>1, CalmMaps, Zenon DEF SendIceCandidate
  <2>8. CASE ExistingStream \/ OnAddStream \/ OnRemoveStream \/ Publish \/ OnPublishStream
    BY <1>c, <2>8, Zenon
       DEF ExistingStream, OnAddStream, OnRemoveStream, Publish, OnPublishStream
  <2> QED
    BY <1>1, <2>3, <2>4, <2>5, <2>6, <2>7, <2>8, Zenon DEF WorkerStep
<1>2. CASE RaceWithJoin
  <2>1. link = "joining"
    BY <1>2, Zenon DEF RaceWithJoin
  <2>2. PostExisting \/ Publish \/ PublishStream
    BY <1>c, <2>1, JoiningSteps, Zenon
  <2> QED
    BY <1>c, <2>2, Zenon DEF PostExisting, Publish, PublishStream
<1>3. CASE ~WorkerStep /\ ~RaceWithJoin
  <2>1. CASE Joins \/ PostExisting \/ Disconnected \/ PublishStream
             \/ \E id \in Ids : OnSdpCreateSuccess(id) \/ OnIceCandidate(id)
    BY <1>c, <2>1, Zenon
       DEF Joins, OnJoinRoom, PostExisting, Disconnected, PublishStream, OnSdpCreateSuccess,
           OnIceCandidate
  <2>2. CASE ServerSends
    BY <1>c, <2>2, Zenon DEF ServerSends
  <2> QED
    BY <1>3, <2>1, <2>2, ZenonT(30)
       DEF Next, Joins, Handle, ServerAddStream, ServerRemoveStream, ServerSubscribe,
           ServerPublish, ServerAnnounce, ServerOffer, ServerAnswer, ServerCandidate
<1> QED
  BY <1>1, <1>2, <1>3, Zenon

LEMMA CalmRemote ==
  ASSUME TypeInv, SubFacts, ObservedFacts, FirstJoin, OrderFacts, CalmFacts, Next, Calm'
  PROVE  /\ \A id \in Ids :
              IF id \in observed' THEN IsInfo(remote'[id]) ELSE remote'[id] = Absent
         /\ \A c \in 1 .. acked' : remote'[alloc'[c].id] = Info(c)
<1>c. Calm /\ crash' = "no" /\ joins <= 1 /\ joins' <= 1
  BY CalmBefore, NoCrash, Zenon DEF Calm
<1>m. \A id \in Ids : IF id \in observed THEN IsInfo(remote[id]) ELSE remote[id] = Absent
  BY <1>c, Zenon DEF CalmFacts
<1>t. /\ remote \in [Ids -> Entry] /\ acked \in Nat /\ Len(alloc) \in Nat /\ acked <= Len(alloc)
      /\ \A c \in 1 .. Len(alloc) : alloc[c].id \in observed
      /\ observed \subseteq Ids /\ RemoteIds \subseteq Ids
  BY OrderTypes, Zenon DEF SubFacts, SubBounds, ObservedFacts, TypeInv, TypeOK, Ids
<1>i. \A c : IsInfo(Info(c))
  BY Zenon DEF IsInfo, Info
<1>a. \A c \in 1 .. acked : /\ alloc'[c] = alloc[c] /\ alloc[c].id \in observed
                            /\ remote[alloc[c].id] = Info(c)
  <2>1. \A c \in 1 .. Len(alloc) : alloc'[c] = alloc[c]
    BY StepGrows, Zenon DEF Grows
  <2>2. \A c \in 1 .. acked : c \in 1 .. Len(alloc)
    BY <1>t
  <2> QED
    BY <1>c, <1>t, <2>1, <2>2, Zenon DEF CalmFacts
<1>1. CASE OnSubscribeStream
  <2>1. /\ Head(tasks) = tasks[1] /\ Head(pendingSub) = pendingSub[1] /\ acked' = acked + 1
        /\ alloc' = alloc /\ tasks[1].conn = acked + 1 /\ acked + 1 <= Len(alloc)
        /\ 1 \in 1 .. Len(pendingSub)
    <3>1. /\ Taken("subscribed") /\ acked' = acked + 1 /\ alloc' = alloc
          /\ Head(pendingSub) = pendingSub[1]
          /\ Len(pendingSub') \in Nat /\ Len(pendingSub) = Len(pendingSub') + 1
      BY <1>1, AnswerCounts, Zenon
    <3>2. tasks[1].conn = acked + 1 /\ acked + 1 <= Len(alloc)
      BY <3>1, NextAnswer, Shifted, Zenon DEF Taken, TaskShift
    <3>3. 1 \in 1 .. Len(pendingSub)
      BY <3>1
    <3> QED
      BY <3>1, <3>2, <3>3, Zenon DEF Taken
  <2>2. pendingSub[1] \in observed
    BY <2>1, Zenon DEF ObservedFacts
  <2>3. observed' = observed /\ remote' = [remote EXCEPT ![pendingSub[1]] = Info(acked + 1)]
    <3>1. IsInfo(remote[pendingSub[1]])
      BY <1>m, <1>t, <2>2, Zenon
    <3> QED
      BY <1>1, <2>1, <3>1, Zenon DEF OnSubscribeStream, appVars
  <2>4. ASSUME NEW id \in Ids
        PROVE  IF id \in observed' THEN IsInfo(remote'[id]) ELSE remote'[id] = Absent
    BY <1>i, <1>m, <1>t, <2>2, <2>3, Zenon
  <2>5. ASSUME NEW c \in 1 .. acked'
        PROVE  remote'[alloc'[c].id] = Info(c)
    <3>1. CASE c \in 1 .. acked
      <4>1. alloc[c].id # pendingSub[1]
        BY <1>c, <2>1, <3>1, Zenon DEF OrderFacts, OrderOnce
      <4> QED
        BY <1>a, <1>t, <2>1, <2>3, <3>1, <4>1, Zenon
    <3>2. CASE c = acked + 1
      <4>1. c \in 1 .. Len(alloc) /\ acked < c /\ c - acked = 1
        BY <1>t, <2>1, <3>2
      <4>2. alloc[c].id = pendingSub[1]
        BY <1>c, <4>1, Zenon DEF OrderFacts, OrderOfAllocs
      <4> QED
        BY <1>t, <2>1, <2>2, <2>3, <3>2, <4>2, Zenon
    <3> QED
      BY <1>t, <2>1, <3>1, <3>2
  <2> QED
    BY <2>4, <2>5, Zenon
<1>2. CASE ~OnSubscribeStream
  <2>1. acked' = acked
    BY <1>2, StepFrame, Zenon DEF Frame
  <2>2. CASE Joins
    <3>1. joins' = joins + 1 /\ joins \in Nat /\ observed' = observed
          /\ remote' = [id \in Ids |-> Absent]
      BY <2>2, StepGrows, Zenon DEF Grows, Joins, OnJoinRoom, appVars
    <3>2. joins = 0
      BY <1>c, <3>1
    <3>3. observed = {}
      BY <3>2, Zenon DEF FirstJoin
    <3>4. acked = 0
      BY <1>a, <1>t, <3>3
    <3> QED
      BY <2>1, <3>1, <3>3, <3>4
  <2>3. ASSUME NEW x \in RemoteIds, Subscribes(x)
        PROVE  /\ \A id \in Ids :
                    IF id \in observed' THEN IsInfo(remote'[id]) ELSE remote'[id] = Absent
               /\ \A c \in 1 .. acked' : remote'[alloc'[c].id] = Info(c)
    <3>1. 1 \in 1 .. Len(tasks) /\ Arrives(1) /\ x = tasks[1].id
      <4>1. WorkerStep
        BY <2>3, Zenon DEF Subscribes, WorkerStep
      <4> QED
        BY <2>3, <4>1, WorkerSteps, Shifted, Zenon DEF Subscribes, Arrives, TaskShift
    <3>2. x \notin observed
      BY <1>c, <3>1, Zenon DEF FirstJoin
    <3>3. remote[x] = Absent /\ Absent # Null /\ ~IsInfo(Absent) /\ x \in Ids
      BY <1>m, <1>t, <3>2, Zenon DEF Absent, Null, IsInfo
    <3>4. remote' = [remote EXCEPT ![x] = Info(0)] /\ observed' = observed \cup {x}
      BY <2>3, <3>3, Zenon DEF Subscribes
    <3> QED
      BY <1>a, <1>i, <1>m, <1>t, <2>1, <3>2, <3>3, <3>4
  <2>4. CASE ~Joins /\ \A x \in RemoteIds : ~Subscribes(x)
    <3>1. observed' = observed
      BY <2>4, ObservedOnly, Zenon
    <3>2. ~OnRemoveStream
      <4>1. ASSUME OnRemoveStream
            PROVE  FALSE
        <5>1. 1 \in 1 .. Len(tasks) /\ tasks[1].op = "remove"
          <6>1. WorkerStep
            BY <4>1, Zenon DEF WorkerStep
          <6> QED
            BY <4>1, <6>1, WorkerSteps, TaskOfStep, Shifted, Zenon DEF TaskShift
        <5> QED
          BY <1>c, <5>1, Zenon DEF CalmFacts
      <4> QED
        BY <4>1, Zenon
    <3>3. remote' = remote
      BY <1>2, <1>c, <2>4, <3>2, RemoteSteps, Zenon DEF RemoteChange
    <3> QED
      BY <1>a, <1>m, <2>1, <3>1, <3>3, Zenon
  <2> QED
    BY <2>2, <2>3, <2>4, Zenon
<1> QED
  BY <1>1, <1>2, Zenon

LEMMA CalmTasks ==
  ASSUME TypeInv, SubFacts, CalmFacts, Next, Calm'
  PROVE  \A i \in 1 .. Len(tasks') :
           /\ tasks'[i].op # "remove"
           /\ tasks'[i].op = "ready" => tasks'[i].conn \in 1 .. acked'
           /\ tasks'[i].op = "offer" =>
                \/ tasks'[i].conn <= acked'
                \/ \E j \in 1 .. Len(tasks') :
                     j < i /\ tasks'[j].op = "subscribed" /\ tasks'[j].conn = tasks'[i].conn
<1>c. Calm /\ removed' = {}
  BY CalmBefore, Zenon DEF Calm
<1>t. /\ acked \in Nat /\ acked' \in Nat /\ acked <= acked' /\ Len(tasks) \in Nat
      /\ \A i \in 1 .. Len(tasks) : tasks[i].conn \in Int
  BY OrderTypes, StepGrows, Zenon DEF Grows
<1>o. \A i \in 1 .. Len(tasks) : tasks[i].op = "offer" =>
        \/ tasks[i].conn <= acked
        \/ \E j \in 1 .. Len(tasks) :
             j < i /\ tasks[j].op = "subscribed" /\ tasks[j].conn = tasks[i].conn
  BY <1>c, Zenon DEF CalmFacts
<1>1. ASSUME NEW i \in 1 .. Len(tasks')
      PROVE  /\ tasks'[i].op # "remove"
             /\ tasks'[i].op = "ready" => tasks'[i].conn \in 1 .. acked'
  <2>1. ASSUME NEW m \in 1 .. Len(tasks), tasks'[i] = tasks[m]
        PROVE  /\ tasks'[i].op # "remove"
               /\ tasks'[i].op = "ready" => tasks'[i].conn \in 1 .. acked'
    <3>1. /\ tasks[m].op # "remove"
          /\ tasks[m].op = "ready" => tasks[m].conn \in 1 .. acked
      BY <1>c, Zenon DEF CalmFacts
    <3> QED
      BY <1>t, <2>1, <3>1
  <2>2. CASE NewTask(tasks'[i])
    <3>1. tasks'[i].op # "remove"
      BY <1>c, <2>2, Zenon DEF NewTask
    <3>2. ASSUME tasks'[i].op = "ready"
          PROVE  tasks'[i].conn \in 1 .. acked'
      <4>1. /\ ServerAnswer /\ tasks'[i].conn = Head(requests).conn
            /\ tasks'[i].conn \in 1 .. Len(alloc)
        BY <2>2, <3>2, Zenon DEF NewTask
      <4>2. Handled("answer") /\ RequestShift
        <5>1. requests \in Seq(Packets) /\ Handle("answer")
          BY <4>1, Zenon DEF TypeInv, TypeOK, Packets, ServerAnswer
        <5> QED
          BY <5>1, HandleFacts, Shifted, Zenon
      <4>3. requests[1].conn <= acked /\ Head(requests) = requests[1]
        BY <1>c, <4>2, Zenon DEF CalmFacts, Handled, RequestShift
      <4> QED
        BY <1>t, <4>1, <4>3
    <3> QED
      BY <3>1, <3>2, Zenon
  <2> QED
    BY <2>1, <2>2, Origins, Zenon
<1>2. ASSUME NEW i \in 1 .. Len(tasks'), tasks'[i].op = "offer"
      PROVE  \/ tasks'[i].conn <= acked'
             \/ \E j \in 1 .. Len(tasks') :
                  j < i /\ tasks'[j].op = "subscribed" /\ tasks'[j].conn = tasks'[i].conn
  <2>1. CASE WorkerStep
    <3>1. TaskShift
      BY <2>1, WorkerSteps, Shifted, Zenon
    <3>2. i + 1 \in 1 .. Len(tasks) /\ tasks'[i] = tasks[i + 1]
      BY <3>1, Zenon DEF TaskShift
    <3>3. CASE tasks[i + 1].conn <= acked
      BY <1>t, <3>2, <3>3
    <3>4. ASSUME NEW j \in 1 .. Len(tasks), j < i + 1, tasks[j].op = "subscribed",
                 tasks[j].conn = tasks[i + 1].conn
          PROVE  \/ tasks'[i].conn <= acked'
                 \/ \E k \in 1 .. Len(tasks') :
                      k < i /\ tasks'[k].op = "subscribed" /\ tasks'[k].conn = tasks'[i].conn
      <4>1. CASE j = 1
        <5>1. tasks[1].conn = acked + 1
          BY <3>4, <4>1, NextAnswer, Zenon
        <5>2. acked' = acked + 1
          BY <2>1, <3>4, <4>1, TaskOfStep, AnswerCounts, Zenon
        <5> QED
          BY <1>t, <3>2, <3>4, <4>1, <5>1, <5>2
      <4>2. CASE j # 1
        <5>1. j - 1 \in 1 .. Len(tasks') /\ tasks'[j - 1] = tasks[j] /\ j - 1 < i
          BY <3>1, <3>4, <4>2 DEF TaskShift
        <5> QED
          BY <3>2, <3>4, <5>1, Zenon
      <4> QED
        BY <4>1, <4>2, Zenon
    <3> QED
      BY <1>2, <1>o, <3>2, <3>3, <3>4, Zenon
  <2>2. CASE ~WorkerStep
    <3>1. /\ Len(tasks') \in Nat /\ Len(tasks) <= Len(tasks')
          /\ \A k \in 1 .. Len(tasks) : tasks'[k] = tasks[k]
          /\ i > Len(tasks) => NewTask(tasks'[i])
      BY <2>2, OtherSteps, Zenon DEF Extended
    <3>2. \A j \in 1 .. Len(tasks) : j \in 1 .. Len(tasks')
      BY <1>t, <3>1
    <3>3. CASE i \in 1 .. Len(tasks)
      <4>1. \/ tasks[i].conn <= acked
            \/ \E j \in 1 .. Len(tasks) :
                 j < i /\ tasks[j].op = "subscribed" /\ tasks[j].conn = tasks[i].conn
        BY <1>2, <1>o, <3>1, <3>3, Zenon
      <4>2. tasks[i].conn <= acked => tasks'[i].conn <= acked'
        BY <1>t, <3>1, <3>3
      <4> QED
        BY <3>1, <3>2, <3>3, <4>1, <4>2, Zenon
    <3>4. CASE i > Len(tasks)
      <4>1. tasks'[i].conn \in offers
        BY <1>2, <3>1, <3>4, Zenon DEF NewTask
      <4>2. tasks'[i].conn \in 1 .. Len(alloc) /\ Len(alloc) \in Nat
        BY <4>1, OrderTypes, Zenon DEF TypeInv, TypeOK
      <4>3. CASE tasks'[i].conn <= acked
        BY <1>t, <4>2, <4>3
      <4>4. CASE acked < tasks'[i].conn
        <5>1. PICK j \in 1 .. Len(tasks) :
                tasks[j].op = "subscribed" /\ tasks[j].conn = tasks'[i].conn
          BY <4>2, <4>4, Zenon DEF SubFacts, SubCover
        <5>2. j < i /\ j \in 1 .. Len(tasks') /\ tasks'[j] = tasks[j]
          BY <1>t, <3>1, <3>2, <3>4
        <5> QED
          BY <5>1, <5>2, Zenon
      <4> QED
        BY <1>t, <4>2, <4>3, <4>4
    <3> QED
      BY <1>t, <3>1, <3>3, <3>4
  <2> QED
    BY <2>1, <2>2, Zenon
<1> QED
  BY <1>1, <1>2, Zenon

LEMMA CalmStep ==
  ASSUME TypeInv, SubFacts, ObservedFacts, FirstJoin, OrderFacts, CalmFacts, Next
  PROVE  CalmFacts'
<1> SUFFICES ASSUME Calm'
             PROVE  /\ crash' = "no"
                    /\ \A id \in Ids :
                         IF id \in observed' THEN IsInfo(remote'[id]) ELSE remote'[id] = Absent
                    /\ \A c \in 1 .. acked' : remote'[alloc'[c].id] = Info(c)
                    /\ \A i \in 1 .. Len(tasks') :
                         /\ tasks'[i].op # "remove"
                         /\ tasks'[i].op = "ready" => tasks'[i].conn \in 1 .. acked'
                         /\ tasks'[i].op = "offer" =>
                              \/ tasks'[i].conn <= acked'
                              \/ \E j \in 1 .. Len(tasks') :
                                   /\ j < i /\ tasks'[j].op = "subscribed"
                                   /\ tasks'[j].conn = tasks'[i].conn
                    /\ \A i \in 1 .. Len(requests') :
                         requests'[i].op = "answer" => requests'[i].conn <= acked'
  BY Zenon DEF CalmFacts, IsInfo, Info, Absent, Ids
<1>c. Calm
  BY CalmBefore, Zenon
<1>1. ASSUME NEW i \in 1 .. Len(requests'), requests'[i].op = "answer"
      PROVE  requests'[i].conn <= acked'
  <2>t. /\ acked \in Nat /\ acked' \in Nat /\ acked <= acked'
        /\ \A m \in 1 .. Len(requests) : requests[m].conn \in Int
    BY OrderTypes, StepGrows, Zenon DEF Grows
  <2>1. ASSUME NEW m \in 1 .. Len(requests), requests'[i] = requests[m]
        PROVE  requests'[i].conn <= acked'
    <3>1. requests[m].conn <= acked
      BY <1>1, <1>c, <2>1, Zenon DEF CalmFacts
    <3> QED
      BY <2>t, <2>1, <3>1
  <2>2. CASE WorkerStep /\ NewPacket(requests'[i])
    <3>1. /\ tasks[1].op = "answer" /\ requests'[i].id = tasks[1].id
          /\ requests'[i].conn = remote[requests'[i].id].conn
      BY <1>1, <2>2, Zenon DEF NewPacket
    <3>2. tasks[1].id \in RemoteIds
      BY <2>2, <3>1, WorkerSteps, Shifted, Zenon DEF TypeInv, TaskFacts, TaskShift
    <3>3. remote[tasks[1].id].conn \in 0 .. acked
      BY <3>2, Zenon DEF SubFacts, SubRemote
    <3> QED
      BY <2>t, <3>1, <3>3
  <2> QED
    BY <2>1, <2>2, Origins, Zenon
<1> QED
  BY <1>1, <1>c, NoCrash, CalmRemote, CalmTasks, Zenon

-----------------------------------------------------------------------------
LEMMA InvInit ==
  ASSUME Init
  PROVE  Inv
<1>1. TypeInv /\ SubFacts
  BY TypeInit, PendingInit, Zenon
<1>2. /\ 1 .. Len(tasks) = {} /\ 1 .. Len(requests) = {} /\ 1 .. Len(alloc) = {}
      /\ 1 .. Len(pendingSub) = {} /\ 1 .. acked = {} /\ 1 .. acked + Len(pendingSub) = {}
  <2>1. Len(<<>>) = 0 /\ 1 .. 0 = {} /\ 0 + 0 = 0
    OBVIOUS
  <2> QED
    BY <2>1, Zenon DEF Init
<1>3. \A id \in Ids : ~IsInfo(remote[id]) /\ remote[id] = Absent
  BY Zenon DEF Init, Absent, IsInfo
<1>4. ObservedFacts /\ FirstJoin
  <2>1. /\ link = "down" /\ joins = 0 /\ tasks = <<>> /\ requests = <<>> /\ alloc = <<>>
        /\ pendingSub = <<>> /\ observed = {} /\ answering = {} /\ gathering = {}
        /\ serverIds = {}
    BY Zenon DEF Init
  <2>2. ObservedFacts
    BY <1>2, <1>3, <2>1, Zenon DEF ObservedFacts
  <2>3. FirstJoin
    BY <1>2, <2>1, Zenon DEF FirstJoin
  <2> QED
    BY <2>2, <2>3, Zenon
<1>5. OrderFacts
  BY <1>2, Zenon DEF OrderFacts, OrderOfAllocs, OrderOfRequests, OrderOnce
<1>6. ErizoFacts /\ AnswerFacts
  BY <1>2 DEF Init, ErizoFacts, AnswerFacts
<1>7. ConnectionsMatch
  BY <1>3, Zenon DEF Init, ConnectionsMatch, Ids
<1>8. CalmFacts
  BY <1>2, <1>3, Zenon DEF Init, CalmFacts
<1> QED
  BY <1>1, <1>4, <1>5, <1>6, <1>7, <1>8, Zenon DEF Inv

LEMMA InvStep ==
  ASSUME Inv, [Next]_vars
  PROVE  Inv'
<1>1. CASE Next
  <2>1. /\ TypeInv /\ SubFacts /\ ObservedFacts /\ FirstJoin /\ OrderFacts
        /\ ErizoFacts /\ AnswerFacts /\ ConnectionsMatch /\ CalmFacts
    BY Zenon DEF Inv
  <2> QED
    BY Zenon, <1>1, <2>1, TypeStep, SubStep, ObservedStep, FirstJoinStep, OrderStep,
       ErizoStep, AnswerStep, MatchStep, CalmStep DEF Inv
<1>2. CASE UNCHANGED vars
  <2>1. TypeInv'
    BY <1>2, TypeStutter, Zenon DEF Inv
  <2>2. /\ UNCHANGED <<link, joins, tasks, remote, pendingSub, erizoId, crash>>
        /\ UNCHANGED <<requests, serverIds, known, removed, alloc, pubs, observed>>
        /\ UNCHANGED <<answering, gathering, acked, answered>>
    BY <1>2, Zenon DEF vars, mapVars, serverVars, appVars, historyVars
  <2>3. SubFacts'
    BY <2>2, Zenon DEF Inv, SubFacts, SubBounds, SubTasks, SubCover, SubRequests, SubRemote
  <2>4. ObservedFacts'
    BY <2>2, Zenon DEF Inv, ObservedFacts, Arrives
  <2>5. FirstJoin'
    BY <2>2, ZenonT(30) DEF Inv, FirstJoin, Arrives
  <2>6. OrderFacts' /\ ErizoFacts' /\ AnswerFacts'
    BY <2>2, ZenonT(30)
       DEF Inv, OrderFacts, OrderOfAllocs, OrderOfRequests, OrderOnce, ErizoFacts, AnswerFacts,
           HasConn
  <2>7. ConnectionsMatch' /\ CalmFacts'
    BY <2>2, ZenonT(30) DEF Inv, ConnectionsMatch, OneErizo, CalmFacts, Calm
  <2> QED
    BY <2>1, <2>3, <2>4, <2>5, <2>6, <2>7, Zenon DEF Inv
<1> QED
  BY <1>1, <1>2, Zenon

LEMMA InvHolds == Spec => []Inv
<1>1. Init => Inv
  BY InvInit, Zenon
<1>2. Inv /\ [Next]_vars => Inv'
  BY InvStep, Zenon
<1> QED
  BY <1>1, <1>2, PTL DEF Spec

\* AnswersInOrder for every set of streams: in the first join the order of the
\* answers is enough to match them with their streams.
THEOREM AnswersKeepOrder == Spec => []AnswersInOrder
<1>1. Inv => AnswersInOrder
  <2> SUFFICES ASSUME Inv, joins <= 1, tasks # <<>>, Head(tasks).op = "subscribed"
               PROVE  pendingSub # <<>> /\ Head(pendingSub) = alloc[Head(tasks).conn].id
    BY Zenon DEF AnswersInOrder
  <2>1. TypeInv /\ SubFacts /\ OrderOfAllocs
    BY Zenon DEF Inv, OrderFacts
  <2>2. 1 \in 1 .. Len(tasks) /\ Head(tasks) = tasks[1]
    <3>1. tasks \in Seq(Tasks)
      BY <2>1, Zenon DEF TypeInv, TypeOK, Tasks
    <3> QED
      BY <3>1, HeadTailProperties, LenProperties, EmptySeq
  <2>3. tasks[1].conn = acked + 1 /\ acked + 1 <= Len(alloc) /\ Len(pendingSub) > 0
    BY <2>1, <2>2, NextAnswer, Zenon
  <2>4. pendingSub # <<>> /\ Head(pendingSub) = pendingSub[1]
    <3>1. pendingSub \in Seq(RemoteIds)
      BY <2>1, Zenon DEF TypeInv, TypeOK
    <3> QED
      BY <2>3, <3>1, HeadTailProperties
  <2>5. PICK c \in 1 .. Len(alloc) : c = acked + 1 /\ acked < c /\ c - acked = 1
    <3>1. acked \in Nat /\ Len(alloc) \in Nat
      BY <2>1, OrderTypes, Zenon
    <3> QED
      BY <2>3, <3>1
  <2>6. alloc[c].id = pendingSub[1]
    BY <2>1, <2>5, Zenon DEF OrderOfAllocs
  <2> QED
    BY <2>2, <2>3, <2>4, <2>5, <2>6, Zenon
<1> QED
  BY <1>1, InvHolds, PTL

\* ConnectionsMatch for every set of streams and of erizos.
THEOREM ConnectionsAlwaysMatch == Spec => []ConnectionsMatch
<1>1. Inv => ConnectionsMatch
  BY Zenon DEF Inv
<1> QED
  BY <1>1, InvHolds, PTL

\* CrashNeedsCause for every set of streams: as long as streams only arrive no
\* task of the worker uses a null pointer or reads what OnJoinRoom changes.
THEOREM CrashesHaveCause == Spec => []CrashNeedsCause
<1>1. Inv => CrashNeedsCause
  <2>1. ASSUME Inv, removed = {}, ~(joins > 1)
        PROVE  crash = "no"
    <3>1. joins \in Nat
      BY <2>1 DEF Inv, TypeInv, TypeOK
    <3>2. Calm
      BY <2>1, <3>1 DEF Calm
    <3> QED
      BY <2>1, <3>2, Zenon DEF Inv, CalmFacts
  <2> QED
    BY <2>1, Zenon DEF CrashNeedsCause
<1> QED
  BY <1>1, InvHolds, PTL

-----------------------------------------------------------------------------
(* No stream is forgotten.                                                 *)

\* Only streams that we publish are entered in the map of local streams.
OwnOnly == \A id \in RemoteIds : ~IsInfo(local[id])

LEMMA OwnOnlyStep ==
  ASSUME TypeInv, OwnOnly, Next
  PROVE  OwnOnly'
<1>t. /\ tasks \in Seq(Tasks) /\ local \in [Ids -> Entry] /\ RemoteIds \subseteq Ids
      /\ RemoteIds \cap LocalIds = {}
  BY RoomStreamsAssumption, Zenon DEF TypeInv, TypeOK, Tasks, Ids
<1>1. ASSUME NEW n, local' = Touch(local, n)
      PROVE  OwnOnly'
  BY <1>t, <1>1 DEF OwnOnly, Touch, IsInfo, Null
<1>2. CASE OnPublishStream
  <2>1. Taken("published")
    BY <1>t, <1>2, RunFacts, Zenon DEF OnPublishStream
  <2>2. tasks[1].id \in LocalIds /\ Head(tasks) = tasks[1]
    BY <2>1 DEF Taken, TypeInv, TaskFacts
  <2>3. local' = [local EXCEPT ![tasks[1].id] = Info(tasks[1].conn)]
    BY <1>2, <2>2, Zenon DEF OnPublishStream, EnterLocal
  <2> QED
    BY <1>t, <2>2, <2>3 DEF OwnOnly
<1>3. CASE UNCHANGED local
  BY <1>3, Zenon DEF OwnOnly
<1>4. CASE OnAddStream \/ SendIceCandidate
  <2>1. UNCHANGED local \/ \E n : local' = Touch(local, n)
    BY <1>4, Zenon DEF OnAddStream, SendIceCandidate
  <2> QED
    BY <1>1, <1>3, <2>1, Zenon
<1> QED
  BY <1>2, <1>3, <1>4, StepFrame, Zenon DEF Frame

\* The stages of a stream, in their order.
Announced(id) == \E i \in 1 .. Len(tasks) : tasks[i].op \in {"existing", "add"} /\ tasks[i].id = id
Requested(id) == \E i \in 1 .. Len(requests) : requests[i].op = "subscribe" /\ requests[i].id = id
Offering(id) == \E c \in 1 .. Len(alloc) : alloc[c].id = id /\ c \in offers
Offered(id) ==
    \E c \in 1 .. Len(alloc) : /\ alloc[c].id = id
                              /\ \E i \in 1 .. Len(tasks) : tasks[i].op = "offer" /\ tasks[i].conn = c
Answering(id) == id \in answering \/ \E i \in 1 .. Len(tasks) : tasks[i].op = "answer" /\ tasks[i].id = id
Answered(id) == \E a \in answered : a.id = id

UnderWay(id) ==
    Announced(id) \/ Requested(id) \/ Offering(id) \/ Offered(id) \/ Answering(id) \/ Answered(id)

AllUnderWay == crash = "no" /\ link = "up" /\ joins <= 1 => \A id \in serverIds : UnderWay(id)

\* A step of the worker takes the first task one stage further.
LEMMA UnderWayByWorker ==
  ASSUME Inv, OwnOnly, WorkerStep, crash' = "no", link = "up", joins <= 1,
         NEW id \in RemoteIds, UnderWay(id)
  PROVE  UnderWay(id)'
<1>t. TypeInv /\ Next /\ Len(tasks) \in Nat /\ Len(requests) \in Nat
  BY OrderTypes, Zenon DEF Inv, Next
<1>s. Taken(tasks[1].op) /\ Asked
  BY <1>t, WorkerSteps, Zenon
<1>a. UNCHANGED <<alloc, offers>> /\ answered \subseteq answered'
  <2>1. UNCHANGED <<alloc, offers>>
    BY Zenon DEF WorkerStep, Run, serverVars, ExistingStream, OnAddStream, OnRemoveStream,
       OnSubscribeStream, Publish, OnPublishStream, ReceiveOffer,
       OnPeerConnectionConnectErizoReady, SendAnswer, SendIceCandidate
  <2>2. answered \subseteq answered'
    BY <1>t, StepFrame, Zenon DEF Frame, SendAnswer
  <2> QED
    BY <2>1, <2>2
<1>b. answering \subseteq answering'
  BY Zenon DEF WorkerStep, ExistingStream, OnAddStream, OnAddRemoteStream, OnRemoveStream,
     OnSubscribeStream, Publish, OnPublishStream, ReceiveOffer,
     OnPeerConnectionConnectErizoReady, SendAnswer, SendIceCandidate, appVars
\* A task that is not the first one stays.
<1>1. ASSUME NEW i \in 1 .. Len(tasks), i # 1
      PROVE  \E j \in 1 .. Len(tasks') : tasks'[j] = tasks[i]
  <2>1. i - 1 \in 1 .. Len(tasks') /\ (i - 1) + 1 = i
    BY <1>s, <1>1 DEF Taken
  <2> QED
    BY <1>s, <2>1, Zenon DEF Taken
<1>2. CASE Announced(id)
  <2>1. PICK i \in 1 .. Len(tasks) : tasks[i].op \in {"existing", "add"} /\ tasks[i].id = id
    BY <1>2, Zenon DEF Announced
  <2>2. CASE i # 1
    BY <1>1, <2>1, <2>2, Zenon DEF UnderWay, Announced
  <2>3. CASE i = 1
    <3>1. ExistingStream \/ OnAddStream
      BY <1>t, <2>1, <2>3, TaskOfStep, Zenon
    <3>2. ~IsInfo(local[id])
      BY Zenon DEF OwnOnly
    <3>3. Head(tasks) = tasks[1]
      BY <1>s, Zenon DEF Taken
    <3>4. Send(SubscribePacket(id))
      BY <2>1, <2>3, <3>1, <3>2, <3>3, Zenon
      DEF ExistingStream, OnAddStream, OnAddRemoteStream, SubscribeStream
    <3>5. requests' = Append(requests, SubscribePacket(id))
      BY <3>4 DEF Send
    <3>6. requests \in Seq(Packets)
      BY <1>t, Zenon DEF TypeInv, TypeOK, Packets
    <3>7. Len(requests') = Len(requests) + 1 /\ requests'[Len(requests) + 1] = SubscribePacket(id)
      BY <1>t, <3>5, <3>6, AppendProperties DEF Asked
    <3>8. Len(requests) + 1 \in 1 .. Len(requests')
      BY <1>t, <3>7
    <3>9. SubscribePacket(id).op = "subscribe" /\ SubscribePacket(id).id = id
      BY DEF SubscribePacket, Packet
    <3> QED
      BY <3>7, <3>8, <3>9, Zenon DEF UnderWay, Requested
  <2> QED
    BY <2>2, <2>3, Zenon
<1>3. CASE Requested(id)
  <2>1. PICK i \in 1 .. Len(requests) : requests[i].op = "subscribe" /\ requests[i].id = id
    BY <1>3, ZenonT(30) DEF Requested
  <2>2. i \in 1 .. Len(requests') /\ requests'[i] = requests[i]
    BY <1>s DEF Asked
  <2> QED
    BY <2>1, <2>2, Zenon DEF UnderWay, Requested
<1>4. CASE Offering(id)
  BY <1>a, <1>4, Zenon DEF UnderWay, Offering
<1>5. CASE Offered(id)
  <2>1. PICK c \in 1 .. Len(alloc), i \in 1 .. Len(tasks) :
          alloc[c].id = id /\ tasks[i].op = "offer" /\ tasks[i].conn = c
    BY <1>5, Zenon DEF Offered
  <2>2. CASE i # 1
    BY <1>a, <1>1, <2>1, <2>2, Zenon DEF UnderWay, Offered
  <2>3. CASE i = 1
    <3>1. ReceiveOffer /\ Head(tasks) = tasks[1]
      BY <1>t, <1>s, <2>1, <2>3, TaskOfStep, Zenon DEF Taken
    <3>2. PICK n \in Matches(remote, c) : answering' = answering \cup {n}
      BY <2>1, <2>3, <3>1 DEF ReceiveOffer
    <3>3. n \in Ids /\ remote[n] = Info(c)
      BY <3>2, Zenon DEF Matches
    <3>4. IsInfo(remote[n]) /\ remote[n].conn = c /\ c # 0
      BY <3>3 DEF IsInfo, Info
    <3>5. n \in RemoteIds
      BY <1>t, <3>3, <3>4, Zenon DEF TypeInv, OwnStreamsStayLocal, Ids
    <3>6. alloc[c].id = n
      BY <3>4, <3>5, Zenon DEF Inv, ConnectionsMatch
    <3> QED
      BY <2>1, <3>2, <3>6, Zenon DEF UnderWay, Answering
  <2> QED
    BY <2>2, <2>3, Zenon
<1>6. CASE id \in answering
  BY <1>b, <1>6, Zenon DEF UnderWay, Answering
<1>7. ASSUME NEW i \in 1 .. Len(tasks), tasks[i].op = "answer", tasks[i].id = id
      PROVE  UnderWay(id)'
  <2>1. CASE i # 1
    BY <1>1, <1>7, <2>1, Zenon DEF UnderWay, Answering
  <2>2. CASE i = 1
    <3>1. SendAnswer /\ Head(tasks) = tasks[1]
      BY <1>t, <1>s, <1>7, <2>2, TaskOfStep, Zenon DEF Taken
    <3>2. answered' = answered \cup {Packet("answer", id, remote[id].conn)}
      BY <1>7, <2>2, <3>1 DEF SendAnswer
    <3>3. Packet("answer", id, remote[id].conn).id = id
      BY DEF Packet
    <3> QED
      BY <3>2, <3>3, Zenon DEF UnderWay, Answered
  <2> QED
    BY <2>1, <2>2, Zenon
<1>8. CASE Answered(id)
  BY <1>a, <1>8, Zenon DEF UnderWay, Answered
<1> QED
  BY <1>2, <1>3, <1>4, <1>5, <1>6, <1>7, <1>8, Zenon DEF UnderWay, Answering

\* So does a step of the server or of libwebrtc; nothing is taken back while the
\* link is up.
LEMMA UnderWayByOthers ==
  ASSUME Inv, Next, ~WorkerStep, link = "up", link' = "up",
         NEW id \in RemoteIds, UnderWay(id)
  PROVE  UnderWay(id)'
<1>t. TypeInv /\ Len(tasks) \in Nat /\ Len(requests) \in Nat
  BY OrderTypes, Zenon DEF Inv
<1>f. Frame
  BY StepFrame, Zenon
<1>s. Extended /\ Served
  BY <1>t, OtherSteps, OtherRequests, ZenonT(30)
<1>g. /\ Len(alloc) \in Nat /\ Len(alloc') \in Nat /\ Len(alloc) <= Len(alloc')
      /\ \A c \in 1 .. Len(alloc) : c \in 1 .. Len(alloc') /\ alloc'[c] = alloc[c]
  <2>1. /\ Len(alloc) \in Nat /\ Len(alloc') \in Nat /\ Len(alloc) <= Len(alloc')
        /\ \A c \in 1 .. Len(alloc) : alloc'[c] = alloc[c]
    BY <1>t, StepGrows, Zenon DEF Grows
  <2>2. \A c \in 1 .. Len(alloc) : c \in 1 .. Len(alloc')
    BY <2>1
  <2> QED
    BY <2>1, <2>2, Zenon
<1>n. ~Disconnected
  BY Zenon DEF Disconnected
<1>1. \A i \in 1 .. Len(tasks) : i \in 1 .. Len(tasks') /\ tasks'[i] = tasks[i]
  BY <1>s DEF Extended
<1>2. CASE Announced(id)
  BY <1>1, <1>2, Zenon DEF UnderWay, Announced
<1>3. CASE Requested(id)
  <2>1. PICK i \in 1 .. Len(requests) : requests[i].op = "subscribe" /\ requests[i].id = id
    BY <1>3, Zenon DEF Requested
  <2>2. CASE UNCHANGED requests
    BY <1>3, <2>2, Zenon DEF UnderWay, Requested
  <2>3. ASSUME NEW op \in PacketOps, Handled(op), op = "subscribe" => ServerSubscribe
        PROVE  UnderWay(id)'
    <3>1. CASE i # 1
      <4>1. i - 1 \in 1 .. Len(requests') /\ (i - 1) + 1 = i
        BY <2>3, <3>1 DEF Handled
      <4>2. requests'[i - 1] = requests[i]
        BY <2>3, <4>1, Zenon DEF Handled
      <4> QED
        BY <2>1, <4>1, <4>2, Zenon DEF UnderWay, Requested
    <3>2. CASE i = 1
      <4>1. ServerSubscribe
        BY <2>1, <2>3, <3>2, Zenon DEF Handled
      <4>2. Len(alloc') = Len(alloc) + 1 /\ alloc'[Len(alloc) + 1].id = id
        BY <1>t, <2>1, <3>2, <4>1, AllocateFacts, Zenon
      <4>3. Len(alloc') \in offers'
        BY <4>1, Zenon DEF ServerSubscribe
      <4>4. Len(alloc') \in 1 .. Len(alloc')
        BY <1>g, <4>2
      <4> QED
        BY <4>2, <4>3, <4>4, Zenon DEF UnderWay, Offering
    <3> QED
      BY <3>1, <3>2, Zenon
  <2> QED
    BY <1>s, <1>n, <2>2, <2>3, Zenon DEF Served
<1>4. CASE Offering(id)
  <2>1. PICK c \in 1 .. Len(alloc) : alloc[c].id = id /\ c \in offers
    BY <1>4, Zenon DEF Offering
  <2>2. CASE c \in offers'
    BY <1>g, <2>1, <2>2, Zenon DEF UnderWay, Offering
  <2>3. CASE c \notin offers'
    <3>1. ~ServerSubscribe
      BY <2>1, <2>3, Zenon DEF ServerSubscribe
    <3>2. PICK conn \in 1 .. Len(alloc) : ServerOffer(conn)
      BY <1>f, <1>n, <2>1, <2>3, <3>1, Zenon DEF Frame
    <3>3. conn = c
      BY <2>1, <2>3, <3>2, Zenon DEF ServerOffer
    <3>4. Post(Task("offer", NoId, c))
      BY <3>2, <3>3, Zenon DEF ServerOffer
    <3>5. tasks \in Seq(Tasks) /\ Task("offer", NoId, c) \in Tasks
      <4>1. tasks \in Seq(Tasks)
        BY <1>t, Zenon DEF TypeInv, TypeOK, Tasks
      <4>2. Len(alloc) \in Nat
        BY <1>t DEF TypeInv, TypeOK
      <4>3. c \in Int
        BY <4>2
      <4>4. Task("offer", NoId, c) \in Tasks
        BY <4>3 DEF Tasks, Task, NoId, TaskOps
      <4> QED
        BY <4>1, <4>4
    <3>6. Posted(Task("offer", NoId, c))
      BY <3>4, <3>5, PostFacts, Zenon
    <3>7. Len(tasks) + 1 \in 1 .. Len(tasks')
      BY <3>6, PostPlace, Zenon
    <3>8. tasks'[Len(tasks) + 1].op = "offer" /\ tasks'[Len(tasks) + 1].conn = c
      <4>1. tasks'[Len(tasks) + 1] = Task("offer", NoId, c)
        BY <3>6, Zenon DEF Posted
      <4>2. Task("offer", NoId, c).op = "offer" /\ Task("offer", NoId, c).conn = c
        BY DEF Task
      <4> QED
        BY <4>1, <4>2, Zenon
    <3> QED
      BY <1>g, <2>1, <3>7, <3>8, Zenon DEF UnderWay, Offered
  <2> QED
    BY <2>2, <2>3, Zenon
<1>5. CASE Offered(id)
  BY <1>1, <1>g, <1>5, Zenon DEF UnderWay, Offered
<1>6. CASE id \in answering
  <2>1. CASE id \in answering'
    BY <2>1, Zenon DEF UnderWay, Answering
  <2>2. CASE id \notin answering'
    <3>1. PICK n \in Ids : OnSdpCreateSuccess(n)
      BY <1>f, <1>6, <2>2, Zenon DEF Frame, WorkerStep
    <3>2. n = id
      BY <1>6, <2>2, <3>1, Zenon DEF OnSdpCreateSuccess
    <3>3. Post(Task("answer", id, 0))
      BY <3>1, <3>2, Zenon DEF OnSdpCreateSuccess
    <3>4. tasks \in Seq(Tasks) /\ Task("answer", id, 0) \in Tasks
      <4>1. tasks \in Seq(Tasks)
        BY <1>t, Zenon DEF TypeInv, TypeOK, Tasks
      <4>2. Task("answer", id, 0) \in Tasks
        BY RoomStreamsAssumption DEF Tasks, Task, TaskOps
      <4> QED
        BY <4>1, <4>2
    <3>5. Posted(Task("answer", id, 0))
      BY <3>3, <3>4, PostFacts, Zenon
    <3>6. Len(tasks) + 1 \in 1 .. Len(tasks')
      BY <3>5, PostPlace, Zenon
    <3>7. tasks'[Len(tasks) + 1].op = "answer" /\ tasks'[Len(tasks) + 1].id = id
      <4>1. tasks'[Len(tasks) + 1] = Task("answer", id, 0)
        BY <3>5, Zenon DEF Posted
      <4>2. Task("answer", id, 0).op = "answer" /\ Task("answer", id, 0).id = id
        BY DEF Task
      <4> QED
        BY <4>1, <4>2, Zenon
    <3> QED
      BY <3>6, <3>7, Zenon DEF UnderWay, Answering
  <2> QED
    BY <2>1, <2>2, Zenon
<1>7. ASSUME NEW i \in 1 .. Len(tasks), tasks[i].op = "answer", tasks[i].id = id
      PROVE  UnderWay(id)'
  BY <1>1, <1>7, Zenon DEF UnderWay, Answering
<1>8. CASE Answered(id)
  <2>1. answered \subseteq answered'
    BY <1>f, Zenon DEF Frame, WorkerStep
  <2> QED
    BY <1>8, <2>1, Zenon DEF UnderWay, Answered
<1> QED
  BY <1>2, <1>3, <1>4, <1>5, <1>6, <1>7, <1>8, Zenon DEF UnderWay, Answering

LEMMA UnderWayStep ==
  ASSUME Inv, OwnOnly, AllUnderWay, Next
  PROVE  AllUnderWay'
<1> SUFFICES ASSUME crash' = "no", link' = "up", joins' <= 1, NEW id \in serverIds'
             PROVE  UnderWay(id)'
  BY Zenon DEF AllUnderWay
<1>t. TypeInv /\ TypeInv' /\ Len(tasks) \in Nat
  BY TypeStep, OrderTypes, Zenon DEF Inv
<1>i. id \in RemoteIds
  BY <1>t, Zenon DEF TypeInv, TypeOK
<1>f. Frame
  BY StepFrame, ZenonT(30)
<1>1. crash = "no"
  BY ZenonT(30) DEF Next, OnJoinRoom, PostExisting, Disconnected, ServerSends, ServerAddStream,
     ServerRemoveStream, Handle, ServerSubscribe, ServerPublish, ServerAnnounce, ServerOffer,
     ServerAnswer, ServerCandidate, PublishStream, OnSdpCreateSuccess, OnIceCandidate,
     WorkerStep, Run, ExistingStream, OnAddStream, OnRemoveStream, OnSubscribeStream, Publish,
     OnPublishStream, ReceiveOffer, OnPeerConnectionConnectErizoReady, SendAnswer,
     SendIceCandidate, RaceWithJoin
<1>2. CASE PostExisting
  <2>1. PostedExisting /\ UNCHANGED serverIds
    BY <1>t, <1>2, PostExistingFacts, Zenon DEF TypeInv, PostExisting, serverVars
  <2>2. PICK i \in 1 .. Len(tasks') : i > Len(tasks) /\ tasks'[i].id = id
    BY <2>1, Zenon DEF PostedExisting
  <2>3. tasks'[i].op = "existing"
    BY <2>1, <2>2, Zenon DEF PostedExisting
  <2> QED
    BY <2>2, <2>3, Zenon DEF UnderWay, Announced
<1>3. CASE ~PostExisting
  <2>1. ~Joins /\ ~Disconnected
    BY Zenon DEF Joins, OnJoinRoom, Disconnected
  <2>2. link = "up" /\ joins <= 1
    BY <1>f, <1>3, <2>1, Zenon DEF Frame
  <2>3. CASE id \in serverIds
    <3>1. UnderWay(id)
      BY <1>1, <2>2, <2>3, Zenon DEF AllUnderWay
    <3> QED
      BY <1>i, <2>2, <3>1, UnderWayByWorker, UnderWayByOthers, Zenon
  <2>4. CASE id \notin serverIds
    <3>1. ~ServerPublish /\ \A n \in RemoteIds : ~ServerRemoveStream(n)
      BY <2>4, Zenon DEF ServerPublish, ServerRemoveStream
    <3>2. PICK n \in RemoteIds : ServerAddStream(n)
      BY <1>f, <2>1, <2>4, <3>1, Zenon DEF Frame
    <3>3. n = id
      BY <2>4, <3>2, Zenon DEF ServerAddStream
    <3>4. Post(Task("add", id, 0))
      BY <3>2, <3>3, Zenon DEF ServerAddStream
    <3>5. tasks \in Seq(Tasks) /\ Task("add", id, 0) \in Tasks
      <4>1. tasks \in Seq(Tasks)
        BY <1>t, Zenon DEF TypeInv, TypeOK, Tasks
      <4>2. Task("add", id, 0) \in Tasks
        BY <1>i, RoomStreamsAssumption DEF Tasks, Task, TaskOps
      <4> QED
        BY <4>1, <4>2
    <3>6. Posted(Task("add", id, 0))
      BY <3>4, <3>5, PostFacts, Zenon
    <3>7. Len(tasks) + 1 \in 1 .. Len(tasks')
      BY <3>6, PostPlace, Zenon
    <3>8. tasks'[Len(tasks) + 1].op = "add" /\ tasks'[Len(tasks) + 1].id = id
      <4>1. tasks'[Len(tasks) + 1] = Task("add", id, 0)
        BY <3>6, Zenon DEF Posted
      <4>2. Task("add", id, 0).op = "add" /\ Task("add", id, 0).id = id
        BY DEF Task
      <4> QED
        BY <4>1, <4>2, Zenon
    <3> QED
      BY <3>7, <3>8, Zenon DEF UnderWay, Announced
  <2> QED
    BY <2>3, <2>4, Zenon
<1> QED
  BY <1>2, <1>3, Zenon

\* StreamsUnderWay for every set of streams and of erizos: this is the part of
\* StreamsAnswered that does not depend on fairness.
THEOREM StreamsStayUnderWay == Spec => []StreamsUnderWay
<1>1. Init => OwnOnly /\ AllUnderWay
  BY DEF Init, OwnOnly, AllUnderWay, IsInfo, Absent, Ids
<1>2. Inv /\ OwnOnly /\ AllUnderWay /\ [Next]_vars => OwnOnly' /\ AllUnderWay'
  <2> SUFFICES ASSUME Inv, OwnOnly, AllUnderWay, [Next]_vars
               PROVE  OwnOnly' /\ AllUnderWay'
    OBVIOUS
  <2>1. CASE Next
    BY <2>1, OwnOnlyStep, UnderWayStep, Zenon DEF Inv
  <2>2. CASE UNCHANGED vars
    BY <2>2, Zenon DEF vars, mapVars, serverVars, appVars, historyVars, OwnOnly, AllUnderWay,
       UnderWay, Announced, Requested, Offering, Offered, Answering, Answered
  <2> QED
    BY <2>1, <2>2, Zenon
<1>3. Inv /\ AllUnderWay => StreamsUnderWay
  <2> SUFFICES ASSUME Inv, NEW id, UnderWay(id)
               PROVE  \/ \E t \in Range(tasks) : t.op \in {"existing", "add", "answer"} /\ t.id = id
                      \/ \E p \in Range(requests) : p.op = "subscribe" /\ p.id = id
                      \/ \E c \in DOMAIN alloc :
                           /\ alloc[c].id = id
                           /\ c \in offers \/ \E t \in Range(tasks) : t.op = "offer" /\ t.conn = c
                      \/ id \in answering
                      \/ \E a \in answered : a.id = id
    BY Zenon DEF AllUnderWay, StreamsUnderWay
  <2>1. DOMAIN tasks = 1 .. Len(tasks) /\ DOMAIN requests = 1 .. Len(requests)
        /\ DOMAIN alloc = 1 .. Len(alloc)
    BY LenProperties DEF Inv, TypeInv, TypeOK
  <2>2. /\ \A i \in 1 .. Len(tasks) : tasks[i] \in Range(tasks)
        /\ \A i \in 1 .. Len(requests) : requests[i] \in Range(requests)
    BY <2>1, Zenon DEF Range
  <2> QED
    BY <2>1, <2>2, Zenon DEF UnderWay, Announced, Requested, Offering, Offered, Answering, Answered
<1> QED
  BY <1>1, <1>2, <1>3, InvHolds, PTL DEF Spec
=============================================================================
