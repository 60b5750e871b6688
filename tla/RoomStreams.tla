---------------------------- MODULE RoomStreams ----------------------------
(***************************************************************************)
(* The streams of a joined room (core/licode_room.cc): the maps and queues *)
(* that tasks on the worker thread keep about remote and local streams,    *)
(* the server that announces streams and allocates connections, and the    *)
(* application of main.cpp, which subscribes to every remote stream and    *)
(* answers every offer.                                                    *)
(*                                                                         *)
(* Worker::PostTask queues a task when it is called from another thread    *)
(* and runs it inside the caller's task on the worker thread itself.  What *)
(* the server sends is handled on the websocket thread, which only parses  *)
(* and posts: sending and posting are one step, and the time messages need *)
(* is the time they spend in requests and in tasks.  The exception is      *)
(* OnJoinRoom, which changes the map of remote streams and the list of ICE *)
(* servers on the websocket thread and takes two steps.                    *)
(***************************************************************************)
EXTENDS Integers, Sequences, FiniteSets, Functions

CONSTANTS RemoteIds,    \* ids of the streams other participants publish
          LocalIds,     \* ids the server gives to the streams we publish
          Erizos,       \* the server's media servers
          NoErizo,      \* the empty erizo_id_
          MaxJoins,     \* bound: how often the room is joined
          MaxRemovals,  \* bound: streams that leave the room
          MaxPublish    \* bound: calls of PublishStream

\* RemoteIds is finite: the streams in a room can be counted.
ASSUME RoomStreamsAssumption ==
    /\ \A ids \in SUBSET RemoteIds : IsFiniteSet(ids) /\ Cardinality(ids) \in Nat
    /\ RemoteIds \cup LocalIds \subseteq Nat \ {0}
    /\ RemoteIds \cap LocalIds = {}
    /\ NoErizo \notin Erizos
    /\ MaxJoins \in Nat /\ MaxRemovals \in Nat /\ MaxPublish \in Nat

VARIABLES
    link,         \* "down", "joining" (OnJoinRoom is under way) or "up"
    joins,        \* how often the room has been joined
    tasks,        \* the worker's queue
    remote,       \* remote_stream_infos_
    local,        \* local_stream_infos_
    pendingSub,   \* pending_subscribe_streams_
    pendingPub,   \* pending_publish_local_streams_: numbers of PublishStream calls
    erizoId,      \* erizo_id_
    crash,        \* where the program has used a null pointer or met a data race
    requests,     \* what the client has sent and the server not yet handled
    serverIds,    \* remote streams in the room
    known,        \* ids the server has used up
    removed,      \* ids of streams that have left the room
    alloc,        \* per connection of a subscription: its stream and its erizo
    pubs,         \* per connection of a publication: its call and its erizo
    offers,       \* connections whose offer the server has still to send
    announce,     \* own streams the server has still to announce
    published,    \* calls of PublishStream so far
    observed,     \* streams for which the application has a peer connection
    answering,    \* streams whose answer libwebrtc is creating
    gathering,    \* streams for which libwebrtc may report a candidate
    acked,        \* history: number of subscribe answers handled
    answered      \* history: the packets of the answers sent

mapVars == <<remote, local, pendingSub, pendingPub, erizoId>>
serverVars == <<serverIds, known, removed, alloc, pubs, offers, announce>>
appVars == <<published, observed, answering, gathering>>
historyVars == <<acked, answered>>
vars == <<link, joins, tasks, mapVars, crash, requests, serverVars, appVars, historyVars>>

-----------------------------------------------------------------------------
Ids == RemoteIds \cup LocalIds

\* An entry of one of the maps: a stream info with its connection id (0 while
\* it has none), or the null pointer that operator[] leaves behind.
Absent == [kind |-> "absent", conn |-> 0]
Null == [kind |-> "null", conn |-> 0]
Info(c) == [kind |-> "info", conn |-> c]
IsInfo(entry) == entry.kind = "info"

\* What operator[] leaves in a map at id.
Touch(map, id) == IF map[id] = Absent THEN [map EXCEPT ![id] = Null] ELSE map

\* Connections of subscriptions are numbered 1, 2, ..., those of publications
\* -1, -2, ...
Task(op, id, conn) == [op |-> op, id |-> id, conn |-> conn]
NoId == 0

\* A packet: its builder, the stream (or the label of a stream to publish), the
\* connection and the erizo it names.  That of a subscription has instead of a
\* connection its number among all subscriptions, which no one reads.
Packet(op, id, conn) == [op |-> op, id |-> id, conn |-> conn, erizo |-> erizoId]

Init ==
    /\ link = "down"
    /\ joins = 0
    /\ tasks = <<>>
    /\ remote = [id \in Ids |-> Absent]
    /\ local = [id \in Ids |-> Absent]
    /\ pendingSub = <<>>
    /\ pendingPub = <<>>
    /\ erizoId = NoErizo
    /\ crash = "no"
    /\ requests = <<>>
    /\ serverIds = {}
    /\ known = {}
    /\ removed = {}
    /\ alloc = <<>>
    /\ pubs = <<>>
    /\ offers = {}
    /\ announce = {}
    /\ published = 0
    /\ observed = {}
    /\ answering = {}
    /\ gathering = {}
    /\ acked = 0
    /\ answered = {}

-----------------------------------------------------------------------------
(* The link to the server.                                                 *)

\* LicodeSignaling::SendMsg drops what is sent while it is not connected.
Send(packet) ==
    requests' = IF link # "down" THEN Append(requests, packet) ELSE requests

Post(task) == tasks' = Append(tasks, task)

\* OnJoinRoom, on the websocket thread: forgets the remote streams of an
\* earlier join, then replaces the list of ICE servers.
OnJoinRoom(existing) ==
    /\ crash = "no"
    /\ link = "down"
    /\ joins < MaxJoins
    /\ link' = "joining"
    /\ joins' = joins + 1
    /\ serverIds' = serverIds \cup existing
    /\ known' = known \cup existing
    /\ remote' = [id \in Ids |-> Absent]
    /\ UNCHANGED <<tasks, local, pendingSub, pendingPub, erizoId, crash, requests,
                   removed, alloc, pubs, offers, announce, appVars, historyVars>>

\* The end of OnJoinRoom: one task for each stream that is in the room.
PostExisting ==
    /\ crash = "no"
    /\ link = "joining"
    /\ link' = "up"
    /\ \E order \in Bijection(1 .. Cardinality(serverIds), serverIds) :
         tasks' = tasks \o [i \in DOMAIN order |-> Task("existing", order[i], 0)]
    /\ UNCHANGED <<joins, mapVars, crash, requests, serverVars, appVars, historyVars>>

\* The connection ends; what was on its way to the server is lost and the
\* server forgets what it had still to do for this client.
Disconnected ==
    /\ crash = "no"
    /\ link = "up"
    /\ link' = "down"
    /\ requests' = <<>>
    /\ offers' = {}
    /\ announce' = {}
    /\ UNCHANGED <<joins, tasks, mapVars, crash, serverIds, known, removed, alloc, pubs,
                   appVars, historyVars>>

\* The server as this client sees it.  It handles requests in order, answers
\* each of them, and names connections by the order of their allocation.
ServerSends ==
    /\ crash = "no"
    /\ link = "up"
    /\ UNCHANGED <<link, joins, mapVars, crash, appVars, historyVars>>

ServerAddStream(id) ==
    /\ ServerSends
    /\ id \in RemoteIds \ known
    /\ serverIds' = serverIds \cup {id}
    /\ known' = known \cup {id}
    /\ Post(Task("add", id, 0))
    /\ UNCHANGED <<requests, removed, alloc, pubs, offers, announce>>

ServerRemoveStream(id) ==
    /\ ServerSends
    /\ id \in serverIds
    /\ Cardinality(removed) < MaxRemovals
    /\ serverIds' = serverIds \ {id}
    /\ removed' = removed \cup {id}
    /\ Post(Task("remove", id, 0))
    /\ UNCHANGED <<requests, known, alloc, pubs, offers, announce>>

\* The server handles the next request, which is an op.
Handle(op) ==
    /\ ServerSends
    /\ requests # <<>>
    /\ Head(requests).op = op
    /\ requests' = Tail(requests)

ServerSubscribe ==
    /\ Handle("subscribe")
    /\ \E e \in Erizos : alloc' = Append(alloc, [id |-> Head(requests).id, erizo |-> e])
    /\ offers' = offers \cup {Len(alloc')}
    /\ Post(Task("subscribed", NoId, Len(alloc')))
    /\ UNCHANGED <<serverIds, known, removed, pubs, announce>>

ServerPublish ==
    /\ Handle("publish")
    /\ \E e \in Erizos : pubs' = Append(pubs, [id |-> Head(requests).id, erizo |-> e])
    /\ \E id \in LocalIds \ known :
         /\ known' = known \cup {id}
         /\ announce' = announce \cup {id}
         /\ Post(Task("published", id, -Len(pubs')))
    /\ UNCHANGED <<serverIds, removed, alloc, offers>>

ServerAnnounce(id) ==
    /\ ServerSends
    /\ id \in announce
    /\ announce' = announce \ {id}
    /\ Post(Task("add", id, 0))
    /\ UNCHANGED <<requests, serverIds, known, removed, alloc, pubs, offers>>

ServerOffer(conn) ==
    /\ ServerSends
    /\ conn \in offers
    /\ offers' = offers \ {conn}
    /\ Post(Task("offer", NoId, conn))
    /\ UNCHANGED <<requests, serverIds, known, removed, alloc, pubs, announce>>

\* The erizo that has the connection becomes ready; another one knows nothing
\* of it.
ServerAnswer ==
    /\ Handle("answer")
    /\ LET packet == Head(requests)
       IN  IF packet.conn \in DOMAIN alloc /\ alloc[packet.conn].erizo = packet.erizo
           THEN Post(Task("ready", NoId, packet.conn))
           ELSE UNCHANGED tasks
    /\ UNCHANGED serverVars

ServerCandidate == Handle("candidate") /\ UNCHANGED <<tasks, serverVars>>

-----------------------------------------------------------------------------
(* Threads of the application and of libwebrtc post tasks.                 *)

PublishStream ==
    /\ crash = "no"
    /\ joins > 0
    /\ published < MaxPublish
    /\ published' = published + 1
    /\ Post(Task("publish", published', 0))
    /\ UNCHANGED <<link, joins, mapVars, crash, requests, serverVars, observed,
                   answering, gathering, historyVars>>

\* OnSdpCreateSuccess: SetLocalDescription starts to gather candidates, then
\* SendAnswer.
OnSdpCreateSuccess(id) ==
    /\ crash = "no"
    /\ id \in answering
    /\ answering' = answering \ {id}
    /\ gathering' = gathering \cup {id}
    /\ Post(Task("answer", id, 0))
    /\ UNCHANGED <<link, joins, mapVars, crash, requests, serverVars, published,
                   observed, historyVars>>

\* OnIceCandidate: SendIceCandidate.
OnIceCandidate(id) ==
    /\ crash = "no"
    /\ id \in gathering
    /\ gathering' = gathering \ {id}
    /\ Post(Task("candidate", id, 0))
    /\ UNCHANGED <<link, joins, mapVars, crash, requests, serverVars, published,
                   observed, answering, historyVars>>

-----------------------------------------------------------------------------
(* The tasks of the worker thread.                                         *)

\* The worker runs the next task, which is an op.
Run(op) ==
    /\ crash = "no"
    /\ tasks # <<>>
    /\ Head(tasks).op = op
    /\ tasks' = Tail(tasks)
    /\ UNCHANGED <<link, joins, serverVars>>

\* A task that uses the map of remote streams or the list of ICE servers while
\* OnJoinRoom replaces them: what it finds is undefined.
RaceWithJoin ==
    /\ crash = "no"
    /\ link = "joining"
    /\ tasks # <<>>
    /\ Head(tasks).op \notin {"publish", "published"}
    /\ crash' = "race"
    /\ UNCHANGED <<link, joins, tasks, mapVars, requests, serverVars, appVars, historyVars>>

\* The packet of a subscription.
SubscribePacket(id) == Packet("subscribe", id, acked + Len(pendingSub) + 1)

\* A plausible bug: the stream becomes pending at the front of the queue.
SubscribeStreamFront(id) ==
    pendingSub' = <<id>> \o pendingSub /\ Send(SubscribePacket(id))

\* A plausible bug: the stream is not made pending.
SubscribeStreamUntracked(id) ==
    UNCHANGED pendingSub /\ Send(SubscribePacket(id))

\* A plausible bug: the stream is pending but the request is not sent.
SubscribeStreamUnsent(id) ==
    pendingSub' = Append(pendingSub, id) /\ UNCHANGED requests

\* SubscribeStream, run inside the task whose observer calls it: the stream is
\* pending even if the request is dropped.
SubscribeStream(id) ==
    pendingSub' = Append(pendingSub, id) /\ Send(SubscribePacket(id))

\* OnAddRemoteStream of the application: CreatePeerConnection unless there is
\* one, and SubscribeStream.
OnAddRemoteStream(id) ==
    /\ observed' = observed \cup {id}
    /\ SubscribeStream(id)
    /\ UNCHANGED <<published, answering, gathering>>

\* A stream that was in the room when it was joined: emplace keeps an entry
\* that is already there.
ExistingStream ==
    /\ Run("existing")
    /\ LET id == Head(tasks).id
       IN  /\ remote' = [remote EXCEPT ![id] = IF @ = Absent THEN Info(0) ELSE @]
           /\ OnAddRemoteStream(id)
    /\ UNCHANGED <<local, pendingPub, erizoId, crash, historyVars>>

\* A plausible bug: a stream that is not ours is shown but not entered.
EnterRemoteNot(id) == UNCHANGED remote

\* remote_stream_infos_[info->Id()] = info
EnterRemote(id) == remote' = [remote EXCEPT ![id] = Info(0)]

\* OnAddStream: local_stream_infos_[id] leaves a null entry for a stream that
\* is not ours; the announcement of our own stream keeps its connection.
OnAddStream ==
    /\ Run("add")
    /\ LET id == Head(tasks).id
       IN  IF IsInfo(local[id])
           THEN UNCHANGED <<remote, local, pendingSub, requests, appVars>>
           ELSE /\ local' = Touch(local, id)
                /\ EnterRemote(id)
                /\ OnAddRemoteStream(id)
    /\ UNCHANGED <<pendingPub, erizoId, crash, historyVars>>

OnRemoveStream ==
    /\ Run("remove")
    /\ remote' = [remote EXCEPT ![Head(tasks).id] = Absent]
    /\ UNCHANGED <<local, pendingSub, pendingPub, erizoId, crash, requests, appVars,
                   historyVars>>

\* A plausible bug: the room never learns its erizo.
LearnErizoNot(e) == UNCHANGED erizoId

\* The first subscribe or publish answer tells the room its erizo; that of a
\* later one is only compared.
LearnErizo(e) == erizoId' = IF erizoId = NoErizo THEN e ELSE erizoId

\* OnSubscribeStream: the answer belongs to the stream that has been pending
\* longest; a stream that is gone is used all the same.  The code does not test
\* for an empty queue either: AnswerFindsPending states that it need not.
OnSubscribeStream ==
    /\ Run("subscribed")
    /\ pendingSub # <<>>
    /\ pendingSub' = Tail(pendingSub)
    /\ acked' = acked + 1
    /\ LearnErizo(alloc[Head(tasks).conn].erizo)
    /\ LET id == Head(pendingSub)
       IN  IF IsInfo(remote[id])
           THEN /\ remote' = [remote EXCEPT ![id] = Info(Head(tasks).conn)]
                /\ UNCHANGED crash
           ELSE /\ remote' = Touch(remote, id)
                /\ crash' = "subscribed"
    /\ UNCHANGED <<local, pendingPub, requests, appVars, answered>>

\* A plausible bug: the published stream is not entered in the map.
EnterLocalNot(id, conn) == UNCHANGED local

\* local_stream_infos_[streamId] = streamInfo
EnterLocal(id, conn) == local' = [local EXCEPT ![id] = Info(conn)]

\* OnPublishStream: the stream that has been pending longest gets its id and
\* its connection.
OnPublishStream ==
    /\ Run("published")
    /\ pendingPub # <<>>
    /\ pendingPub' = Tail(pendingPub)
    /\ LearnErizo(pubs[-Head(tasks).conn].erizo)
    /\ EnterLocal(Head(tasks).id, Head(tasks).conn)
    /\ UNCHANGED <<remote, pendingSub, crash, requests, appVars, historyVars>>

Publish ==
    /\ Run("publish")
    /\ pendingPub' = Append(pendingPub, Head(tasks).id)
    /\ Send(Packet("publish", Head(tasks).id, 0))
    /\ UNCHANGED <<remote, local, pendingSub, erizoId, crash, appVars, historyVars>>

\* Streams of a map with this connection, and null entries a search can meet.
Matches(map, conn) == {id \in Ids : map[id] = Info(conn)}
Nulls(map) == {id \in Ids : map[id] = Null}

\* receiveOffer and OnReceiveOffer of the application, which creates an answer;
\* a connection that no remote stream has gives it a null pointer.  The search
\* visits the entries in any order and uses each without a test.
ReceiveOffer ==
    /\ Run("offer")
    /\ LET conn == Head(tasks).conn
       IN  \/ \E id \in Matches(remote, conn) :
                /\ answering' = answering \cup {id}
                /\ UNCHANGED crash
           \/ /\ Matches(remote, conn) = {} \/ Nulls(remote) # {}
              /\ crash' = "offer"
              /\ UNCHANGED answering
    /\ UNCHANGED <<mapVars, requests, published, observed, gathering, historyVars>>

\* OnPeerConnectionConnectErizoReady: looks through the remote streams, then
\* through the local ones and their null entries.
OnPeerConnectionConnectErizoReady ==
    /\ Run("ready")
    /\ LET conn == Head(tasks).conn
           found == Matches(remote, conn) # {}
           foundLocal == Matches(local, conn) # {}
       IN  \/ found /\ UNCHANGED crash
           \/ ~found /\ (foundLocal \/ Nulls(local) = {}) /\ UNCHANGED crash
           \/ /\ Nulls(remote) # {} \/ (~found /\ Nulls(local) # {})
              /\ crash' = "ready"
    /\ UNCHANGED <<mapVars, requests, appVars, historyVars>>

\* SendAnswer: remote_stream_infos_[streamId] is used without a test.
SendAnswer ==
    /\ Run("answer")
    /\ LET id == Head(tasks).id
       IN  IF IsInfo(remote[id])
           THEN /\ Send(Packet("answer", id, remote[id].conn))
                /\ answered' = answered \cup {Packet("answer", id, remote[id].conn)}
                /\ UNCHANGED <<remote, crash>>
           ELSE /\ remote' = Touch(remote, id)
                /\ crash' = "answer"
                /\ UNCHANGED <<requests, answered>>
    /\ UNCHANGED <<local, pendingSub, pendingPub, erizoId, appVars, acked>>

\* SendIceCandidate: the remote entry, else the local one, without a test.
SendIceCandidate ==
    /\ Run("candidate")
    /\ LET id == Head(tasks).id
       IN  /\ remote' = Touch(remote, id)
           /\ IF IsInfo(remote[id])
              THEN /\ Send(Packet("candidate", id, remote[id].conn))
                   /\ UNCHANGED <<local, crash>>
              ELSE /\ local' = Touch(local, id)
                   /\ crash' = "candidate"
                   /\ UNCHANGED requests
    /\ UNCHANGED <<pendingSub, pendingPub, erizoId, appVars, historyVars>>

WorkerStep ==
    \/ ExistingStream
    \/ OnAddStream
    \/ OnRemoveStream
    \/ OnSubscribeStream
    \/ Publish
    \/ OnPublishStream
    \/ ReceiveOffer
    \/ OnPeerConnectionConnectErizoReady
    \/ SendAnswer
    \/ SendIceCandidate

-----------------------------------------------------------------------------
Next ==
    \/ \E existing \in SUBSET (RemoteIds \ known) : OnJoinRoom(existing)
    \/ PostExisting
    \/ Disconnected
    \/ \E id \in RemoteIds : ServerAddStream(id) \/ ServerRemoveStream(id)
    \/ ServerSubscribe
    \/ ServerPublish
    \/ \E id \in LocalIds : ServerAnnounce(id)
    \/ \E conn \in 1 .. Len(alloc) : ServerOffer(conn)
    \/ ServerAnswer
    \/ ServerCandidate
    \/ PublishStream
    \/ \E id \in Ids : OnSdpCreateSuccess(id) \/ OnIceCandidate(id)
    \/ WorkerStep
    \/ RaceWithJoin

Spec == Init /\ [][Next]_vars

\* OnJoinRoom goes on, the worker runs its tasks, libwebrtc creates answers, the
\* server handles requests and sends its offers.
Fairness ==
    /\ WF_vars(PostExisting)
    /\ WF_vars(WorkerStep)
    /\ WF_vars(ServerSubscribe)
    /\ WF_vars(ServerPublish)
    /\ WF_vars(ServerAnswer)
    /\ WF_vars(ServerCandidate)
    /\ \A id \in Ids : WF_vars(OnSdpCreateSuccess(id))
    /\ WF_vars(\E conn \in 1 .. Len(alloc) : ServerOffer(conn))

FairSpec == Spec /\ Fairness

-----------------------------------------------------------------------------
Entry == {Absent, Null} \cup {Info(c) : c \in -Len(pubs) .. Len(alloc)}
TaskOps == {"existing", "add", "remove", "subscribed", "published", "publish",
            "offer", "ready", "answer", "candidate"}
PacketOps == {"subscribe", "publish", "answer", "candidate"}
Crashes == {"no", "race", "subscribed", "offer", "ready", "answer", "candidate"}

TypeOK ==
    /\ link \in {"down", "joining", "up"}
    /\ joins \in 0 .. MaxJoins
    /\ tasks \in Seq([op : TaskOps, id : Nat, conn : Int])
    /\ remote \in [Ids -> Entry]
    /\ local \in [Ids -> Entry]
    /\ pendingSub \in Seq(RemoteIds)
    /\ pendingPub \in Seq(1 .. published)
    /\ erizoId \in Erizos \cup {NoErizo}
    /\ crash \in Crashes
    /\ requests \in Seq([op : PacketOps, id : Nat, conn : Int,
                         erizo : Erizos \cup {NoErizo}])
    /\ serverIds \subseteq RemoteIds
    /\ known \subseteq Ids
    /\ removed \subseteq RemoteIds
    /\ alloc \in Seq([id : RemoteIds, erizo : Erizos])
    /\ pubs \in Seq([id : 1 .. published, erizo : Erizos])
    /\ offers \subseteq 1 .. Len(alloc)
    /\ announce \subseteq LocalIds
    /\ published \in 0 .. MaxPublish
    /\ observed \subseteq RemoteIds
    /\ answering \subseteq RemoteIds
    /\ gathering \subseteq RemoteIds
    /\ acked \in Nat

\* All subscribe answers carry the same number, 222, so the client matches them
\* by order alone: as long as the room has been joined once, the answer that
\* the worker handles next is that for the stream pending longest.
AnswersInOrder ==
    crash = "no" /\ joins <= 1 /\ tasks # <<>> /\ Head(tasks).op = "subscribed" =>
        pendingSub # <<>> /\ Head(pendingSub) = alloc[Head(tasks).conn].id

\* All connections so far are on one erizo.
OneErizo ==
    \E e \in Erizos : /\ \A c \in DOMAIN alloc : alloc[c].erizo = e
                     /\ \A c \in DOMAIN pubs : pubs[c].erizo = e

\* A remote stream has the connection that the server allocated for it.  An
\* answer goes to the connection of its own stream and, if all connections are
\* on one erizo, names that.
ConnectionsMatch ==
    joins <= 1 =>
        /\ \A id \in RemoteIds : IsInfo(remote[id]) /\ remote[id].conn # 0 =>
             alloc[remote[id].conn].id = id
        /\ \A a \in answered :
             /\ a.conn \in DOMAIN alloc
             /\ alloc[a.conn].id = a.id
             /\ OneErizo => a.erizo = alloc[a.conn].erizo

\* The announcement of a stream that we publish never makes it a remote stream
\* to which the application subscribes: its publish answer comes first.
OwnStreamsStayLocal ==
    \A id \in LocalIds : ~IsInfo(remote[id]) /\ id \notin observed

\* A null pointer is used, or data is read while OnJoinRoom changes it, only
\* after a stream has been removed or the room has been joined again: the tests
\* that the tasks leave out are not needed as long as streams only arrive.
CrashNeedsCause == crash # "no" => removed # {} \/ joins > 1

\* front() and pop() of the two pending queues are never called on an empty
\* queue, also after requests were dropped and after the room was joined again.
AnswerFindsPending ==
    crash = "no" /\ tasks # <<>> =>
        /\ Head(tasks).op = "subscribed" => pendingSub # <<>>
        /\ Head(tasks).op = "published" => pendingPub # <<>>

\* In the first join no stream of the room is forgotten: as long as the link is up
\* it has a task that will subscribe to it, a request under way, a connection
\* whose offer is still to come or to be handled, an answer being created or to be
\* sent, or its answer has been sent.
StreamsUnderWay ==
    crash = "no" /\ link = "up" /\ joins <= 1 =>
        \A id \in serverIds :
            \/ \E t \in Range(tasks) : t.op \in {"existing", "add", "answer"} /\ t.id = id
            \/ \E p \in Range(requests) : p.op = "subscribe" /\ p.id = id
            \/ \E c \in DOMAIN alloc :
                 /\ alloc[c].id = id
                 /\ c \in offers \/ \E t \in Range(tasks) : t.op = "offer" /\ t.conn = c
            \/ id \in answering
            \/ \E a \in answered : a.id = id

\* While the room stays joined every stream that stays in it is subscribed to
\* and its offer answered in the end.
StreamsAnswered ==
    \A id \in RemoteIds :
        id \in serverIds ~> \/ \E a \in answered : a.id = id
                            \/ link = "down" \/ id \in removed \/ crash # "no"
=============================================================================
