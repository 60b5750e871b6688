--------------------------- MODULE PeerConnection ---------------------------
(***************************************************************************)
(* One peer connection of the application: WebrtcConnection, the observer  *)
(* of main.cpp and libwebrtc beneath them.                                 *)
(*                                                                         *)
(* The worker thread hands over offers (OnReceiveOffer) with two calls,    *)
(* SetRemoteDescription and CreateAnswer, each of which runs on libwebrtc's*)
(* signaling thread while the worker waits.  There every operation joins a *)
(* chain and starts when the one before it is complete.  Creating an answer*)
(* takes time; when it is complete the chain goes on first and then the    *)
(* observer gets the answer, sets it as local description and sends it.    *)
(* Results of SetRemoteDescription and SetLocalDescription are only logged.*)
(***************************************************************************)
EXTENDS Naturals, Sequences

CONSTANT MaxOffers  \* bound: offers the server sends for the stream

ASSUME PeerConnectionAssumption == MaxOffers \in Nat

VARIABLES
    received,    \* number of offers the worker has handed over
    worker,      \* where the worker is in OnReceiveOffer
    chain,       \* libwebrtc's chain of operations
    running,     \* the first of them is a CreateAnswer under way
    making,      \* the offer it answers, 0 if there is none
    deliver,     \* the result the observer is about to get
    sig,         \* signaling state
    remote,      \* the offer in the remote description, 0 if there is none
    local,       \* the offer answered by the local description
    sent,        \* the offers whose answers were passed to SendAnswer
    conn,        \* PeerConnectionState
    told,        \* what the application was last told of it
    trouble,     \* history: an operation has failed
    overlapped   \* history: an offer came before the one before it was done

negotiationVars == <<chain, running, making, deliver, sig, remote, local>>
reportVars == <<conn, told>>
historyVars == <<trouble, overlapped>>
vars == <<received, worker, negotiationVars, sent, reportVars, historyVars>>

Op(name, n) == [name |-> name, n |-> n]
NoResult == [ok |-> FALSE, n |-> 0]

\* CreatePeerConnection has just made the connection.
Init ==
    /\ received = 0
    /\ worker = "idle"
    /\ chain = <<>>
    /\ running = FALSE
    /\ making = 0
    /\ deliver = NoResult
    /\ sig = "kStable"
    /\ remote = 0
    /\ local = 0
    /\ sent = <<>>
    /\ conn = "kNew"
    /\ told = "nothing"
    /\ trouble = FALSE
    /\ overlapped = FALSE

-----------------------------------------------------------------------------
(* The chain of operations.                                                *)

\* The signaling thread has no operation to start.
Settled == chain = <<>> \/ running

\* It is free for a call from another thread, or for its next own task.
Free == Settled /\ deliver = NoResult

Chain(op) == chain' = Append(chain, op)

\* The next operation of the chain starts, which is of this name.
Start(name) ==
    /\ ~Settled
    /\ Head(chain).name = name
    /\ UNCHANGED <<received, worker, deliver, sent, reportVars, overlapped>>

\* The signaling state allows an offer; the description may still be refused.
SetRemote ==
    /\ Start("remote")
    /\ chain' = Tail(chain)
    /\ \/ /\ sig' = "kHaveRemoteOffer"
          /\ remote' = Head(chain).n
          /\ UNCHANGED trouble
       \/ /\ trouble' = TRUE
          /\ UNCHANGED <<sig, remote>>
    /\ UNCHANGED <<running, making, local>>

\* Without a remote offer there is nothing to answer.
StartAnswer ==
    /\ Start("answer")
    /\ running' = TRUE
    /\ making' = IF sig = "kHaveRemoteOffer" THEN remote ELSE 0
    /\ UNCHANGED <<chain, sig, remote, local, trouble>>

\* An answer is refused when there is no offer to answer.
SetLocal ==
    /\ Start("local")
    /\ chain' = Tail(chain)
    /\ \/ /\ sig = "kHaveRemoteOffer"
          /\ sig' = "kStable"
          /\ local' = Head(chain).n
          /\ UNCHANGED trouble
       \/ /\ trouble' = TRUE
          /\ UNCHANGED <<sig, local>>
    /\ UNCHANGED <<running, making, remote>>

\* The answer is there, or could not be made.  The chain goes on before the
\* observer is called.
AnswerCreated ==
    /\ running
    /\ deliver = NoResult
    /\ running' = FALSE
    /\ chain' = Tail(chain)
    /\ \/ making # 0 /\ deliver' = [ok |-> TRUE, n |-> making] /\ UNCHANGED trouble
       \/ deliver' = NoResult /\ trouble' = TRUE
    /\ making' = 0
    /\ UNCHANGED <<received, worker, sig, remote, local, sent, reportVars, overlapped>>

-----------------------------------------------------------------------------
(* The application.                                                        *)

\* Everything about the offers before has been done.
Done == worker = "idle" /\ chain = <<>> /\ deliver = NoResult

\* OnReceiveOffer, up to the return of SetRemoteDescription.  An offer that
\* cannot be parsed is dropped.
OnReceiveOffer ==
    /\ Free
    /\ worker = "idle"
    /\ received < MaxOffers
    /\ received' = received + 1
    /\ overlapped' = (overlapped \/ ~Done)
    /\ \/ /\ worker' = "set"
          /\ Chain(Op("remote", received'))
          /\ UNCHANGED trouble
       \/ /\ trouble' = TRUE
          /\ UNCHANGED <<worker, chain>>
    /\ UNCHANGED <<running, making, deliver, sig, remote, local, sent, reportVars>>

\* The rest of OnReceiveOffer: CreateAnswer.
CreateAnswer ==
    /\ Free
    /\ worker = "set"
    /\ worker' = "idle"
    /\ Chain(Op("answer", received))
    /\ UNCHANGED <<received, running, making, deliver, sig, remote, local, sent,
                   reportVars, historyVars>>

\* A plausible bug: the answer is set but not sent.
SendAnswerNot(n) == UNCHANGED sent

\* room_->SendAnswer
SendAnswer(n) == sent' = Append(sent, n)

\* A plausible bug: the answer is set as remote description, as CreateOffer
\* calls CreateAnswer.
SetLocalDescriptionRemote(n) == Chain(Op("remote", n))

SetLocalDescription(n) == Chain(Op("local", n))

\* OnSdpCreateSuccess: SetLocalDescription and SendAnswer, unless the text of
\* the answer cannot be parsed.
OnSdpCreateSuccess ==
    /\ Settled
    /\ deliver.ok
    /\ deliver' = NoResult
    /\ \/ /\ SetLocalDescription(deliver.n)
          /\ SendAnswer(deliver.n)
          /\ UNCHANGED trouble
       \/ /\ trouble' = TRUE
          /\ UNCHANGED <<chain, sent>>
    /\ UNCHANGED <<received, worker, running, making, sig, remote, local, reportVars,
                   overlapped>>

\* The states in which a connection can be after each state, once it has a
\* local description.
Following(state) ==
    CASE state = "kNew" -> {"kConnecting"}
      [] state = "kConnecting" -> {"kConnected", "kFailed"}
      [] state = "kConnected" -> {"kDisconnected"}
      [] state = "kDisconnected" -> {"kConnected", "kFailed"}
      [] state = "kFailed" -> {}

\* OnConnectionChange: the optional is tested for having a value, not for the
\* value, so that the loss of a connection is reported like its beginning.
OnConnectionChange(state) ==
    /\ Free
    /\ local # 0
    /\ state \in Following(conn)
    /\ conn' = state
    /\ told' = IF state \in {"kConnected", "kDisconnected"} THEN "OnPeerConnect" ELSE told
    /\ UNCHANGED <<received, worker, negotiationVars, sent, historyVars>>

-----------------------------------------------------------------------------
States == {"kNew", "kConnecting", "kConnected", "kDisconnected", "kFailed"}

Next ==
    \/ SetRemote
    \/ StartAnswer
    \/ SetLocal
    \/ AnswerCreated
    \/ OnReceiveOffer
    \/ CreateAnswer
    \/ OnSdpCreateSuccess
    \/ \E state \in States : OnConnectionChange(state)

Spec == Init /\ [][Next]_vars

\* Operations start and answers are created, and the worker goes on.
Fairness ==
    /\ WF_vars(SetRemote \/ StartAnswer \/ SetLocal)
    /\ WF_vars(AnswerCreated)
    /\ WF_vars(CreateAnswer)
    /\ WF_vars(OnSdpCreateSuccess)

FairSpec == Spec /\ Fairness

-----------------------------------------------------------------------------
Offers == 0 .. MaxOffers
Ops == [name : {"remote", "answer", "local"}, n : Offers]

TypeOK ==
    /\ received \in Offers
    /\ worker \in {"idle", "set"}
    /\ chain \in Seq(Ops)
    /\ running \in BOOLEAN
    /\ making \in Offers
    /\ deliver \in [ok : BOOLEAN, n : Offers]
    /\ sig \in {"kStable", "kHaveRemoteOffer"}
    /\ remote \in Offers
    /\ local \in Offers
    /\ sent \in Seq(Offers)
    /\ conn \in States
    /\ told \in {"nothing", "OnPeerConnect", "OnPeerDisconnect"}
    /\ trouble \in BOOLEAN
    /\ overlapped \in BOOLEAN
    /\ running => chain # <<>>

\* If no operation has failed when all is done, then the offers came one at a
\* time, both descriptions are those of the last offer and every offer has had
\* its own answer, in order.  So offers that overlap never pass unnoticed by
\* libwebrtc: the first answer is applied to the second offer, after which the
\* second answer is refused, though it was sent, or cannot be made.
DescriptionsAgree ==
    Done /\ ~trouble =>
        /\ ~overlapped
        /\ sig = "kStable"
        /\ remote = received /\ local = received
        /\ sent = [i \in 1 .. received |-> i]

\* Every offer gets its answer unless an operation fails.
OffersAnswered ==
    \A n \in 1 .. MaxOffers :
        received = n ~> (\E i \in DOMAIN sent : sent[i] = n) \/ trouble

\* The comment on ConnectionEvent lists 'ice-state-change': the application is
\* shown that its connection is lost, with the callback there is for it.
StateChangeIsShown == conn = "kDisconnected" => told = "OnPeerDisconnect"
=============================================================================
