------------------------ MODULE PeerConnectionProofs ------------------------
(***************************************************************************)
(* Type correctness of a peer connection, and the proof that its           *)
(* descriptions agree, for any number of offers, overlapping or not.  As   *)
(* long as no operation has failed, the chain holds exactly the operations *)
(* that the counts of offers, answers and descriptions leave to be done,   *)
(* in an order that keeps each answer with its offer (Flow).  An overlap   *)
(* makes an offer replace one that is not answered yet; from then on the   *)
(* local description is behind for good (Doomed), and the last operation   *)
(* cannot succeed.                                                         *)
(***************************************************************************)
EXTENDS PeerConnection, TLAPS, SequenceTheorems

\* The offers up to n have been answered.
UpTo(n) == [i \in 1 .. n |-> i]

\* One more answer, appended by SendAnswer.
LEMMA UpToNext ==
    ASSUME NEW n \in Nat, n > 0
    PROVE  Append(UpTo(n - 1), n) = UpTo(n)
<1> DEFINE before == UpTo(n - 1)
<1>1. before \in Seq(Nat) /\ Len(before) = n - 1
  BY DEF UpTo
<1>2. \A i \in 1 .. n - 1 : before[i] = i
  BY DEF UpTo
<1> HIDE DEF before
<1>3. Append(before, n) \in Seq(Nat) /\ Len(Append(before, n)) = n
  BY <1>1
<1>4. \A i \in 1 .. n : Append(before, n)[i] = i
  BY <1>1, <1>2
<1>5. UpTo(n) \in Seq(Nat) /\ Len(UpTo(n)) = n /\ \A i \in 1 .. n : UpTo(n)[i] = i
  BY DEF UpTo
<1> QED
  BY <1>3, <1>4, <1>5, SeqEqual DEF before

-----------------------------------------------------------------------------
(* Chains of operations.                                                   *)

\* p comes before q in the chain: operations of one kind follow their numbers,
\* and a description comes before the answer to it.
Prec(p, q) ==
    /\ p.name = q.name => p.n < q.n
    /\ p.name = "remote" /\ q.name = "answer" => p.n <= q.n
    /\ p.name = "answer" /\ q.name = "remote" => p.n < q.n

Ordered(s) == \A i, j \in 1 .. Len(s) : i < j => Prec(s[i], s[j])

\* The offer of some operation of s will be set before the answer to the offer
\* before it, l being the last answer that was set.
Late(s, l) ==
    \E j \in 1 .. Len(s) :
        /\ s[j].name = "remote"
        /\ l + 1 < s[j].n
        /\ \A i \in 1 .. Len(s) : i < j => ~(s[i].name = "local" /\ s[i].n + 1 = s[j].n)

\* Operations are numbered by offers.
LEMMA OpTypes ==
    ASSUME NEW op \in Ops
    PROVE  op.n \in Nat /\ op.name \in {"remote", "answer", "local"} /\ op = Op(op.name, op.n)
BY PeerConnectionAssumption DEF Ops, Op, Offers

\* Completing the first operation of an ordered chain.
LEMMA OrderedTail ==
    ASSUME NEW s \in Seq(Ops), s # <<>>, Ordered(s)
    PROVE  /\ Head(s) \in Ops /\ Tail(s) \in Seq(Ops)
           /\ Ordered(Tail(s))
           /\ Head(s) \in Range(s)
           /\ Range(Tail(s)) = Range(s) \ {Head(s)}
           /\ \A op \in Range(s) : op # Head(s) => Prec(Head(s), op)
<1>1. /\ Len(s) \in Nat /\ Len(s) > 0 /\ DOMAIN s = 1 .. Len(s)
      /\ Head(s) \in Ops /\ Head(s) = s[1] /\ Tail(s) \in Seq(Ops)
      /\ \A i \in 1 .. Len(s) : s[i] \in Ops
    OBVIOUS
<1>2. /\ Len(Tail(s)) = Len(s) - 1 /\ DOMAIN Tail(s) = 1 .. Len(s) - 1
      /\ \A i \in 1 .. Len(s) - 1 : i + 1 \in 1 .. Len(s) /\ Tail(s)[i] = s[i + 1]
    BY <1>1
<1>3. Ordered(Tail(s))
    BY <1>1, <1>2 DEF Ordered
<1>4. 1 \in 1 .. Len(s)
    BY <1>1
<1>5. Head(s) \in Range(s)
    BY <1>1, <1>4 DEF Range
<1>6. ASSUME NEW k \in 1 .. Len(s), k # 1 PROVE Prec(Head(s), s[k]) /\ s[k] # Head(s)
  <2>1. Prec(s[1], s[k])
      BY <1>1, <1>4, <1>6 DEF Ordered
  <2>2. ~Prec(s[k], s[k])
      BY <1>1, OpTypes DEF Prec
  <2> QED
      BY <1>1, <2>1, <2>2
<1>7. \A op \in Range(s) : op # Head(s) => Prec(Head(s), op)
    BY <1>1, <1>6 DEF Range
<1>8. ASSUME NEW op \in Range(Tail(s)) PROVE op \in Range(s) \ {Head(s)}
  <2>1. PICK i \in 1 .. Len(s) - 1 : op = Tail(s)[i]
      BY <1>2, <1>8 DEF Range
  <2>2. i + 1 \in 1 .. Len(s) /\ i + 1 # 1 /\ op = s[i + 1]
      BY <1>1, <1>2, <2>1
  <2> QED
      BY <1>1, <1>6, <2>2 DEF Range
<1>9. ASSUME NEW op \in Range(s) \ {Head(s)} PROVE op \in Range(Tail(s))
  <2>1. PICK k \in 1 .. Len(s) : op = s[k]
      BY <1>1, <1>9 DEF Range
  <2>2. k # 1
      BY <1>1, <1>9, <2>1
  <2>3. k - 1 \in 1 .. Len(s) - 1 /\ (k - 1) + 1 = k
      BY <1>1, <2>2
  <2>4. op = Tail(s)[k - 1]
      BY <1>2, <2>1, <2>3
  <2> QED
      BY <1>2, <2>3, <2>4, Zenon DEF Range
<1> QED
    BY <1>1, <1>3, <1>5, <1>7, <1>8, <1>9

\* Chaining an operation that all others precede.
LEMMA OrderedAppend ==
    ASSUME NEW s \in Seq(Ops), Ordered(s), NEW op \in Ops, \A p \in Range(s) : Prec(p, op)
    PROVE  /\ Append(s, op) \in Seq(Ops)
           /\ Ordered(Append(s, op))
           /\ Range(Append(s, op)) = Range(s) \cup {op}
<1>1. /\ Len(s) \in Nat /\ DOMAIN s = 1 .. Len(s)
      /\ Append(s, op) \in Seq(Ops) /\ Len(Append(s, op)) = Len(s) + 1
      /\ DOMAIN Append(s, op) = 1 .. Len(s) + 1
      /\ \A i \in 1 .. Len(s) : Append(s, op)[i] = s[i]
      /\ Append(s, op)[Len(s) + 1] = op
    OBVIOUS
<1>2. \A i \in 1 .. Len(s) + 1 : i \in 1 .. Len(s) \/ i = Len(s) + 1
    BY <1>1
<1>3. \A i \in 1 .. Len(s) : Prec(s[i], op)
    BY <1>1 DEF Range
<1>4. ASSUME NEW i \in 1 .. Len(s) + 1, NEW j \in 1 .. Len(s) + 1, i < j
      PROVE  Prec(Append(s, op)[i], Append(s, op)[j])
  <2>1. i \in 1 .. Len(s)
      BY <1>1, <1>4
  <2> QED
      BY <1>1, <1>2, <1>3, <1>4, <2>1 DEF Ordered
<1>5. 1 .. Len(s) + 1 = (1 .. Len(s)) \cup {Len(s) + 1}
    BY <1>1
<1>6. Range(Append(s, op)) = Range(s) \cup {op}
    BY <1>1, <1>5 DEF Range
<1> QED
    BY <1>1, <1>4, <1>6 DEF Ordered

\* What is late stays late when an operation is chained.
LEMMA LateAppend ==
    ASSUME NEW s \in Seq(Ops), NEW op \in Ops, NEW l \in Nat, Late(s, l)
    PROVE  Late(Append(s, op), l)
<1>1. /\ Len(s) \in Nat /\ Len(Append(s, op)) = Len(s) + 1
      /\ \A i \in 1 .. Len(s) : Append(s, op)[i] = s[i]
    OBVIOUS
<1>2. PICK j \in 1 .. Len(s) :
        /\ s[j].name = "remote"
        /\ l + 1 < s[j].n
        /\ \A i \in 1 .. Len(s) : i < j => ~(s[i].name = "local" /\ s[i].n + 1 = s[j].n)
    BY DEF Late
<1>3. j \in 1 .. Len(s) + 1 /\ \A i \in 1 .. Len(s) + 1 : i < j => i \in 1 .. Len(s)
    BY <1>1
<1> QED
    BY <1>1, <1>2, <1>3 DEF Late

\* An offer that is chained while the answer to the one before is not is late.
LEMMA LateLast ==
    ASSUME NEW s \in Seq(Ops), NEW op \in Ops, NEW l \in Nat,
           op.name = "remote", l + 1 < op.n,
           \A p \in Range(s) : ~(p.name = "local" /\ p.n + 1 = op.n)
    PROVE  Late(Append(s, op), l)
<1>1. /\ Len(s) \in Nat /\ DOMAIN s = 1 .. Len(s) /\ Len(Append(s, op)) = Len(s) + 1
      /\ \A i \in 1 .. Len(s) : Append(s, op)[i] = s[i]
      /\ Append(s, op)[Len(s) + 1] = op
    OBVIOUS
<1>2. /\ Len(s) + 1 \in 1 .. Len(s) + 1
      /\ \A i \in 1 .. Len(s) + 1 : i < Len(s) + 1 => i \in 1 .. Len(s)
    BY <1>1
<1>3. \A i \in 1 .. Len(s) : ~(s[i].name = "local" /\ s[i].n + 1 = op.n)
    BY <1>1 DEF Range
<1> QED
    BY <1>1, <1>2, <1>3 DEF Late

\* Completing an operation leaves what is late so, unless it is the late one;
\* also when it sets the next answer.
LEMMA LateTail ==
    ASSUME NEW s \in Seq(Ops), s # <<>>, NEW l \in Nat, Late(s, l),
           ~(Head(s).name = "remote" /\ l + 1 < Head(s).n)
    PROVE  /\ Late(Tail(s), l)
           /\ Head(s).name = "local" /\ Head(s).n = l + 1 => Late(Tail(s), l + 1)
<1>1. /\ Len(s) \in Nat /\ Len(s) > 0 /\ Head(s) = s[1] /\ Len(Tail(s)) = Len(s) - 1
      /\ \A i \in 1 .. Len(s) : s[i] \in Ops
      /\ \A i \in 1 .. Len(s) - 1 : i + 1 \in 1 .. Len(s) /\ Tail(s)[i] = s[i + 1]
    OBVIOUS
<1>2. PICK j \in 1 .. Len(s) :
        /\ s[j].name = "remote"
        /\ l + 1 < s[j].n
        /\ \A i \in 1 .. Len(s) : i < j => ~(s[i].name = "local" /\ s[i].n + 1 = s[j].n)
    BY DEF Late
<1>3. j # 1
    BY <1>1, <1>2
<1>4. /\ j - 1 \in 1 .. Len(s) - 1 /\ (j - 1) + 1 = j /\ 1 \in 1 .. Len(s) /\ 1 < j
      /\ \A i \in 1 .. Len(s) - 1 : i < j - 1 => i + 1 < j
    BY <1>1, <1>3
<1>5. Tail(s)[j - 1] = s[j]
    BY <1>1, <1>4
<1>6. \A i \in 1 .. Len(s) - 1 :
         i < j - 1 => ~(Tail(s)[i].name = "local" /\ Tail(s)[i].n + 1 = s[j].n)
    BY <1>1, <1>2, <1>4
<1>7. ASSUME NEW m \in Nat, m + 1 < s[j].n PROVE Late(Tail(s), m)
  <2>1. j - 1 \in 1 .. Len(Tail(s))
      BY <1>1, <1>4
  <2>2. Tail(s)[j - 1].name = "remote" /\ m + 1 < Tail(s)[j - 1].n
      BY <1>2, <1>5, <1>7
  <2>3. \A i \in 1 .. Len(Tail(s)) :
           i < j - 1 => ~(Tail(s)[i].name = "local" /\ Tail(s)[i].n + 1 = Tail(s)[j - 1].n)
      BY <1>1, <1>5, <1>6
  <2> QED
      BY <2>1, <2>2, <2>3, Zenon DEF Late
<1>8. ASSUME Head(s).name = "local", Head(s).n = l + 1 PROVE Late(Tail(s), l + 1)
  <2>1. (l + 1) + 1 # s[j].n
      BY <1>1, <1>2, <1>4, <1>8
  <2>2. s[j].n \in Nat
      BY <1>1, OpTypes
  <2>3. (l + 1) + 1 < s[j].n /\ l + 1 \in Nat
      BY <1>2, <2>1, <2>2
  <2> QED
      BY <1>7, <2>3
<1> QED
    BY <1>2, <1>7, <1>8

-----------------------------------------------------------------------------
LEMMA NoResultType == NoResult \in [ok : BOOLEAN, n : Offers]
<1>1. 0 \in Offers
  BY PeerConnectionAssumption DEF Offers
<1> QED
  BY <1>1 DEF NoResult

LEMMA TypeStep == TypeOK /\ [Next]_vars => TypeOK'
<1> SUFFICES ASSUME TypeOK, [Next]_vars
             PROVE  TypeOK'
  OBVIOUS
<1> USE PeerConnectionAssumption
    DEF TypeOK, negotiationVars, reportVars, historyVars
<1>c. /\ chain # <<>> => Head(chain) \in Ops /\ Tail(chain) \in Seq(Ops)
      /\ \A op \in Ops : Append(chain, op) \in Seq(Ops) /\ Append(chain, op) # <<>>
      /\ \A n \in Offers : Append(sent, n) \in Seq(Offers)
  BY HeadTailProperties, AppendProperties
<1>b. running' \in BOOLEAN /\ trouble' \in BOOLEAN /\ overlapped' \in BOOLEAN
  BY Zenon DEF Next, vars, SetRemote, StartAnswer, SetLocal, AnswerCreated,
     OnReceiveOffer, CreateAnswer, OnSdpCreateSuccess, OnConnectionChange, Start
<1>1. CASE SetRemote
  BY <1>1, <1>b, <1>c DEF SetRemote, Start, Settled, Ops
<1>2. CASE StartAnswer
  <2>1. making' \in Offers
    BY <1>2 DEF StartAnswer, Offers
  <2> QED
    BY <1>2, <1>b, <2>1 DEF StartAnswer, Start, Settled
<1>3. CASE SetLocal
  BY <1>3, <1>b, <1>c DEF SetLocal, Start, Settled, Ops
<1>4. CASE AnswerCreated
  <2>1. deliver' \in [ok : BOOLEAN, n : Offers]
    <3>1. [ok |-> TRUE, n |-> making] \in [ok : BOOLEAN, n : Offers]
      BY Zenon
    <3> QED
      BY <1>4, <3>1, NoResultType, Zenon DEF AnswerCreated
  <2> QED
    BY <1>4, <1>b, <1>c, <2>1 DEF AnswerCreated, Offers
<1>5. CASE OnReceiveOffer
  <2>1. received' \in Offers /\ Op("remote", received') \in Ops
    BY <1>5 DEF OnReceiveOffer, Offers, Op, Ops
  <2> QED
    BY <1>5, <1>b, <1>c, <2>1, Zenon DEF OnReceiveOffer, Chain
<1>6. CASE CreateAnswer
  BY <1>6, <1>b, <1>c DEF CreateAnswer, Chain, Op, Ops
<1>7. CASE OnSdpCreateSuccess
  <2>1. deliver' \in [ok : BOOLEAN, n : Offers]
    BY <1>7, NoResultType DEF OnSdpCreateSuccess
  <2>2. deliver.n \in Offers /\ Op("local", deliver.n) \in Ops
    BY DEF Op, Ops
  <2> QED
    BY <1>7, <1>b, <1>c, <2>1, <2>2, Zenon DEF OnSdpCreateSuccess, SetLocalDescription, SendAnswer, Chain
<1>8. CASE \E state \in States : OnConnectionChange(state)
  BY <1>8, <1>b DEF OnConnectionChange
<1>9. CASE UNCHANGED vars
  BY <1>9, <1>b DEF vars
<1> QED
  BY <1>1, <1>2, <1>3, <1>4, <1>5, <1>6, <1>7, <1>8, <1>9 DEF Next

\* The connection is type correct for any number of offers; an answer under way
\* is an operation of the chain.
THEOREM TypeCorrect == Spec => []TypeOK
<1>1. Init => TypeOK
  <2>1. 0 \in Offers
    BY PeerConnectionAssumption DEF Offers
  <2>2. Init => running \in BOOLEAN /\ trouble \in BOOLEAN /\ overlapped \in BOOLEAN
    BY Zenon DEF Init
  <2> QED
    BY <2>1, <2>2, NoResultType DEF Init, TypeOK, States
<1> QED
  BY <1>1, TypeStep, PTL DEF Spec

-----------------------------------------------------------------------------
(* The flow of offers and answers.                                         *)

\* The answers that were made, the answers that were asked for, and whether an
\* offer waits for its answer.
Created == Len(sent) + (IF deliver.ok THEN 1 ELSE 0)
Asked == IF worker = "set" THEN received - 1 ELSE received
Have == IF sig = "kHaveRemoteOffer" THEN 1 ELSE 0

\* What the counts leave to be done.
Todo(op) ==
    /\ op.name = "remote" => remote < op.n /\ op.n <= received
    /\ op.name = "answer" => Created < op.n /\ op.n <= Asked
    /\ op.name = "local" => local < op.n /\ op.n <= Len(sent)

Pending == {op \in Ops : Todo(op)}

Counts ==
    /\ sent = UpTo(Len(sent))
    /\ deliver \in {NoResult, [ok |-> TRUE, n |-> Len(sent) + 1]}
    /\ worker = "set" => received > 0
    /\ remote <= received /\ Created <= Asked /\ local <= Len(sent)
    /\ remote \in {Created, Created + 1}
    /\ running => Head(chain).name = "answer" /\ making \in {0, Created + 1}
    /\ local + Have <= remote

Flow == Counts /\ Ordered(chain) /\ Range(chain) = Pending

\* An offer has replaced one without an answer, or is going to.
Doomed == local + Have < remote \/ Late(chain, local)

Inv == ~trouble => Flow /\ (overlapped => Doomed)

\* The counts are numbers, and never exceed the number of offers.
LEMMA Numbers ==
    ASSUME TypeOK, Counts
    PROVE  /\ received \in Nat /\ remote \in Nat /\ local \in Nat /\ making \in Nat
           /\ Len(sent) \in Nat /\ Created \in Nat /\ Asked \in Nat /\ Have \in {0, 1}
           /\ Len(sent) <= Created /\ Asked <= received /\ received <= Asked + 1
           /\ MaxOffers \in Nat /\ received <= MaxOffers
<1>1. /\ received \in Nat /\ remote \in Nat /\ local \in Nat /\ making \in Nat
      /\ MaxOffers \in Nat /\ received <= MaxOffers
    BY PeerConnectionAssumption DEF TypeOK, Offers
<1>2. Len(sent) \in Nat
    BY DEF TypeOK
<1>3. Created \in Nat /\ Len(sent) <= Created
    BY <1>2 DEF Created
<1>4. Asked \in Nat /\ Asked <= received /\ received <= Asked + 1
    BY <1>1 DEF Asked, Counts
<1> QED
    BY <1>1, <1>2, <1>3, <1>4 DEF Have

\* The operation at the head of the chain is the next one of its kind, and an
\* answer is made for the offer that is set.
LEMMA HeadIsNext ==
    ASSUME TypeOK, Flow, chain # <<>>
    PROVE  /\ Head(chain) \in Ops /\ Todo(Head(chain))
           /\ Head(chain).name = "remote" =>
                Head(chain).n = remote + 1 /\ remote = Created
           /\ Head(chain).name = "answer" =>
                Head(chain).n = Created + 1 /\ remote = Created + 1
           /\ Head(chain).name = "local" => Head(chain).n = local + 1
<1> DEFINE h == Head(chain)
<1>1. chain \in Seq(Ops) /\ Counts
    BY DEF TypeOK, Flow
<1>2. h \in Ops /\ h \in Range(chain) /\ \A op \in Range(chain) : op # h => Prec(h, op)
    BY <1>1, OrderedTail DEF Flow
<1>3. h \in Ops /\ Todo(h) /\ h.n \in Nat /\ h.n <= MaxOffers
    BY <1>2, PeerConnectionAssumption DEF Flow, Pending, Ops, Offers
<1>4. ASSUME NEW op \in Ops, Todo(op), op # h PROVE Prec(h, op)
    BY <1>2, <1>4 DEF Flow, Pending
<1> HIDE DEF h
<1>5. ASSUME NEW k \in Nat, k <= MaxOffers, NEW name \in {"remote", "answer", "local"}
      PROVE  Op(name, k) \in Ops /\ Op(name, k).name = name /\ Op(name, k).n = k
    BY <1>5, PeerConnectionAssumption DEF Op, Ops, Offers
<1>6. ASSUME h.name = "remote" PROVE h.n = remote + 1 /\ remote = Created
  <2>1. remote < h.n /\ h.n <= received
      BY <1>3, <1>6 DEF Todo
  <2>2. h.n = remote + 1
    <3> SUFFICES ASSUME h.n # remote + 1 PROVE FALSE
        OBVIOUS
    <3> DEFINE op == Op("remote", remote + 1)
    <3>1. remote + 1 \in Nat /\ remote + 1 <= MaxOffers
        BY <1>1, <1>3, <2>1, Numbers
    <3>2. op \in Ops /\ op.name = "remote" /\ op.n = remote + 1
        BY <1>5, <3>1
    <3> HIDE DEF op
    <3>3. Todo(op)
        BY <1>1, <1>3, <2>1, <3>2, Numbers DEF Todo
    <3>4. h.n < op.n
        BY <1>4, <1>6, <3>2, <3>3 DEF Prec
    <3> QED
        BY <1>1, <1>3, <2>1, <3>2, <3>4, Numbers
  <2>3. remote = Created
    <3> SUFFICES ASSUME remote # Created PROVE FALSE
        OBVIOUS
    <3> DEFINE op == Op("answer", Created + 1)
    <3>1. remote = Created + 1 /\ Created + 1 <= Asked
        BY <1>1, <2>1, <2>2, Numbers DEF Counts
    <3>2. Created + 1 \in Nat /\ Created + 1 <= MaxOffers
        BY <1>1, <3>1, Numbers
    <3>3. op \in Ops /\ op.name = "answer" /\ op.n = Created + 1
        BY <1>5, <3>2
    <3> HIDE DEF op
    <3>4. Todo(op)
        BY <1>1, <3>1, <3>3, Numbers DEF Todo
    <3>5. h.n <= op.n
        BY <1>4, <1>6, <3>3, <3>4 DEF Prec
    <3> QED
        BY <1>1, <2>2, <3>1, <3>3, <3>5, Numbers
  <2> QED
      BY <2>2, <2>3
<1>7. ASSUME h.name = "answer" PROVE h.n = Created + 1 /\ remote = Created + 1
  <2>1. Created < h.n /\ h.n <= Asked
      BY <1>3, <1>7 DEF Todo
  <2>2. Created + 1 \in Nat /\ Created + 1 <= MaxOffers /\ Created + 1 <= Asked
      BY <1>1, <1>3, <2>1, Numbers
  <2>3. h.n = Created + 1
    <3> SUFFICES ASSUME h.n # Created + 1 PROVE FALSE
        OBVIOUS
    <3> DEFINE op == Op("answer", Created + 1)
    <3>1. op \in Ops /\ op.name = "answer" /\ op.n = Created + 1
        BY <1>5, <2>2
    <3> HIDE DEF op
    <3>2. Todo(op)
        BY <1>1, <2>2, <3>1, Numbers DEF Todo
    <3>3. h.n < op.n
        BY <1>4, <1>7, <3>1, <3>2 DEF Prec
    <3> QED
        BY <1>1, <1>3, <2>1, <3>1, <3>3, Numbers
  <2>4. remote = Created + 1
    <3> SUFFICES ASSUME remote # Created + 1 PROVE FALSE
        OBVIOUS
    <3> DEFINE op == Op("remote", Created + 1)
    <3>1. op \in Ops /\ op.name = "remote" /\ op.n = Created + 1
        BY <1>5, <2>2
    <3> HIDE DEF op
    <3>2. remote = Created
        BY <1>1 DEF Counts
    <3>3. Todo(op)
        BY <1>1, <2>2, <3>1, <3>2, Numbers DEF Todo
    <3>4. h.n < op.n
        BY <1>4, <1>7, <3>1, <3>3 DEF Prec
    <3> QED
        BY <1>1, <2>3, <3>1, <3>4, Numbers
  <2> QED
      BY <2>3, <2>4
<1>8. ASSUME h.name = "local" PROVE h.n = local + 1
  <2>1. local < h.n /\ h.n <= Len(sent)
      BY <1>3, <1>8 DEF Todo
  <2> SUFFICES ASSUME h.n # local + 1 PROVE FALSE
      OBVIOUS
  <2> DEFINE op == Op("local", local + 1)
  <2>2. local + 1 \in Nat /\ local + 1 <= MaxOffers
      BY <1>1, <1>3, <2>1, Numbers
  <2>3. op \in Ops /\ op.name = "local" /\ op.n = local + 1
      BY <1>5, <2>2
  <2> HIDE DEF op
  <2>4. Todo(op)
      BY <1>1, <1>3, <2>1, <2>3, Numbers DEF Todo
  <2>5. h.n < op.n
      BY <1>4, <1>8, <2>3, <2>4 DEF Prec
  <2> QED
      BY <1>1, <1>3, <2>1, <2>3, <2>5, Numbers
<1> QED
    BY <1>3, <1>6, <1>7, <1>8 DEF h

\* Completing the first operation leaves the others to be done, in their order.
LEMMA Completed ==
    ASSUME TypeOK, Flow, chain # <<>>, chain' = Tail(chain),
           \A op \in Ops : Todo(op)' <=> Todo(op) /\ op # Head(chain)
    PROVE  Ordered(chain)' /\ Range(chain') = Pending'
<1>1. Ordered(Tail(chain)) /\ Range(Tail(chain)) = Range(chain) \ {Head(chain)}
    BY OrderedTail DEF TypeOK, Flow
<1>2. Range(chain) = Pending
    BY DEF Flow
<1>3. Pending' = Pending \ {Head(chain)}
    BY Zenon DEF Pending
<1> QED
    BY <1>1, <1>2, <1>3

\* Chaining an operation that is to be done from now on and that the others
\* precede.
LEMMA Chained ==
    ASSUME TypeOK, Flow, NEW new \in Ops, chain' = Append(chain, new),
           \A op \in Ops : Todo(op)' <=> Todo(op) \/ op = new,
           \A op \in Ops : Todo(op) => Prec(op, new)
    PROVE  Ordered(chain)' /\ Range(chain') = Pending'
<1>1. Range(chain) = Pending /\ \A op \in Range(chain) : Prec(op, new)
    BY DEF Flow, Pending
<1>2. Ordered(Append(chain, new)) /\ Range(Append(chain, new)) = Range(chain) \cup {new}
    BY <1>1, OrderedAppend DEF TypeOK, Flow
<1>3. Pending' = Pending \cup {new}
    BY Zenon DEF Pending
<1> QED
    BY <1>1, <1>2, <1>3

\* The steps of the chain, as long as nothing fails.
LEMMA ChainSteps ==
    ASSUME TypeOK, Flow, overlapped => Doomed, ~trouble, ~trouble',
           SetRemote \/ StartAnswer \/ SetLocal \/ AnswerCreated
    PROVE  Flow' /\ (overlapped' => Doomed')
<1> DEFINE h == Head(chain)
<1>1. Counts /\ Ordered(chain) /\ Range(chain) = Pending /\ chain \in Seq(Ops)
    BY DEF Flow, TypeOK
<1>2. chain # <<>>
    BY DEF SetRemote, StartAnswer, SetLocal, AnswerCreated, Start, Settled, TypeOK
<1>3. /\ h \in Ops /\ h.n \in Nat /\ h = Op(h.name, h.n)
      /\ h.name = "remote" => h.n = remote + 1 /\ remote = Created
      /\ h.name = "answer" => h.n = Created + 1 /\ remote = Created + 1
      /\ h.name = "local" => h.n = local + 1
      /\ Todo(h)
    BY <1>2, HeadIsNext, OpTypes
<1>4. /\ received \in Nat /\ remote \in Nat /\ local \in Nat /\ making \in Nat
      /\ Len(sent) \in Nat /\ Created \in Nat /\ Asked \in Nat /\ Have \in {0, 1}
      /\ Len(sent) <= Created /\ Asked <= received
    BY <1>1, Numbers
<1>5. \A op \in Ops : op.n \in Nat /\ (op.name = h.name /\ op.n = h.n <=> op = h)
    BY <1>3, OpTypes
<1> HIDE DEF h
<1>6. CASE SetRemote
  <2>1. /\ h.name = "remote" /\ chain' = Tail(chain) /\ ~running /\ ~running'
        /\ sig' = "kHaveRemoteOffer" /\ remote' = h.n
        /\ UNCHANGED <<local, sent, deliver, received, worker, overlapped, making>>
      BY <1>6 DEF SetRemote, Start, Settled, h
  <2>2. UNCHANGED <<Created, Asked>> /\ Have' = 1 /\ remote' = remote + 1 /\ remote = Created
      BY <1>3, <2>1 DEF Created, Asked, Have
  <2>3. remote + 1 <= received
      BY <1>3, <2>1 DEF Todo
  <2>4. Counts'
      BY <1>1, <1>4, <2>1, <2>2, <2>3 DEF Counts
  <2>5. \A op \in Ops : Todo(op)' <=> Todo(op) /\ op # h
      BY <1>3, <1>4, <1>5, <2>1, <2>2 DEF Todo
  <2>6. Ordered(chain)' /\ Range(chain') = Pending'
      BY <1>2, <2>1, <2>5, Completed DEF h
  <2>7. ASSUME overlapped PROVE Doomed'
    <3>1. CASE local + Have < remote
        BY <1>4, <2>1, <2>2, <3>1 DEF Doomed
    <3>2. CASE Late(chain, local) /\ local + 1 < h.n
        BY <1>4, <2>1, <2>2, <3>2 DEF Doomed
    <3>3. CASE Late(chain, local) /\ ~(local + 1 < h.n)
      <4>1. Late(Tail(chain), local)
          BY <1>1, <1>2, <1>4, <3>3, LateTail DEF h
      <4> QED
          BY <2>1, <4>1 DEF Doomed
    <3> QED
        BY <2>7, <3>1, <3>2, <3>3 DEF Doomed
  <2> QED
      BY <2>1, <2>4, <2>6, <2>7 DEF Flow
<1>7. CASE StartAnswer
  <2>1. /\ h.name = "answer" /\ running' /\ UNCHANGED chain
        /\ making' = IF sig = "kHaveRemoteOffer" THEN remote ELSE 0
        /\ UNCHANGED <<sig, remote, local, sent, deliver, received, worker, overlapped>>
      BY <1>7 DEF StartAnswer, Start, h
  <2>2. UNCHANGED <<Created, Asked, Have>> /\ making' \in {0, Created + 1}
      BY <1>3, <2>1 DEF Created, Asked, Have
  <2>3. Head(chain').name = "answer"
      BY <2>1 DEF h
  <2>4. Counts'
      BY <1>1, <2>1, <2>2, <2>3 DEF Counts
  <2>5. Pending' = Pending
      BY <2>1, <2>2 DEF Pending, Todo
  <2>6. overlapped => Doomed'
      BY <2>1, <2>2 DEF Doomed
  <2> QED
      BY <1>1, <2>1, <2>4, <2>5, <2>6 DEF Flow
<1>8. CASE SetLocal
  <2>1. /\ h.name = "local" /\ chain' = Tail(chain) /\ ~running /\ ~running'
        /\ sig = "kHaveRemoteOffer" /\ sig' = "kStable" /\ local' = h.n
        /\ UNCHANGED <<remote, sent, deliver, received, worker, overlapped, making>>
      BY <1>8 DEF SetLocal, Start, Settled, h
  <2>2. UNCHANGED <<Created, Asked>> /\ Have = 1 /\ Have' = 0 /\ local' = local + 1
      BY <1>3, <2>1 DEF Created, Asked, Have
  <2>3. local + 1 <= Len(sent)
      BY <1>3, <2>1 DEF Todo
  <2>4. Counts'
      BY <1>1, <1>4, <2>1, <2>2, <2>3 DEF Counts
  <2>5. \A op \in Ops : Todo(op)' <=> Todo(op) /\ op # h
      BY <1>3, <1>4, <1>5, <2>1, <2>2 DEF Todo
  <2>6. Ordered(chain)' /\ Range(chain') = Pending'
      BY <1>2, <2>1, <2>5, Completed DEF h
  <2>7. ASSUME overlapped PROVE Doomed'
    <3>1. CASE local + Have < remote
        BY <1>4, <2>1, <2>2, <3>1 DEF Doomed
    <3>2. CASE Late(chain, local)
      <4>1. Late(Tail(chain), local + 1)
          BY <1>1, <1>2, <1>3, <1>4, <2>1, <3>2, LateTail DEF h
      <4> QED
          BY <2>1, <2>2, <4>1 DEF Doomed
    <3> QED
        BY <2>7, <3>1, <3>2 DEF Doomed
  <2> QED
      BY <2>1, <2>4, <2>6, <2>7 DEF Flow
<1>9. CASE AnswerCreated
  <2>1. /\ running /\ ~running' /\ deliver = NoResult /\ chain' = Tail(chain)
        /\ making # 0 /\ deliver' = [ok |-> TRUE, n |-> making]
        /\ UNCHANGED <<sig, remote, local, sent, received, worker, overlapped>>
      BY <1>9 DEF AnswerCreated
  <2>2. h.name = "answer" /\ making = Created + 1
      BY <1>1, <2>1 DEF Counts, h
  <2>3. Created = Len(sent) /\ Created' = Created + 1 /\ UNCHANGED <<Asked, Have>>
    <3>1. ~deliver.ok /\ deliver'.ok
        BY <2>1 DEF NoResult
    <3>2. Created = Len(sent) + 0 /\ Created' = Len(sent) + 1
        BY <2>1, <3>1, Zenon DEF Created
    <3> QED
        BY <1>4, <2>1, <3>2 DEF Asked, Have
  <2>4. Created + 1 <= Asked /\ remote = Created + 1
      BY <1>3, <2>2 DEF Todo
  <2>5. deliver' = [ok |-> TRUE, n |-> Len(sent') + 1]
      BY <2>1, <2>2, <2>3
  <2>6. Counts'
      BY <1>1, <1>4, <2>1, <2>3, <2>4, <2>5, Zenon DEF Counts
  <2>7. \A op \in Ops : Todo(op)' <=> Todo(op) /\ op # h
      BY <1>3, <1>4, <1>5, <2>1, <2>2, <2>3 DEF Todo
  <2>8. Ordered(chain)' /\ Range(chain') = Pending'
      BY <1>2, <2>1, <2>7, Completed DEF h
  <2>9. ASSUME overlapped PROVE Doomed'
    <3>1. CASE local + Have < remote
        BY <2>1, <2>3, <3>1 DEF Doomed
    <3>2. CASE Late(chain, local)
      <4>1. Late(Tail(chain), local)
          BY <1>1, <1>2, <1>4, <2>2, <3>2, LateTail DEF h
      <4> QED
          BY <2>1, <4>1 DEF Doomed
    <3> QED
        BY <2>9, <3>1, <3>2 DEF Doomed
  <2> QED
      BY <2>1, <2>6, <2>8, <2>9 DEF Flow
<1> QED
    BY <1>6, <1>7, <1>8, <1>9

\* The steps of the application, as long as nothing fails.  An offer that comes
\* before the one before it is done finds its answer being made, so that it is
\* late.
LEMMA ApplicationSteps ==
    ASSUME TypeOK, Flow, overlapped => Doomed, ~trouble, ~trouble',
           OnReceiveOffer \/ CreateAnswer \/ OnSdpCreateSuccess
    PROVE  Flow' /\ (overlapped' => Doomed')
<1>1. Counts /\ Ordered(chain) /\ Range(chain) = Pending /\ chain \in Seq(Ops)
    BY DEF Flow, TypeOK
<1>2. /\ received \in Nat /\ remote \in Nat /\ local \in Nat /\ making \in Nat
      /\ Len(sent) \in Nat /\ Created \in Nat /\ Asked \in Nat /\ Have \in {0, 1}
      /\ Len(sent) <= Created /\ Asked <= received /\ received <= Asked + 1
      /\ MaxOffers \in Nat /\ received <= MaxOffers
    BY <1>1, Numbers
<1>3. \A op \in Ops : op.n \in Nat /\ op = Op(op.name, op.n)
    BY OpTypes
<1>4. ASSUME NEW k \in Nat, k <= MaxOffers, NEW name \in {"remote", "answer", "local"}
      PROVE  Op(name, k) \in Ops /\ Op(name, k).name = name /\ Op(name, k).n = k
    BY <1>2, <1>4 DEF Op, Ops, Offers
\* The head of the chain stays when an operation is added.
<1>5. ASSUME NEW op, chain' = Append(chain, op), running
      PROVE  Head(chain') = Head(chain)
    BY <1>1, <1>5 DEF TypeOK
<1>6. CASE OnReceiveOffer
  <2> DEFINE new == Op("remote", received + 1)
  <2>1. /\ worker = "idle" /\ worker' = "set" /\ received' = received + 1
        /\ received < MaxOffers /\ chain' = Append(chain, new)
        /\ deliver = NoResult /\ (chain = <<>> \/ running)
        /\ overlapped' = (overlapped \/ ~Done)
        /\ UNCHANGED <<running, making, deliver, sig, remote, local, sent>>
      BY <1>6 DEF OnReceiveOffer, Free, Settled, Chain
  <2>2. new \in Ops /\ new.name = "remote" /\ new.n = received + 1
      BY <1>2, <1>4, <2>1
  <2>3. UNCHANGED <<Created, Have>> /\ Asked = received /\ Asked' = Asked
      BY <1>2, <2>1 DEF Created, Asked, Have
  <2>4. \A op \in Ops : op = new <=> op.name = "remote" /\ op.n = received + 1
      BY <1>3, <2>2
  <2> HIDE DEF new
  <2>5. Counts'
      BY <1>1, <1>2, <1>5, <2>1, <2>3 DEF Counts
  <2>6. \A op \in Ops : Todo(op)' <=> Todo(op) \/ op = new
      BY <1>1, <1>2, <1>3, <2>1, <2>3, <2>4 DEF Todo, Counts
  <2>7. \A op \in Ops : Todo(op) => Prec(op, new)
      BY <1>2, <1>3, <2>2, <2>3 DEF Todo, Prec
  <2>8. Ordered(chain)' /\ Range(chain') = Pending'
      BY <2>1, <2>2, <2>6, <2>7, Chained
  <2>9. ASSUME overlapped' PROVE Doomed'
    <3>1. CASE overlapped /\ local + Have < remote
        BY <2>1, <2>3, <3>1 DEF Doomed
    <3>2. CASE overlapped /\ Late(chain, local)
        BY <1>1, <1>2, <2>1, <2>2, <3>2, LateAppend DEF Doomed
    <3>3. CASE ~Done
      <4>1. running /\ chain # <<>>
          BY <2>1, <3>3 DEF Done
      <4>2. Head(chain).name = "answer"
          BY <1>1, <4>1 DEF Counts
      <4>3. Todo(Head(chain)) /\ Head(chain).n \in Nat
          BY <1>3, <4>1, HeadIsNext
      <4>4. Created < received
          BY <1>2, <2>3, <4>2, <4>3 DEF Todo
      <4>5. \A op \in Range(chain) : op.n \in Nat /\ (op.name = "local" => op.n <= Len(sent))
          BY <1>1, <1>3 DEF Pending, Todo
      <4>6. \A op \in Range(chain) : ~(op.name = "local" /\ op.n + 1 = new.n)
          BY <1>2, <2>2, <4>4, <4>5
      <4>7. local + 1 < new.n
          BY <1>1, <1>2, <2>2, <4>4 DEF Counts
      <4>8. Late(Append(chain, new), local)
          BY <1>1, <1>2, <2>2, <4>6, <4>7, LateLast
      <4> QED
          BY <2>1, <4>8 DEF Doomed
    <3> QED
        BY <2>1, <2>9, <3>1, <3>2, <3>3, Zenon DEF Doomed
  <2> QED
      BY <2>5, <2>8, <2>9 DEF Flow
<1>7. CASE CreateAnswer
  <2> DEFINE new == Op("answer", received)
  <2>1. /\ worker = "set" /\ worker' = "idle" /\ chain' = Append(chain, new)
        /\ UNCHANGED <<received, running, making, deliver, sig, remote, local, sent, overlapped>>
      BY <1>7 DEF CreateAnswer, Chain, historyVars
  <2>2. new \in Ops /\ new.name = "answer" /\ new.n = received
      BY <1>2, <1>4
  <2>3. /\ UNCHANGED <<Created, Have>> /\ Asked = received - 1 /\ Asked' = received
        /\ received > 0
      BY <1>1, <1>2, <2>1 DEF Created, Asked, Have, Counts
  <2>4. \A op \in Ops : op = new <=> op.name = "answer" /\ op.n = received
      BY <1>3, <2>2
  <2> HIDE DEF new
  <2>5. Counts'
      BY <1>1, <1>2, <1>5, <2>1, <2>3 DEF Counts
  <2>6. \A op \in Ops : Todo(op)' <=> Todo(op) \/ op = new
      BY <1>1, <1>2, <1>3, <2>1, <2>3, <2>4 DEF Todo, Counts
  <2>7. \A op \in Ops : Todo(op) => Prec(op, new)
      BY <1>2, <1>3, <2>2, <2>3 DEF Todo, Prec
  <2>8. Ordered(chain)' /\ Range(chain') = Pending'
      BY <2>1, <2>2, <2>6, <2>7, Chained
  <2>9. overlapped' => Doomed'
      BY <1>1, <1>2, <2>1, <2>2, <2>3, LateAppend DEF Doomed
  <2> QED
      BY <2>5, <2>8, <2>9 DEF Flow
<1>8. CASE OnSdpCreateSuccess
  <2> DEFINE new == Op("local", Len(sent) + 1)
  <2>1. deliver = [ok |-> TRUE, n |-> Len(sent) + 1]
      BY <1>1, <1>8 DEF OnSdpCreateSuccess, Counts, NoResult
  <2>2. /\ deliver' = NoResult /\ chain' = Append(chain, new)
        /\ sent' = Append(sent, Len(sent) + 1)
        /\ UNCHANGED <<received, worker, running, making, sig, remote, local, overlapped>>
      BY <1>8, <2>1 DEF OnSdpCreateSuccess, SetLocalDescription, SendAnswer, Chain
  <2>3. Len(sent') = Len(sent) + 1
      BY <1>2, <2>2 DEF TypeOK
  <2>4. /\ UNCHANGED <<Created, Asked, Have>> /\ Created = Len(sent) + 1
      BY <1>2, <2>1, <2>2, <2>3 DEF Created, Asked, Have, NoResult
  <2>5. new \in Ops /\ new.name = "local" /\ new.n = Len(sent) + 1
      BY <1>1, <1>2, <1>4, <2>4 DEF Counts
  <2>6. \A op \in Ops : op = new <=> op.name = "local" /\ op.n = Len(sent) + 1
      BY <1>3, <2>5
  <2>7. sent' = UpTo(Len(sent'))
    <3>1. Len(sent) + 1 \in Nat /\ Len(sent) + 1 > 0 /\ (Len(sent) + 1) - 1 = Len(sent)
        BY <1>2
    <3>2. Append(UpTo(Len(sent)), Len(sent) + 1) = UpTo(Len(sent) + 1)
        BY <3>1, UpToNext, Zenon
    <3> QED
        BY <1>1, <2>2, <2>3, <3>2 DEF Counts
  <2> HIDE DEF new
  <2>8. Counts'
      BY <1>1, <1>2, <1>5, <2>2, <2>3, <2>4, <2>7 DEF Counts
  <2>9. \A op \in Ops : Todo(op)' <=> Todo(op) \/ op = new
      BY <1>1, <1>2, <1>3, <2>2, <2>3, <2>4, <2>6 DEF Todo, Counts
  <2>10. \A op \in Ops : Todo(op) => Prec(op, new)
      BY <1>2, <1>3, <2>5 DEF Todo, Prec
  <2>11. Ordered(chain)' /\ Range(chain') = Pending'
      BY <2>2, <2>5, <2>9, <2>10, Chained
  <2>12. overlapped' => Doomed'
      BY <1>1, <1>2, <2>2, <2>4, <2>5, LateAppend DEF Doomed
  <2> QED
      BY <2>8, <2>11, <2>12 DEF Flow
<1> QED
    BY <1>6, <1>7, <1>8

\* Inv is inductive; a failure is remembered.
LEMMA NextInv == TypeOK /\ Inv /\ [Next]_vars => Inv'
<1> SUFFICES ASSUME TypeOK, Inv, [Next]_vars, ~trouble'
             PROVE  Flow' /\ (overlapped' => Doomed')
    BY DEF Inv
<1>1. ~trouble
    BY Zenon DEF Next, vars, historyVars, SetRemote, StartAnswer, SetLocal, AnswerCreated,
       OnReceiveOffer, CreateAnswer, OnSdpCreateSuccess, OnConnectionChange, Start
<1>2. Flow /\ (overlapped => Doomed)
    BY <1>1 DEF Inv
<1>3. CASE UNCHANGED <<received, worker, negotiationVars, sent, historyVars>>
    BY <1>2, <1>3 DEF negotiationVars, historyVars, Flow, Counts, Pending, Todo, Created,
       Asked, Have, Doomed
<1>4. CASE \E state \in States : OnConnectionChange(state)
    BY <1>3, <1>4 DEF OnConnectionChange
<1>5. CASE UNCHANGED vars
    BY <1>3, <1>5 DEF vars
<1> QED
    BY <1>1, <1>2, <1>4, <1>5, ChainSteps, ApplicationSteps DEF Next

\* The connection that CreatePeerConnection made has nothing to do.
LEMMA InitInv == Init => Inv
<1> SUFFICES ASSUME Init PROVE Flow /\ ~overlapped
    BY DEF Inv
<1>1. UpTo(0) = <<>>
  <2>1. UpTo(0) \in Seq(Nat) /\ Len(UpTo(0)) = 0
      BY DEF UpTo
  <2> QED
      BY <2>1, EmptySeq
<1>2. /\ chain = <<>> /\ sent = <<>> /\ Len(sent) = 0 /\ Len(chain) = 0
      /\ remote = 0 /\ local = 0 /\ received = 0
      /\ ~running /\ deliver = NoResult /\ worker = "idle" /\ sig = "kStable" /\ ~overlapped
    BY DEF Init
<1>3. Created = 0 /\ Asked = 0 /\ Have = 0
    BY <1>2 DEF Created, Asked, Have, NoResult
<1>4. Counts
    BY <1>1, <1>2, <1>3 DEF Counts
<1>5. Ordered(chain)
    BY <1>2 DEF Ordered
<1>6. Range(chain) = {}
    BY <1>2 DEF Range
<1>7. \A op \in Ops : ~Todo(op)
    BY <1>2, <1>3, OpTypes DEF Todo
<1>8. Pending = {}
    BY <1>7 DEF Pending
<1> QED
    BY <1>2, <1>4, <1>5, <1>6, <1>8 DEF Flow

\* Whatever the number of offers and however they overlap: if no operation has
\* failed when the negotiation is over, both descriptions are those of the last
\* offer, the answers were sent in the order of the offers, and no two offers
\* have overlapped.
THEOREM DescriptionsAlwaysAgree == Spec => []DescriptionsAgree
<1>1. TypeOK /\ Inv => DescriptionsAgree
  <2> SUFFICES ASSUME TypeOK, Inv, Done, ~trouble
               PROVE  /\ ~overlapped /\ sig = "kStable"
                      /\ remote = received /\ local = received /\ sent = UpTo(received)
      BY DEF DescriptionsAgree, UpTo
  <2>1. Flow /\ Counts /\ (overlapped => Doomed)
      BY DEF Inv, Flow
  <2>2. worker = "idle" /\ chain = <<>> /\ deliver = NoResult
      BY DEF Done
  <2>3. /\ received \in Nat /\ remote \in Nat /\ local \in Nat
        /\ Len(sent) \in Nat /\ Have \in {0, 1} /\ MaxOffers \in Nat /\ received <= MaxOffers
      BY <2>1, Numbers
  <2>4. Created = Len(sent) /\ Asked = received
    <3>1. ~deliver.ok
        BY <2>2 DEF NoResult
    <3>2. Created = Len(sent) + 0
        BY <3>1, Zenon DEF Created
    <3> QED
        BY <2>2, <2>3, <3>2 DEF Asked
  <2>5. Range(chain) = {}
      BY <2>2 DEF Range
  <2>6. \A op \in Ops : ~Todo(op)
      BY <2>1, <2>5 DEF Flow, Pending
  <2>7. ASSUME NEW name \in {"remote", "answer", "local"}, NEW k \in Nat, k <= MaxOffers
        PROVE  Op(name, k) \in Ops /\ Op(name, k).name = name /\ Op(name, k).n = k
      BY <2>3, <2>7 DEF Op, Ops, Offers
  <2>8. remote = received
    <3> SUFFICES ASSUME remote < received PROVE FALSE
        BY <2>1, <2>3 DEF Counts
    <3> DEFINE op == Op("remote", received)
    <3>1. op \in Ops /\ op.name = "remote" /\ op.n = received
        BY <2>3, <2>7
    <3> HIDE DEF op
    <3> QED
        BY <2>3, <2>6, <3>1 DEF Todo
  <2>9. Len(sent) = received
    <3> SUFFICES ASSUME Len(sent) < received PROVE FALSE
        BY <2>1, <2>3, <2>4 DEF Counts
    <3> DEFINE op == Op("answer", received)
    <3>1. op \in Ops /\ op.name = "answer" /\ op.n = received
        BY <2>3, <2>7
    <3> HIDE DEF op
    <3> QED
        BY <2>3, <2>4, <2>6, <3>1 DEF Todo
  <2>10. local = received
    <3> SUFFICES ASSUME local < received PROVE FALSE
        BY <2>1, <2>3, <2>9 DEF Counts
    <3> DEFINE op == Op("local", received)
    <3>1. op \in Ops /\ op.name = "local" /\ op.n = received
        BY <2>3, <2>7
    <3> HIDE DEF op
    <3> QED
        BY <2>3, <2>6, <2>9, <3>1 DEF Todo
  <2>11. Have = 0
      BY <2>1, <2>3, <2>8, <2>10 DEF Counts
  <2>12. ~Late(chain, local)
    <3>1. Len(chain) = 0
        BY <2>2
    <3> QED
        BY <3>1 DEF Late
  <2>13. ~overlapped
      BY <2>1, <2>3, <2>8, <2>10, <2>11, <2>12 DEF Doomed
  <2>14. sig = "kStable"
      BY <2>11 DEF Have, TypeOK
  <2>15. sent = UpTo(received)
      BY <2>1, <2>9 DEF Counts
  <2> QED
      BY <2>8, <2>10, <2>13, <2>14, <2>15
<1> QED
    BY <1>1, InitInv, NextInv, TypeCorrect, PTL DEF Spec
=============================================================================
