--------------------------- MODULE HttpUrlProofs ---------------------------
(***************************************************************************)
(* Parsing and writing URLs, for texts of any length.                      *)
(***************************************************************************)
EXTENDS HttpUrl, TLAPS, FiniteSetTheorems

-----------------------------------------------------------------------------
(* Sequences.                                                              *)

Grouped(s, t, u) == (s \o t) \o u = s \o (t \o u)

LEMMA ConcatAssociative ==
    ASSUME NEW S, NEW s \in Seq(S), NEW t \in Seq(S), NEW u \in Seq(S)
    PROVE  Grouped(s, t, u)
BY DEF Grouped

-----------------------------------------------------------------------------
(* Induction.                                                              *)

Below == {p \in Nat \X Nat : p[1] < p[2]}

LEMMA LeastNumber ==
    ASSUME NEW T, T \subseteq Nat, T # {}
    PROVE  \E n \in T : \A m \in T : n <= m
<1>1. IsWellFoundedOn(Below, Nat)
    BY NatLessThanWellFounded DEF OpToRel, Below
<1>2. PICK x \in T : \A y \in T : ~ (<<y, x>> \in Below)
    BY <1>1, WFMin, Zenon
<1>3. ASSUME NEW y \in T PROVE x <= y
  <2>1. <<y, x>> \in Nat \X Nat /\ <<y, x>> \notin Below
      BY <1>2
  <2> QED
      BY <2>1 DEF Below
<1> QED
    BY <1>3

\* What holds of 0 and of the successor of each number below m holds up to m,
\* the property being the set of the numbers that have it.
LEMMA Induction ==
    ASSUME NEW S, NEW m \in Nat, 0 \in S, \A n \in 0 .. m - 1 : n \in S => n + 1 \in S
    PROVE  0 .. m \subseteq S
<1> DEFINE T == {n \in Nat : n <= m /\ n \notin S}
<1> SUFFICES ASSUME T # {} PROVE FALSE
    OBVIOUS
<1>1. PICK n \in T : \A k \in T : n <= k
    BY LeastNumber, Zenon
<1>2. n \in Nat /\ n <= m /\ n \notin S
    OBVIOUS
<1>3. n # 0 /\ n - 1 \in 0 .. m - 1
    OBVIOUS
<1>4. n - 1 \in S
    BY <1>1
<1> QED
    BY <1>2, <1>3, <1>4

-----------------------------------------------------------------------------
(* Folds.                                                                  *)

LEMMA MaxFacts ==
    ASSUME NEW N \in Nat, NEW s \in SUBSET (1 .. N), s # {}
    PROVE  Max(s) \in s /\ \A k \in s : k <= Max(s)
<1> DEFINE T == {n \in Nat : N - n \in s}
<1>1. PICK x \in s : TRUE
    BY Zenon
<1>2. N - x \in T
    OBVIOUS
<1>3. PICK n \in T : \A m \in T : n <= m
    BY <1>2, LeastNumber, Zenon
<1>5. N - n \in s /\ \A k \in s : N - n >= k
    BY <1>3
<1> QED
    BY <1>5, Zenon DEF Max

\* The largest element of an initial interval.
LEMMA MaxOfInterval ==
    ASSUME NEW n \in Nat, n > 0
    PROVE  Max(1 .. n) = n /\ (1 .. n) \ {Max(1 .. n)} = 1 .. n - 1
<1>1. Max(1 .. n) \in 1 .. n /\ \A k \in 1 .. n : k <= Max(1 .. n)
    BY MaxFacts, 1 \in 1 .. n, Zenon
<1> QED
    BY <1>1

\* f and g agree on a set when they agree on the set without its largest element.
AgreeUp(N, f, g) ==
    \A s \in SUBSET (1 .. N) :
        s # {} /\ f[s \ {Max(s)}] = g[s \ {Max(s)}] => f[s] = g[s]

Agree(N, f, g) == \A s \in SUBSET (1 .. N) : f[s] = g[s]

\* Two such functions that agree on the empty set are the same.
LEMMA SameFold ==
    ASSUME NEW N \in Nat, NEW f, NEW g, f[{}] = g[{}], AgreeUp(N, f, g)
    PROVE  Agree(N, f, g)
<1> SUFFICES \A s \in SUBSET (1 .. N) : f[s] = g[s]
    BY DEF Agree
<1> DEFINE Same == {n \in Nat : \A s \in SUBSET (1 .. N) : s \subseteq 1 .. n => f[s] = g[s]}
<1>1. 0 \in Same
  <2>1. 1 .. 0 = {}
      OBVIOUS
  <2> QED
      BY <2>1, Zenon
<1>2. ASSUME NEW n \in 0 .. N - 1, n \in Same PROVE n + 1 \in Same
  <2> SUFFICES ASSUME NEW s \in SUBSET (1 .. N), s \subseteq 1 .. n + 1, s # {}
               PROVE  f[s] = g[s]
      BY <1>2
  <2>1. Max(s) \in s /\ \A k \in s : k <= Max(s)
      BY MaxFacts, Zenon
  <2>2. ASSUME NEW k \in s \ {Max(s)} PROVE k \in 1 .. n
    <3>1. k <= Max(s) /\ k # Max(s) /\ Max(s) \in 1 .. n + 1 /\ k \in 1 .. n + 1
        BY <2>1, Zenon
    <3> QED
        BY <3>1
  <2>3. f[s \ {Max(s)}] = g[s \ {Max(s)}]
      BY <1>2, <2>2
  <2> QED
      BY <2>3 DEF AgreeUp
<1>3. 0 .. N \subseteq Same
    BY <1>1, <1>2, Induction, Zenon
<1>4. N \in Same
    BY <1>3
<1> QED
    BY <1>4

\* A step that takes the accumulated value and a position can be folded over the
\* positions, however many there are.
IsFold(n, a, G, f) ==
    /\ f[{}] = a
    /\ \A s \in SUBSET (1 .. n) : s # {} => f[s] = G[<<Max(s), f[s \ {Max(s)}]>>]

LEMMA FoldExists ==
    ASSUME NEW A, NEW N \in Nat, NEW a \in A, NEW G \in [(1 .. N) \X A -> A]
    PROVE  \E f \in [SUBSET (1 .. N) -> A] : IsFold(N, a, G, f)
<1> DEFINE Good == {n \in Nat : \E f \in [SUBSET (1 .. n) -> A] : IsFold(n, a, G, f)}
<1>1. 0 \in Good
  <2> DEFINE f == [s \in SUBSET (1 .. 0) |-> a]
  <2>2. f \in [SUBSET (1 .. 0) -> A] /\ f[{}] = a
      OBVIOUS
  <2>3. \A s \in SUBSET (1 .. 0) : s = {}
      OBVIOUS
  <2> QED
      BY <2>2, <2>3, Zenon DEF IsFold
<1>2. ASSUME NEW n \in 0 .. N - 1, n \in Good PROVE n + 1 \in Good
  <2>1. PICK f \in [SUBSET (1 .. n) -> A] : IsFold(n, a, G, f)
      BY <1>2, Zenon
  <2> DEFINE g == [s \in SUBSET (1 .. n + 1) |->
                     IF n + 1 \in s THEN G[<<n + 1, f[s \ {n + 1}]>>] ELSE f[s]]
  <2>2. n + 1 \in 1 .. N /\ n + 1 \in Nat /\ n \in Nat
      OBVIOUS
  <2>3. ASSUME NEW s \in SUBSET (1 .. n + 1)
        PROVE  s \ {n + 1} \in SUBSET (1 .. n) /\ (n + 1 \notin s => s \in SUBSET (1 .. n))
      OBVIOUS
  <2>5. g \in [SUBSET (1 .. n + 1) -> A]
    <3> QED
        OBVIOUS
  <2>6. \A s \in SUBSET (1 .. n) : g[s] = f[s]
      OBVIOUS
  <2>7. g[{}] = a
      BY <2>1 DEF IsFold
  <2>8. ASSUME NEW s \in SUBSET (1 .. n + 1), s # {}
        PROVE  g[s] = G[<<Max(s), g[s \ {Max(s)}]>>]
    <3>1. CASE n + 1 \in s
      <4>1. Max(s) \in s /\ \A k \in s : k <= Max(s)
          BY <2>2, <2>8, MaxFacts, Zenon
      <4>2. Max(s) \in 1 .. n + 1 /\ n + 1 <= Max(s)
          BY <3>1, <4>1, Zenon
      <4>3. Max(s) = n + 1
          BY <4>2
      <4> QED
          BY <2>3, <3>1, <4>3
    <3>2. CASE n + 1 \notin s
      <4>1. s \in SUBSET (1 .. n) /\ s \ {Max(s)} \in SUBSET (1 .. n)
          BY <2>3, <3>2, Zenon
      <4> QED
          BY <2>1, <2>6, <2>8, <4>1, Zenon DEF IsFold
    <3> QED
        BY <3>1, <3>2
  <2> QED
      BY <2>2, <2>5, <2>7, <2>8, Zenon DEF IsFold
<1> HIDE DEF Good
<1>3. 0 .. N \subseteq Good
    BY <1>1, <1>2, Induction
<1>4. N \in 0 .. N
    OBVIOUS
<1> QED
    BY <1>3, <1>4, Zenon DEF Good

\* What the definition of FoldLeft says of its function.
FoldsUp(A, n, a, G, it) ==
    /\ it[{}] = a
    /\ \A s \in SUBSET (1 .. n) :
          s # {} /\ it[s \ {Max(s)}] \in A => it[s] = G[<<Max(s), it[s \ {Max(s)}]>>]

\* The values after each position, up to the fold's.
AfterEach(n, a, G, end, F) ==
    /\ F[0] = a
    /\ \A k \in 1 .. n : F[k] = G[<<k, F[k - 1]>>]
    /\ end = F[n]

LEMMA FoldValue ==
    ASSUME NEW A, NEW N \in Nat, NEW a \in A, NEW G \in [(1 .. N) \X A -> A], NEW it,
           FoldsUp(A, N, a, G, it)
    PROVE  \E F \in [0 .. N -> A] : AfterEach(N, a, G, it[1 .. N], F)
<1>1. PICK f \in [SUBSET (1 .. N) -> A] : IsFold(N, a, G, f)
    BY FoldExists, Zenon
<1>2. ASSUME NEW s \in SUBSET (1 .. N), s # {}, it[s \ {Max(s)}] = f[s \ {Max(s)}]
      PROVE  it[s] = f[s]
  <2> QED
      BY <1>1, <1>2, Zenon DEF IsFold, FoldsUp
<1>3. \A s \in SUBSET (1 .. N) : it[s] = f[s]
  <2>1. it[{}] = f[{}]
      BY <1>1 DEF IsFold, FoldsUp
  <2>2. AgreeUp(N, it, f)
      BY <1>2 DEF AgreeUp
  <2>3. Agree(N, it, f)
      BY <2>1, <2>2, SameFold
  <2> QED
      BY <2>3 DEF Agree
<1> DEFINE F == [n \in 0 .. N |-> f[1 .. n]]
<1>4. \A n \in 0 .. N : 1 .. n \in SUBSET (1 .. N)
    OBVIOUS
<1>5. F \in [0 .. N -> A]
    OBVIOUS
<1>6. F[0] = a
  <2> QED
      BY <1>1 DEF IsFold
<1>7. ASSUME NEW n \in 1 .. N PROVE F[n] = G[<<n, F[n - 1]>>]
  <2>1. n \in Nat /\ n > 0 /\ n \in 0 .. N /\ n - 1 \in 0 .. N /\ 1 .. n # {}
      OBVIOUS
  <2>2. Max(1 .. n) = n /\ (1 .. n) \ {Max(1 .. n)} = 1 .. n - 1
      BY MaxOfInterval
  <2>3. f[1 .. n] = G[<<Max(1 .. n), f[(1 .. n) \ {Max(1 .. n)}]>>]
      BY <1>1, <1>4, <2>1, Zenon DEF IsFold
  <2> QED
      BY <2>1, <2>2, <2>3, Zenon
<1>9. it[1 .. N] = F[N]
    BY <1>3
<1> QED
    BY <1>5, <1>6, <1>7, <1>9, Zenon DEF AfterEach

LEMMA PushType ==
    ASSUME NEW U, NEW a \in Seq(U), NEW e \in U
    PROVE  Push(a, e) \in Seq(U)
<1>1. Pop(a) \in Seq(U)
  <2>1. CASE a = <<>>
      BY <2>1 DEF Pop
  <2>2. CASE a # <<>>
    <3>1. Front(a) \in Seq(U)
        BY DEF Front
    <3> QED
        BY <3>1 DEF Pop
  <2> QED
      BY <2>1, <2>2
<1> QED
    BY <1>1 DEF Push

\* The segments after each piece that AddEncodedPathSegments pushes.
PushesUp(a, q, F) ==
    /\ F[0] = a
    /\ \A n \in 1 .. Len(q) : F[n] = Push(F[n - 1], q[n])
    /\ FoldLeft(Push, a, q) = F[Len(q)]

LEMMA PushFold ==
    ASSUME NEW U, NEW a \in Seq(U), NEW q \in Seq(U)
    PROVE  \E F \in [0 .. Len(q) -> Seq(U)] : PushesUp(a, q, F)
<1> DEFINE N == Len(q)
           A == Seq(U)
           G == [p \in (1 .. N) \X A |-> Push(p[2], q[p[1]])]
           it == CHOOSE f : f = [s \in SUBSET DOMAIN q |->
                     IF s = {} THEN a ELSE Push(f[s \ {Max(s)}], q[Max(s)])]
<1>1. FoldLeft(Push, a, q) = it[DOMAIN q]
    BY DEF FoldLeft, MapThenFoldSet
<1>2. N \in Nat /\ DOMAIN q = 1 .. N /\ \A n \in 1 .. N : q[n] \in U
    OBVIOUS
<1>3. \A n \in 1 .. N, x \in A : G[<<n, x>>] = Push(x, q[n]) /\ Push(x, q[n]) \in A
    BY <1>2, PushType, Zenon
<1>4. G \in [(1 .. N) \X A -> A]
    BY <1>2, PushType
<1>5. PICK f \in [SUBSET (1 .. N) -> A] : IsFold(N, a, G, f)
    BY <1>2, <1>4, FoldExists, Zenon
<1>6. \A s \in SUBSET (1 .. N) : s # {} => Max(s) \in 1 .. N
    BY <1>2, MaxFacts, Zenon
<1> HIDE DEF N, A, G
<1>7. ASSUME NEW s \in SUBSET (1 .. N), s # {}
      PROVE  f[s] = Push(f[s \ {Max(s)}], q[Max(s)])
  <2> QED
      BY <1>3, <1>5, <1>6, <1>7, Zenon DEF IsFold
<1>8. f = [s \in SUBSET DOMAIN q |-> IF s = {} THEN a ELSE Push(f[s \ {Max(s)}], q[Max(s)])]
  <2> QED
      BY <1>2, <1>5, <1>7, Zenon DEF IsFold
<1>9. it = [s \in SUBSET DOMAIN q |-> IF s = {} THEN a ELSE Push(it[s \ {Max(s)}], q[Max(s)])]
    BY <1>8, Zenon
<1> HIDE DEF it
<1>10. it[{}] = a
    BY <1>9
<1>11. ASSUME NEW s \in SUBSET (1 .. N), s # {}, it[s \ {Max(s)}] \in A
       PROVE  it[s] = G[<<Max(s), it[s \ {Max(s)}]>>]
    BY <1>2, <1>3, <1>6, <1>9, <1>11, Zenon
<1>12. FoldsUp(A, N, a, G, it)
    BY <1>10, <1>11, Zenon DEF FoldsUp
<1>13. PICK F \in [0 .. N -> A] : AfterEach(N, a, G, it[1 .. N], F)
  <2>1. a \in A
      BY DEF A
  <2> QED
      BY <1>2, <1>4, <1>12, <2>1, FoldValue, Zenon
<1>14. ASSUME NEW n \in 1 .. N PROVE F[n] = Push(F[n - 1], q[n])
  <2>1. n - 1 \in 0 .. N
      BY <1>2
  <2>2. F[n - 1] \in A
      BY <2>1
  <2> QED
      BY <1>3, <1>13, <2>2, Zenon DEF AfterEach
<1> QED
    BY <1>1, <1>13, <1>14 DEF N, A, PushesUp, AfterEach

\* A step that takes the accumulated value and a position can be iterated.
LEMMA IterationExists ==
    ASSUME NEW A, NEW N \in Nat, NEW a \in A, NEW G \in [(1 .. N) \X A -> A]
    PROVE  \E F \in [0 .. N -> A] : AfterEach(N, a, G, F[N], F)
<1>1. PICK f \in [SUBSET (1 .. N) -> A] : IsFold(N, a, G, f)
    BY FoldExists, Zenon
<1>2. FoldsUp(A, N, a, G, f)
    BY <1>1 DEF IsFold, FoldsUp
<1>3. PICK F \in [0 .. N -> A] : AfterEach(N, a, G, f[1 .. N], F)
    BY <1>2, FoldValue, Zenon
<1>4. AfterEach(N, a, G, F[N], F)
    BY <1>3 DEF AfterEach
<1> QED
    BY <1>4

\* What FlattenSeq makes of the first texts of a sequence.
FlattensUp(q, F) ==
    /\ F[0] = <<>>
    /\ \A n \in 1 .. Len(q) : F[n] = F[n - 1] \o q[n]
    /\ FlattenSeq(q) = F[Len(q)]

LEMMA FlattenFold ==
    ASSUME NEW T, NEW q \in Seq(Seq(T))
    PROVE  \E F \in [0 .. Len(q) -> Seq(T)] : FlattensUp(q, F)
<1> DEFINE N == Len(q)
           A == Seq(T)
           G == [p \in (1 .. N) \X A |-> p[2] \o q[p[1]]]
           fl == CHOOSE f : f = [i \in 1 .. N |-> IF i = 1 THEN q[i] ELSE f[i - 1] \o q[i]]
<1>1. FlattenSeq(q) = IF N = 0 THEN q ELSE fl[N]
    BY DEF FlattenSeq
<1>2. N \in Nat /\ (\A n \in 1 .. N : q[n] \in A) /\ (N = 0 => q = <<>>)
    OBVIOUS
<1>4. \A n \in 1 .. N, x \in A : G[<<n, x>>] = x \o q[n]
    BY Zenon
<1>5. G \in [(1 .. N) \X A -> A]
    OBVIOUS
<1>6. <<>> \in A
    OBVIOUS
<1>7. \A x \in A : <<>> \o x = x
    OBVIOUS
<1> HIDE DEF N, A, G
<1>8. PICK F \in [0 .. N -> A] : AfterEach(N, <<>>, G, F[N], F)
    BY <1>2, <1>5, <1>6, IterationExists, Zenon
<1>9. ASSUME NEW n \in 1 .. N PROVE F[n] = F[n - 1] \o q[n]
  <2>1. n - 1 \in 0 .. N
      BY <1>2
  <2>2. F[n - 1] \in A
      BY <2>1, Zenon
  <2> QED
      BY <1>4, <1>8, <2>2, Zenon DEF AfterEach
<1>10. F[0] = <<>>
    BY <1>8 DEF AfterEach
<1> DEFINE h == [i \in 1 .. N |-> F[i]]
<1>11. h = [i \in 1 .. N |-> IF i = 1 THEN q[i] ELSE h[i - 1] \o q[i]]
  <2>1. ASSUME NEW i \in 1 .. N
        PROVE  F[i] = IF i = 1 THEN q[i] ELSE h[i - 1] \o q[i]
    <3>1. CASE i = 1
      <4>1. i - 1 = 0
          BY <3>1
      <4>2. F[i] = F[0] \o q[i]
          BY <1>9, <4>1, Zenon
      <4> QED
          BY <1>10, <3>1, <4>2
    <3>2. CASE i # 1
      <4>1. i - 1 \in 1 .. N
          BY <1>2, <3>2
      <4> QED
          BY <1>9, <3>2, <4>1, Zenon
    <3> QED
        BY <3>1, <3>2
  <2> QED
      BY <2>1
<1> HIDE DEF h
<1>12. fl = [i \in 1 .. N |-> IF i = 1 THEN q[i] ELSE fl[i - 1] \o q[i]]
    BY <1>11, Zenon
<1> HIDE DEF fl
<1> DEFINE S == {n \in Nat : n = 0 \/ fl[n] = F[n]}
<1>13. ASSUME NEW n \in 0 .. N - 1, n \in S PROVE n + 1 \in S
  <2> DEFINE m == n + 1
  <2>1. m \in 1 .. N /\ m \in Nat /\ m - 1 = n /\ (n = 0 <=> m = 1)
      BY <1>2
  <2> HIDE DEF m
  <2>2. fl[m] = IF m = 1 THEN q[m] ELSE fl[m - 1] \o q[m]
      BY <1>12, <2>1, Zenon
  <2>3. F[m] = F[n] \o q[m]
      BY <1>9, <2>1, Zenon
  <2> SUFFICES m \in S
      BY DEF m
  <2>4. CASE n = 0
      BY <1>2, <1>7, <1>10, <2>1, <2>2, <2>3, <2>4, Zenon
  <2>5. CASE n # 0
      BY <1>13, <2>1, <2>2, <2>3, <2>5, Zenon
  <2> QED
      BY <2>4, <2>5
<1>14. 0 \in S
    OBVIOUS
<1> HIDE DEF S
<1>15. 0 .. N \subseteq S
    BY <1>2, <1>13, <1>14, Induction, Zenon
<1>16. N \in 0 .. N
    BY <1>2
<1>17. FlattenSeq(q) = F[N]
  <2>1. CASE N = 0
      BY <1>1, <1>2, <1>10, <2>1
  <2>2. CASE N # 0
      BY <1>1, <1>15, <1>16, <2>2 DEF S
  <2> QED
      BY <2>1, <2>2
<1> QED
    BY <1>9, <1>10, <1>17, Zenon DEF N, A, FlattensUp

-----------------------------------------------------------------------------
(* Looking for a token.                                                    *)

LEMMA FindFacts ==
    ASSUME NEW T, NEW text \in Seq(T), NEW token
    PROVE  /\ Find(text, token) \in 0 .. Len(text)
           /\ Find(text, token) = 0 => \A i \in 1 .. Len(text) : text[i] # token
           /\ Find(text, token) # 0 =>
                 /\ text[Find(text, token)] = token
                 /\ \A i \in 1 .. Len(text) : text[i] = token => Find(text, token) <= i
<1> DEFINE places == {i \in 1 .. Len(text) : text[i] = token}
<1>1. Find(text, token) = IF places = {} THEN 0
                          ELSE CHOOSE i \in places : \A j \in places : i <= j
    BY DEF Find
<1>2. Len(text) \in Nat /\ places \subseteq Nat /\ 0 \notin places
    OBVIOUS
<1>3. CASE places = {}
  <2>1. Find(text, token) = 0
      BY <1>1, <1>3
  <2> QED
      BY <1>3, <2>1
<1>4. CASE places # {}
  <2>1. \E n \in places : \A m \in places : n <= m
      BY <1>2, <1>4, LeastNumber, Zenon
  <2>2. Find(text, token) \in places /\ \A j \in places : Find(text, token) <= j
      BY <1>1, <2>1, Zenon
  <2> QED
      BY <2>2
<1> QED
    BY <1>3, <1>4

\* Where a token is, when it is known not to be before that.
LEMMA FindIs ==
    ASSUME NEW T, NEW text \in Seq(T), NEW token, NEW n \in 1 .. Len(text),
           text[n] = token, \A i \in 1 .. n - 1 : text[i] # token
    PROVE  Find(text, token) = n
<1> DEFINE p == Find(text, token)
<1>1. /\ p \in 0 .. Len(text)
      /\ p = 0 => \A i \in 1 .. Len(text) : text[i] # token
      /\ p # 0 => /\ text[p] = token
                  /\ \A i \in 1 .. Len(text) : text[i] = token => p <= i
    BY FindFacts
<1> HIDE DEF p
<1> QED
    BY <1>1 DEF p

LEMMA FindNone ==
    ASSUME NEW T, NEW text \in Seq(T), NEW token, token \notin T
    PROVE  Find(text, token) = 0
<1> QED
    BY DEF Find

-----------------------------------------------------------------------------
(* The folds of a query and of a text.                                     *)

QuerySets(M, V) == {s \in SUBSET (M \X V) : IsFiniteSet(s)}

\* The parameters after each piece of a query.  The bounds on names and values
\* are those a piece of these tokens can give.
LEMMA AddPieceType ==
    ASSUME NEW T, NEW a \in QuerySets(Seq(T \ {"="}) \ {<<>>}, Seq(T)), NEW e \in Seq(T)
    PROVE  AddPiece(a, e) \in QuerySets(Seq(T \ {"="}) \ {<<>>}, Seq(T))
<1> DEFINE M == Seq(T \ {"="}) \ {<<>>}
           V == Seq(T)
<1>1. ASSUME NEW name \in Seq(T \ {"="}), NEW value \in V
      PROVE  AddEncodedQueryParameter(a, name, value) \in QuerySets(M, V)
  <2>1. CASE name = <<>>
      BY <2>1 DEF AddEncodedQueryParameter
  <2>2. CASE name # <<>>
    <3>1. name \in M
        BY <2>2
    <3>2. a \in SUBSET (M \X V) /\ IsFiniteSet(a)
        BY DEF QuerySets
    <3>3. IsFiniteSet(a \cup {<<name, value>>})
        BY <3>2, FS_AddElement, Zenon
    <3> HIDE DEF M, V
    <3>4. <<name, value>> \in M \X V
        BY <3>1
    <3>5. a \cup {<<name, value>>} \in SUBSET (M \X V)
        BY <3>2, <3>4
    <3> QED
        BY <3>3, <3>5 DEF AddEncodedQueryParameter, QuerySets
  <2> QED
      BY <2>1, <2>2
<1> DEFINE p == Find(e, "=")
<1>2. /\ p \in 0 .. Len(e)
      /\ p = 0 => \A i \in 1 .. Len(e) : e[i] # "="
      /\ p # 0 => \A i \in 1 .. Len(e) : e[i] = "=" => p <= i
    BY FindFacts
<1>3. AddPiece(a, e) = IF p = 0 THEN AddEncodedQueryParameter(a, e, <<>>)
                       ELSE AddEncodedQueryParameter(a, SubSeq(e, 1, p - 1), From(e, p + 1))
    BY DEF AddPiece
<1> HIDE DEF p
<1>4. CASE p = 0
  <2>1. e \in Seq(T \ {"="}) /\ <<>> \in V
      BY <1>2, <1>4
  <2> QED
      BY <1>1, <1>3, <1>4, <2>1, Zenon
<1>5. CASE p # 0
  <2>2. SubSeq(e, 1, p - 1) \in Seq(T \ {"="})
      BY <1>2
  <2>3. From(e, p + 1) \in V
      BY <1>2 DEF From
  <2> QED
      BY <1>1, <1>3, <1>5, <2>2, <2>3, Zenon
<1> QED
    BY <1>4, <1>5

AddsUp(a, q, F) ==
    /\ F[0] = a
    /\ \A n \in 1 .. Len(q) : F[n] = AddPiece(F[n - 1], q[n])
    /\ FoldLeft(AddPiece, a, q) = F[Len(q)]

LEMMA AddPieceFold ==
    ASSUME NEW T, NEW a \in QuerySets(Seq(T \ {"="}) \ {<<>>}, Seq(T)), NEW q \in Seq(Seq(T))
    PROVE  \E F \in [0 .. Len(q) -> QuerySets(Seq(T \ {"="}) \ {<<>>}, Seq(T))] : AddsUp(a, q, F)
<1> DEFINE N == Len(q)
           A == QuerySets(Seq(T \ {"="}) \ {<<>>}, Seq(T))
           G == [p \in (1 .. N) \X A |-> AddPiece(p[2], q[p[1]])]
           it == CHOOSE f : f = [s \in SUBSET DOMAIN q |->
                     IF s = {} THEN a ELSE AddPiece(f[s \ {Max(s)}], q[Max(s)])]
<1>1. FoldLeft(AddPiece, a, q) = it[DOMAIN q]
    BY DEF FoldLeft, MapThenFoldSet
<1>2. N \in Nat /\ DOMAIN q = 1 .. N /\ \A n \in 1 .. N : q[n] \in Seq(T)
    OBVIOUS
<1>3. \A n \in 1 .. N, x \in A : G[<<n, x>>] = AddPiece(x, q[n]) /\ AddPiece(x, q[n]) \in A
    BY <1>2, AddPieceType, Zenon
<1>4. G \in [(1 .. N) \X A -> A]
    BY <1>2, AddPieceType, SMTT(20)
<1>5. PICK f \in [SUBSET (1 .. N) -> A] : IsFold(N, a, G, f)
    BY <1>2, <1>4, FoldExists, Zenon
<1>6. \A s \in SUBSET (1 .. N) : s # {} => Max(s) \in 1 .. N
    BY <1>2, MaxFacts, Zenon
<1> HIDE DEF N, A, G
<1>7. ASSUME NEW s \in SUBSET (1 .. N), s # {}
      PROVE  f[s] = AddPiece(f[s \ {Max(s)}], q[Max(s)])
  <2> QED
      BY <1>3, <1>5, <1>6, <1>7, Zenon DEF IsFold
<1>8. f = [s \in SUBSET DOMAIN q |-> IF s = {} THEN a ELSE AddPiece(f[s \ {Max(s)}], q[Max(s)])]
  <2> QED
      BY <1>2, <1>5, <1>7, Zenon DEF IsFold
<1>9. it = [s \in SUBSET DOMAIN q |-> IF s = {} THEN a ELSE AddPiece(it[s \ {Max(s)}], q[Max(s)])]
    BY <1>8, Zenon
<1> HIDE DEF it
<1>10. it[{}] = a
    BY <1>9
<1>11. ASSUME NEW s \in SUBSET (1 .. N), s # {}, it[s \ {Max(s)}] \in A
       PROVE  it[s] = G[<<Max(s), it[s \ {Max(s)}]>>]
    BY <1>2, <1>3, <1>6, <1>9, <1>11, Zenon
<1>12. FoldsUp(A, N, a, G, it)
    BY <1>10, <1>11, Zenon DEF FoldsUp
<1>13. PICK F \in [0 .. N -> A] : AfterEach(N, a, G, it[1 .. N], F)
  <2>1. a \in A
      BY DEF A
  <2> QED
      BY <1>2, <1>4, <1>12, <2>1, FoldValue, Zenon
<1>14. ASSUME NEW n \in 1 .. N PROVE F[n] = AddPiece(F[n - 1], q[n])
  <2>1. n - 1 \in 0 .. N
      BY <1>2
  <2>2. F[n - 1] \in A
      BY <1>13, <2>1
  <2> QED
      BY <1>3, <1>13, <2>2, Zenon DEF AfterEach
<1> QED
    BY <1>1, <1>2, <1>13, <1>14, Zenon DEF N, A, AddsUp, AfterEach

\* One step of Pieces.
Extend(pieces, t, token) ==
    IF t = token THEN Append(pieces, <<>>)
    ELSE [pieces EXCEPT ![Len(pieces)] = Append(@, t)]

PieceLists(T) == Seq(Seq(T)) \ {<<>>}

LEMMA ExtendType ==
    ASSUME NEW T, NEW token, NEW a \in PieceLists(T \ {token}), NEW e \in T
    PROVE  Extend(a, e, token) \in PieceLists(T \ {token})
<1>0. a \in Seq(Seq(T \ {token})) /\ a # <<>>
    BY DEF PieceLists
<1>1. CASE e = token
  <2>1. Append(a, <<>>) \in Seq(Seq(T \ {token})) /\ Append(a, <<>>) # <<>>
      BY <1>0
  <2> QED
      BY <2>1 DEF Extend, PieceLists
<1>2. CASE e # token
  <2> QED
      BY DEF Extend, PieceLists
<1> QED
    BY <1>1, <1>2

\* The pieces after each token of a text.
PiecesUp(q, token, F) ==
    /\ F[0] = << <<>> >>
    /\ \A n \in 1 .. Len(q) : F[n] = Extend(F[n - 1], q[n], token)
    /\ Pieces(q, token) = F[Len(q)]

LEMMA PiecesFold ==
    ASSUME NEW T, NEW token, NEW q \in Seq(T)
    PROVE  \E F \in [0 .. Len(q) -> PieceLists(T \ {token})] : PiecesUp(q, token, F)
<1> DEFINE N == Len(q)
           A == PieceLists(T \ {token})
           G == [p \in (1 .. N) \X A |-> Extend(p[2], q[p[1]], token)]
           it == CHOOSE f : f = [s \in SUBSET DOMAIN q |->
                     IF s = {} THEN << <<>> >> ELSE Extend(f[s \ {Max(s)}], q[Max(s)], token)]
<1>0. << <<>> >> \in A
    BY DEF PieceLists
<1>1. Pieces(q, token) = it[DOMAIN q]
    BY DEF Pieces, Extend, FoldLeft, MapThenFoldSet
<1>2. N \in Nat /\ DOMAIN q = 1 .. N /\ \A n \in 1 .. N : q[n] \in T
    OBVIOUS
<1>3. \A n \in 1 .. N, x \in A : G[<<n, x>>] = Extend(x, q[n], token) /\ Extend(x, q[n], token) \in A
    BY ExtendType
<1>4. G \in [(1 .. N) \X A -> A]
    BY ExtendType
<1>5. PICK f \in [SUBSET (1 .. N) -> A] : IsFold(N, << <<>> >>, G, f)
    BY <1>0, <1>2, <1>4, FoldExists, Zenon
<1>6. \A s \in SUBSET (1 .. N) : s # {} => Max(s) \in 1 .. N
    BY <1>2, MaxFacts, Zenon
<1> HIDE DEF N, A, G
<1>7. ASSUME NEW s \in SUBSET (1 .. N), s # {}
      PROVE  f[s] = Extend(f[s \ {Max(s)}], q[Max(s)], token)
  <2> QED
      BY <1>3, <1>5, <1>6, <1>7, Zenon DEF IsFold
<1>8. f = [s \in SUBSET DOMAIN q |-> IF s = {} THEN << <<>> >> ELSE Extend(f[s \ {Max(s)}], q[Max(s)], token)]
  <2> QED
      BY <1>2, <1>5, <1>7, Zenon DEF IsFold
<1>9. it = [s \in SUBSET DOMAIN q |-> IF s = {} THEN << <<>> >> ELSE Extend(it[s \ {Max(s)}], q[Max(s)], token)]
    BY <1>8, Zenon
<1> HIDE DEF it
<1>10. it[{}] = << <<>> >>
    BY <1>9
<1>11. ASSUME NEW s \in SUBSET (1 .. N), s # {}, it[s \ {Max(s)}] \in A
       PROVE  it[s] = G[<<Max(s), it[s \ {Max(s)}]>>]
    BY <1>2, <1>3, <1>6, <1>9, <1>11, Zenon
<1>12. FoldsUp(A, N, << <<>> >>, G, it)
    BY <1>10, <1>11, Zenon DEF FoldsUp
<1>13. PICK F \in [0 .. N -> A] : AfterEach(N, << <<>> >>, G, it[1 .. N], F)
    BY <1>0, <1>2, <1>4, <1>12, FoldValue, Zenon
<1>14. ASSUME NEW n \in 1 .. N PROVE F[n] = Extend(F[n - 1], q[n], token)
  <2>1. n - 1 \in 0 .. N
      BY <1>2
  <2>2. F[n - 1] \in A
      BY <2>1
  <2> QED
      BY <1>3, <1>13, <2>2, Zenon DEF AfterEach
<1> QED
    BY <1>1, <1>2, <1>13, <1>14, Zenon DEF N, A, PiecesUp, AfterEach

-----------------------------------------------------------------------------
(* The pieces of a text.                                                   *)

LEMMA PiecesType ==
    ASSUME NEW T, NEW token, NEW text \in Seq(T)
    PROVE  Pieces(text, token) \in PieceLists(T \ {token})
<1>1. PICK F \in [0 .. Len(text) -> PieceLists(T \ {token})] : PiecesUp(text, token, F)
    BY PiecesFold, Zenon
<1>2. Len(text) \in 0 .. Len(text)
    OBVIOUS
<1> QED
    BY <1>1, <1>2, Zenon DEF PiecesUp

LEMMA PiecesOfEmpty ==
    ASSUME NEW token
    PROVE  Pieces(<<>>, token) = << <<>> >>
<1>1. <<>> \in Seq({token}) /\ Len(<<>>) = 0
    OBVIOUS
<1>2. PICK F : PiecesUp(<<>>, token, F)
    BY <1>1, PiecesFold, Zenon
<1> QED
    BY <1>2, Zenon DEF PiecesUp

LEMMA PiecesOfAppend ==
    ASSUME NEW T, NEW token, NEW text \in Seq(T), NEW c \in T
    PROVE  Pieces(Append(text, c), token) = Extend(Pieces(text, token), c, token)
<1> DEFINE N == Len(text)
           more == Append(text, c)
<1>1. /\ N \in Nat /\ more \in Seq(T) /\ Len(more) = N + 1 /\ more[N + 1] = c
      /\ \A n \in 1 .. N : more[n] = text[n]
    OBVIOUS
<1> HIDE DEF more
<1>2. PICK F : PiecesUp(text, token, F)
    BY PiecesFold, Zenon
<1>3. PICK H : PiecesUp(more, token, H)
    BY <1>1, PiecesFold, Zenon
<1> HIDE DEF N
<1> DEFINE S == {n \in Nat : H[n] = F[n]}
<1>4. 0 \in S
    BY <1>2, <1>3 DEF PiecesUp
<1>5. ASSUME NEW n \in 0 .. N - 1, n \in S PROVE n + 1 \in S
  <2> DEFINE m == n + 1
  <2>0. N \in Nat /\ Len(more) = N + 1
      BY <1>1
  <2>1. m \in Nat /\ m \in 1 .. N /\ m \in 1 .. Len(more) /\ m - 1 = n
      BY <2>0
  <2> HIDE DEF m
  <2>2. m \in S
      BY <1>1, <1>2, <1>3, <1>5, <2>1 DEF PiecesUp, N
  <2> QED
      BY <2>2 DEF m
<1> HIDE DEF S
<1>6. 0 .. N \subseteq S
    BY <1>1, <1>4, <1>5, Induction, Zenon
<1>7. H[N] = F[N]
  <2>1. N \in 0 .. N
      BY <1>1
  <2> QED
      BY <1>6, <2>1 DEF S
<1>8. Pieces(more, token) = Extend(H[N], c, token)
  <2> DEFINE m == N + 1
  <2>0. N \in Nat /\ Len(more) = m /\ more[m] = c
      BY <1>1
  <2>1. m \in 1 .. m /\ m - 1 = N
      BY <2>0
  <2> HIDE DEF m
  <2> QED
      BY <1>3, <2>0, <2>1 DEF PiecesUp
<1> QED
    BY <1>2, <1>7, <1>8 DEF more, PiecesUp, N

LongerLast(pieces, w) == [pieces EXCEPT ![Len(pieces)] = pieces[Len(pieces)] \o w]

\* A text without the token makes the last piece longer.
LEMMA PiecesOfWord ==
    ASSUME NEW T, NEW token, NEW text \in Seq(T), NEW w \in Seq(T \ {token})
    PROVE  Pieces(text \o w, token) = LongerLast(Pieces(text, token), w)
<1> DEFINE P == Pieces(text, token)
           L == Len(P)
           U == Seq(T \ {token})
           S == {n \in Nat : Pieces(text \o SubSeq(w, 1, n), token)
                                = [P EXCEPT ![L] = P[L] \o SubSeq(w, 1, n)]}
<1>1. P \in Seq(U) /\ L \in Nat /\ L \in 1 .. L /\ P[L] \in U
  <2>1. P \in Seq(U) /\ P # <<>>
      BY PiecesType DEF PieceLists
  <2> HIDE DEF P
  <2> QED
      BY <2>1
<1> HIDE DEF P
<1>2. /\ SubSeq(w, 1, 0) = <<>> /\ SubSeq(w, 1, Len(w)) = w
      /\ \A n \in 0 .. Len(w) : SubSeq(w, 1, n) \in U
      /\ \A n \in 1 .. Len(w) : SubSeq(w, 1, n) = Append(SubSeq(w, 1, n - 1), w[n])
    OBVIOUS
<1>3. 0 \in S
  <2>1. text \o <<>> = text /\ P[L] \o <<>> = P[L]
      OBVIOUS
  <2>2. P = [P EXCEPT ![L] = P[L]]
      BY <1>1
  <2> QED
      BY <1>2, <2>1, <2>2, Zenon DEF P
<1>4. ASSUME NEW n \in 0 .. Len(w) - 1, n \in S PROVE n + 1 \in S
  <2> DEFINE m == n + 1
             v == SubSeq(w, 1, n)
             Q == [P EXCEPT ![L] = P[L] \o v]
  <2>1. m \in Nat /\ m \in 1 .. Len(w) /\ m - 1 = n /\ n \in 0 .. Len(w)
      OBVIOUS
  <2>2. w[m] \in T /\ w[m] # token /\ w[m] \in T \ {token}
      OBVIOUS
  <2> HIDE DEF m, v
  <2>3. v \in U /\ v \in Seq(T)
    <3>1. v \in U
        BY DEF v
    <3> QED
        BY <3>1
  <2>4. text \o Append(v, w[m]) = Append(text \o v, w[m]) /\ text \o v \in Seq(T)
      BY <2>3
  <2>5. P[L] \o Append(v, w[m]) = Append(P[L] \o v, w[m]) /\ P[L] \o v \in U
    <3> DEFINE z == P[L]
    <3>1. z \in U
        BY <1>1
    <3> HIDE DEF z, L
    <3>2. z \o Append(v, w[m]) = Append(z \o v, w[m]) /\ z \o v \in U
        BY <2>3, <3>1
    <3> QED
        BY <3>2 DEF z
  <2>6. Pieces(Append(text \o v, w[m]), token) = Extend(Q, w[m], token)
    <3>1. Pieces(text \o v, token) = Q
        BY <1>4 DEF v
    <3> HIDE DEF Q
    <3>2. Pieces(Append(text \o v, w[m]), token) = Extend(Pieces(text \o v, token), w[m], token)
        BY <2>2, <2>4, PiecesOfAppend, Zenon
    <3> QED
        BY <3>1, <3>2
  <2>7. Len(Q) = L /\ Q[L] = P[L] \o v /\ Q \in Seq(U)
      BY <1>1, <2>5
  <2>8. Extend(Q, w[m], token) = [Q EXCEPT ![L] = Append(P[L] \o v, w[m])]
    <3> HIDE DEF Q
    <3> QED
        BY <2>2, <2>7 DEF Extend
  <2>9. [Q EXCEPT ![L] = Append(P[L] \o v, w[m])] = [P EXCEPT ![L] = Append(P[L] \o v, w[m])]
      BY <1>1
  <2>10. SubSeq(w, 1, m) = Append(v, w[m])
      BY <2>1 DEF v
  <2>11. m \in S
    <3> HIDE DEF Q
    <3> QED
        BY <2>1, <2>4, <2>5, <2>6, <2>8, <2>9, <2>10, Zenon
  <2> QED
      BY <2>11 DEF m
<1>5. Len(w) \in Nat /\ Len(w) \in 0 .. Len(w)
    OBVIOUS
<1> HIDE DEF S
<1>6. 0 .. Len(w) \subseteq S
    BY <1>3, <1>4, <1>5, Induction, Zenon
<1>7. Len(w) \in S
    BY <1>6
<1> QED
    BY <1>2, <1>7, Zenon DEF S, P, LongerLast

\* A token and a text without it add that text to the pieces.
LEMMA PiecesOfNext ==
    ASSUME NEW T, NEW token \in T, NEW text \in Seq(T), NEW w \in Seq(T \ {token})
    PROVE  Pieces(text \o (<<token>> \o w), token) = Append(Pieces(text, token), w)
<1> DEFINE P == Pieces(text, token)
           U == Seq(T \ {token})
           Q == Append(P, <<>>)
<1>1. P \in Seq(U)
    BY PiecesType DEF PieceLists
<1>2. Pieces(Append(text, token), token) = Q
    BY PiecesOfAppend DEF Extend
<1>3. Append(text, token) \in Seq(T) /\ text \o (<<token>> \o w) = Append(text, token) \o w
    BY SMTT(20)
<1> HIDE DEF P
<1>4. <<>> \in U /\ Len(Q) = Len(P) + 1 /\ Q[Len(Q)] = <<>> /\ <<>> \o w = w
    OBVIOUS
<1>5. Pieces(Append(text, token) \o w, token) = [Q EXCEPT ![Len(Q)] = Q[Len(Q)] \o w]
  <2> DEFINE more == Append(text, token)
  <2>1. more \in Seq(T)
      OBVIOUS
  <2>2. Pieces(more, token) = Q
      BY <1>2
  <2> HIDE DEF more, Q
  <2>3. Pieces(more \o w, token) = LongerLast(Pieces(more, token), w)
      BY <2>1, PiecesOfWord
  <2> QED
      BY <2>2, <2>3 DEF more, LongerLast
<1>6. [Q EXCEPT ![Len(Q)] = w] = Append(P, w)
  <2> DEFINE R == Append(P, w)
  <2>1. /\ w \in U /\ Q \in Seq(U) /\ R \in Seq(U) /\ Len(R) = Len(P) + 1
        /\ R[Len(P) + 1] = w
        /\ \A i \in 1 .. Len(P) : R[i] = P[i] /\ Q[i] = P[i]
      BY <1>1
  <2>2. Len(Q) = Len(P) + 1 /\ Len(P) \in Nat
      OBVIOUS
  <2> DEFINE E == [Q EXCEPT ![Len(Q)] = w]
  <2> HIDE DEF Q, R
  <2>3. Len(Q) \in 1 .. Len(Q)
      BY <2>2
  <2>4. /\ E \in Seq(U) /\ Len(E) = Len(Q)
        /\ \A j \in 1 .. Len(Q) : E[j] = IF j = Len(Q) THEN w ELSE Q[j]
      BY <2>1, <2>3
  <2> HIDE DEF E, U
  <2>5. ASSUME NEW j \in 1 .. Len(E) PROVE E[j] = R[j]
    <3> DEFINE n == Len(P)
    <3>1. j \in 1 .. n + 1 /\ n \in Nat
        BY <2>2, <2>4
    <3> HIDE DEF n
    <3>2. j \in 1 .. n \/ j = n + 1
        BY <3>1
    <3> QED
        BY <2>1, <2>2, <2>4, <3>2 DEF n
  <2>6. E = R
      BY <2>1, <2>2, <2>4, <2>5
  <2> QED
      BY <2>6 DEF R, E
<1> QED
    BY <1>3, <1>4, <1>5, <1>6, Zenon DEF P

LEMMA PiecesOfOne ==
    ASSUME NEW T, NEW token, NEW w \in Seq(T \ {token})
    PROVE  Pieces(w, token) = <<w>>
<1>0. <<>> \in Seq(T)
    OBVIOUS
<1>1. PICK e \in Seq(T) : e = <<>>
    BY <1>0, Zenon
<1>2. e \o w = w
    BY <1>1
<1>3. Pieces(e, token) = << <<>> >>
    BY <1>1, PiecesOfEmpty
<1>4. Pieces(e \o w, token) = LongerLast(Pieces(e, token), w)
    BY PiecesOfWord
<1>5. LongerLast(<< <<>> >>, w) = <<w>>
    BY DEF LongerLast
<1> QED
    BY <1>2, <1>3, <1>4, <1>5

\* ss writes the pieces p, x before the first and t before each other.
Joins(ss, x, t, p) ==
    /\ Len(ss) = Len(p)
    /\ \A i \in 1 .. Len(p) : ss[i] = <<IF i = 1 THEN x ELSE t>> \o p[i]

JoinedAs(ss, x, t, p, Q) == FlattenSeq(ss) = <<x>> \o Q /\ Pieces(Q, t) = p

\* ... and the pieces are found again.
LEMMA Joined ==
    ASSUME NEW T, NEW x, NEW t \in T, NEW p \in Seq(Seq(T \ {t})), p # <<>>,
           NEW ss \in Seq(Seq(T \cup {x})), Joins(ss, x, t, p)
    PROVE  \E Q \in Seq(T) : JoinedAs(ss, x, t, p, Q)
<1> DEFINE N == Len(p)
           U == Seq(T \ {t})
<1>1. PICK F \in [0 .. Len(ss) -> Seq(T \cup {x})] : FlattensUp(ss, F)
    BY FlattenFold
<1>2. N \in Nat /\ N # 0 /\ Len(ss) = N /\ \A n \in 1 .. N : p[n] \in U
    BY DEF Joins
<1>3. /\ \A n \in 0 .. N : SubSeq(p, 1, n) \in Seq(U)
      /\ \A n \in 1 .. N : SubSeq(p, 1, n) = Append(SubSeq(p, 1, n - 1), p[n])
      /\ SubSeq(p, 1, N) = p /\ SubSeq(p, 1, 0) = <<>>
    OBVIOUS
<1> DEFINE Found(n) == \E Q \in Seq(T) : F[n] = <<x>> \o Q /\ Pieces(Q, t) = SubSeq(p, 1, n)
           S == {n \in Nat : n = 0 \/ Found(n)}
<1>4. ASSUME NEW n \in 0 .. N - 1, n \in S PROVE n + 1 \in S
  <2> DEFINE m == n + 1
  <2>1. m \in Nat /\ m \in 1 .. N /\ m - 1 = n /\ (m = 1 <=> n = 0)
      OBVIOUS
  <2> HIDE DEF m, N
  <2>2. F[m] = F[n] \o (<<IF m = 1 THEN x ELSE t>> \o p[m])
      BY <1>1, <2>1, Zenon DEF FlattensUp, Joins, N
  <2>3. p[m] \in U /\ p[m] \in Seq(T)
    <3>1. p[m] \in U
        BY <1>2, <2>1, Zenon
    <3> QED
        BY <3>1
  <2>4. CASE n = 0
    <3>1. F[0] = <<>>
        BY <1>1 DEF FlattensUp
    <3>2. F[m] = <<x>> \o p[m]
      <4> QED
          BY <2>1, <2>2, <2>4, <3>1
    <3>3. Pieces(p[m], t) = <<p[m]>>
        BY <2>3, PiecesOfOne, Zenon
    <3>4. SubSeq(p, 1, m) = <<p[m]>>
      <4>1. Append(<<>>, p[m]) = <<p[m]>>
          OBVIOUS
      <4> QED
          BY <1>3, <2>1, <2>4, <4>1, Zenon
    <3> QED
        BY <2>1, <2>3, <3>2, <3>3, <3>4, Zenon DEF m
  <2>5. CASE n # 0
    <3>1. PICK Q \in Seq(T) : F[n] = <<x>> \o Q /\ Pieces(Q, t) = SubSeq(p, 1, n)
        BY <1>4, <2>5, Zenon
    <3> DEFINE R == Q \o (<<t>> \o p[m])
    <3>2. R \in Seq(T) /\ (<<x>> \o Q) \o (<<t>> \o p[m]) = <<x>> \o R
      <4> DEFINE v == <<t>> \o p[m]
      <4>1. v \in Seq(T)
          BY <2>3
      <4> HIDE DEF v
      <4>2. /\ <<x>> \in Seq(T \cup {x}) /\ Q \in Seq(T \cup {x}) /\ v \in Seq(T \cup {x})
            /\ Q \o v \in Seq(T)
          BY <4>1
      <4>3. Grouped(<<x>>, Q, v)
          BY <4>2, ConcatAssociative, Zenon
      <4> QED
          BY <4>2, <4>3, Zenon DEF v, Grouped
    <3>3. Pieces(R, t) = Append(Pieces(Q, t), p[m])
        BY <2>3, PiecesOfNext, Zenon
    <3>4. F[m] = <<x>> \o R
        BY <2>1, <2>2, <2>5, <3>1, <3>2, Zenon
    <3>5. Pieces(R, t) = SubSeq(p, 1, m)
        BY <1>3, <2>1, <3>1, <3>3, Zenon
    <3> HIDE DEF R
    <3> QED
        BY <2>1, <3>2, <3>4, <3>5, Zenon DEF m
  <2> QED
      BY <2>4, <2>5, Zenon
<1>5. 0 \in S
    OBVIOUS
<1> HIDE DEF S
<1>6. 0 .. N \subseteq S
    BY <1>2, <1>4, <1>5, Induction, Zenon
<1>7. N \in 0 .. N
    OBVIOUS
<1>8. Found(N)
    BY <1>2, <1>6, <1>7, Zenon DEF S
<1> QED
    BY <1>1, <1>2, <1>3, <1>8, Zenon DEF FlattensUp, JoinedAs

-----------------------------------------------------------------------------
(* Cutting a text.                                                         *)

\* The parts of texts put together, found by the lengths of those before.
LEMMA CutMiddle ==
    ASSUME NEW T, NEW u \in Seq(T), NEW v \in Seq(T), NEW w \in Seq(T)
    PROVE  SubSeq((u \o v) \o w, Len(u) + 1, Len(u) + Len(v)) = v
<1> DEFINE x == (u \o v) \o w
           c == SubSeq(x, Len(u) + 1, Len(u) + Len(v))
<1> HIDE DEF x
<1> HIDE DEF c
<1> QED
    BY DEF c, x

LEMMA CutRest ==
    ASSUME NEW T, NEW u \in Seq(T), NEW v \in Seq(T)
    PROVE  From(u \o v, Len(u) + 1) = v
<1> DEFINE x == u \o v
           c == SubSeq(x, Len(u) + 1, Len(x))
<1> HIDE DEF x
<1> HIDE DEF c
<1> QED
    BY DEF c, x, From

\* A token after a text without it.
LEMMA FindAfter ==
    ASSUME NEW T, NEW token \in T, NEW u \in Seq(T \ {token}), NEW v \in Seq(T)
    PROVE  Find(u \o (<<token>> \o v), token) = Len(u) + 1
<1> DEFINE x == u \o (<<token>> \o v)
           n == Len(u) + 1
<1>2. x \in Seq(T) /\ n \in 1 .. Len(x) /\ x[n] = token
    OBVIOUS
<1>3. \A i \in 1 .. n - 1 : x[i] # token
    OBVIOUS
<1> HIDE DEF x, n
<1>4. Find(x, token) = n
    BY <1>2, <1>3, FindIs
<1> QED
    BY <1>4 DEF x, n

-----------------------------------------------------------------------------
(* The parts of a URL.                                                     *)

Separators == {":", "/", "?", "#", "&", "=", ".", ".."}
Fixed == {"http", "https", "HTTP", "file", "host", "port", "80", "443", "8888", "0",
          "name", "value", "fragment"}
Tokens == Words \cup Separators \cup Fixed

\* Tokens of host, path, names and values, and of a fragment.
Inner == Tokens \ {"?", "#"}
Late == Tokens \ {"?"}

LEMMA InnerTokens ==
    /\ {":", "/", "&", "=", ".", ".."} \subseteq Inner
    /\ Inner \subseteq Late /\ Late \subseteq Tokens /\ Inner \subseteq Tokens \ {"#"}
    /\ "?" \notin Inner /\ "#" \notin Inner /\ "?" \notin Late
    /\ {"?", "#"} \subseteq Tokens /\ "?" \in Tokens \ {"#"} /\ "#" \in Late
<1>2. Separators \subseteq Tokens
    BY DEF Tokens
<1> QED
    BY <1>2 DEF Inner, Late, Separators

ParseParameters(text) == FoldLeft(AddPiece, {}, Pieces(text, "&"))

\* A query or nothing, and a fragment or nothing.
QueryText(qt, Q) == qt = <<>> \/ qt = <<"?">> \o Q
FragmentText(ft, f) == ft = <<>> \/ ft = <<"#">> \o f

LEMMA QueryTextType ==
    ASSUME NEW Q \in Seq(Inner), NEW qt, QueryText(qt, Q)
    PROVE  qt \in Seq(Tokens \ {"#"})
<1>1. "?" \in Tokens \ {"#"} /\ Q \in Seq(Tokens \ {"#"})
    BY InnerTokens
<1>2. <<>> \in Seq(Tokens \ {"#"}) /\ <<"?">> \o Q \in Seq(Tokens \ {"#"})
    BY <1>1
<1> QED
    BY <1>2, Zenon DEF QueryText

LEMMA FragmentTextType ==
    ASSUME NEW f \in Seq(Late), NEW ft, FragmentText(ft, f)
    PROVE  ft \in Seq(Late)
<1>1. "#" \in Late
    BY InnerTokens
<1>2. <<>> \in Seq(Late) /\ <<"#">> \o f \in Seq(Late)
    BY <1>1
<1> QED
    BY <1>2, Zenon DEF FragmentText

\* The fragment is what follows the '#'.
LEMMA FragmentFound ==
    ASSUME NEW u \in Seq(Tokens \ {"#"}), NEW f \in Seq(Late), NEW ft, FragmentText(ft, f)
    PROVE  /\ ParseFragment(u \o ft) = IF ft = <<>> THEN <<>> ELSE f
           /\ Find(u \o ft, "#") = IF ft = <<>> THEN 0 ELSE Len(u) + 1
<1>0. f \in Seq(Tokens) /\ u \in Seq(Tokens) /\ "#" \in Tokens /\ "#" \notin Tokens \ {"#"}
    BY InnerTokens
<1>1. CASE ft = <<>>
  <2>2. Find(u, "#") = 0
      BY FindNone
  <2> QED
      BY <1>1, <2>2 DEF ParseFragment
<1>2. CASE ft # <<>>
  <2>1. ft = <<"#">> \o f
      BY <1>2 DEF FragmentText
  <2>2. Find(u \o ft, "#") = Len(u) + 1
      BY <1>0, <2>1, FindAfter
  <2> DEFINE v == u \o <<"#">>
  <2>3. v \in Seq(Tokens) /\ u \o ft = v \o f /\ Len(v) = Len(u) + 1 /\ Len(u) + 1 # 0
      BY <1>0, <2>1
  <2> HIDE DEF v
  <2>4. From(v \o f, Len(v) + 1) = f
      BY <1>0, <2>3, CutRest
  <2> QED
      BY <2>2, <2>3, <2>4 DEF ParseFragment
<1> QED
    BY <1>1, <1>2

\* Where the query starts.
LEMMA QueryFound ==
    ASSUME NEW h \in Seq(Inner), NEW Q \in Seq(Inner), NEW qt, QueryText(qt, Q),
           NEW ft \in Seq(Late)
    PROVE  Find(h \o (qt \o ft), "?") = IF qt = <<>> THEN 0 ELSE Len(h) + 1
<1>1. CASE qt = <<>>
  <2>1. h \o (qt \o ft) \in Seq(Late)
    <3>1. h \in Seq(Late)
        BY InnerTokens
    <3>2. qt \o ft = ft
        BY <1>1
    <3> QED
        BY <3>1, <3>2
  <2>2. Find(h \o (qt \o ft), "?") = 0
      BY <2>1, InnerTokens, FindNone, Zenon
  <2> QED
      BY <1>1, <2>2
<1>2. CASE qt # <<>>
  <2>1. qt = <<"?">> \o Q
      BY <1>2 DEF QueryText
  <2>2. Q \in Seq(Tokens) /\ ft \in Seq(Tokens) /\ h \in Seq(Tokens \ {"?"}) /\ "?" \in Tokens
      BY InnerTokens DEF Late
  <2>3. Q \o ft \in Seq(Tokens) /\ qt \o ft = <<"?">> \o (Q \o ft)
      BY <2>1, <2>2
  <2>4. Find(h \o (<<"?">> \o (Q \o ft)), "?") = Len(h) + 1
      BY <2>2, <2>3, FindAfter, Zenon
  <2> QED
      BY <2>3, <2>4
<1> QED
    BY <1>1, <1>2

UrlText(s, hp, qt, ft) == ((<<s, ":", "/", "/">> \o hp) \o qt) \o ft

\* The parts of two texts put together.
LEMMA ConcatFacts ==
    ASSUME NEW T, NEW u \in Seq(T), NEW v \in Seq(T)
    PROVE  /\ u \o v \in Seq(T) /\ Len(u \o v) = Len(u) + Len(v)
           /\ Len(u) \in Nat /\ Len(v) \in Nat
           /\ u # <<>> => (u \o v)[1] = u[1]
OBVIOUS

LEMMA UrlHead ==
    ASSUME NEW s \in Inner, NEW hp \in Seq(Inner)
    PROVE  \E d \in Seq(Inner) : /\ d = <<s, ":", "/", "/">> /\ Len(d) = 4
                                 /\ d # <<>> /\ d[1] = s
<1> DEFINE d == <<s, ":", "/", "/">>
<1>1. d \in Seq(Inner) /\ Len(d) = 4 /\ d # <<>> /\ d[1] = s
    BY InnerTokens
<1> QED
    BY <1>1, Zenon

UrlIs(url, s, hp, qt, Q, ft, f) ==
    /\ url[1] = s
    /\ SubSeq(url, 5, PathEnd(url) - 1) = hp
    /\ ParseQuery(url) = IF qt = <<>> THEN {} ELSE ParseParameters(Q)
    /\ ParseFragment(url) = IF ft = <<>> THEN <<>> ELSE f

\* Parse finds the text of host and path, the parameters and the fragment.
LEMMA UrlParts ==
    ASSUME NEW s \in Inner, NEW hp \in Seq(Inner),
           NEW Q \in Seq(Inner), NEW qt, QueryText(qt, Q),
           NEW f \in Seq(Late), NEW ft, FragmentText(ft, f)
    PROVE  UrlIs(UrlText(s, hp, qt, ft), s, hp, qt, Q, ft, f)
<1> DEFINE url == UrlText(s, hp, qt, ft)
<1>1. PICK d \in Seq(Inner) : d = <<s, ":", "/", "/">> /\ Len(d) = 4 /\ d # <<>> /\ d[1] = s
    BY UrlHead
<1> DEFINE h == d \o hp
           u == h \o qt
           v == qt \o ft
<1>2. h \in Seq(Inner) /\ Len(h) = Len(d) + Len(hp) /\ Len(hp) \in Nat /\ h[1] = s
    BY <1>1
<1>3. qt \in Seq(Tokens \ {"#"}) /\ ft \in Seq(Late)
    BY QueryTextType, FragmentTextType
<1> HIDE DEF h
<1>4. /\ qt \in Seq(Tokens) /\ ft \in Seq(Tokens) /\ Q \in Seq(Tokens) /\ hp \in Seq(Tokens)
      /\ d \in Seq(Tokens) /\ h \in Seq(Tokens) /\ h \in Seq(Tokens \ {"#"})
  <2>1. /\ Inner \subseteq Tokens /\ Late \subseteq Tokens /\ Inner \subseteq Tokens \ {"#"}
        /\ Tokens \ {"#"} \subseteq Tokens
      BY InnerTokens
  <2> QED
      BY <1>2, <1>3, <2>1
<1>5. /\ u \in Seq(Tokens) /\ v \in Seq(Tokens) /\ u \in Seq(Tokens \ {"#"})
      /\ Len(u) = Len(h) + Len(qt) /\ Len(qt) \in Nat
    BY <1>3, <1>4
<1>6. url = u \o ft
    BY <1>1 DEF UrlText, h
<1>7. url = h \o v
  <2>0. h \in Seq(Tokens) /\ qt \in Seq(Tokens) /\ ft \in Seq(Tokens)
      BY <1>4
  <2>1. Grouped(h, qt, ft)
      BY <2>0, ConcatAssociative
  <2> QED
      BY <1>6, <2>1 DEF Grouped
<1> HIDE DEF url, u, v
<1>8. url \in Seq(Tokens) /\ Len(url) = Len(u) + Len(ft) /\ Len(ft) \in Nat
    BY <1>4, <1>5, <1>6, ConcatFacts, Zenon
<1>9. url[1] = s
  <2>1. h # <<>>
      BY <1>1, <1>2
  <2> QED
      BY <1>2, <1>7, <2>1
<1>10. /\ ParseFragment(url) = IF ft = <<>> THEN <<>> ELSE f
       /\ Find(url, "#") = IF ft = <<>> THEN 0 ELSE Len(u) + 1
    BY <1>5, <1>6, FragmentFound, Zenon
<1>11. Find(url, "?") = IF qt = <<>> THEN 0 ELSE Len(h) + 1
    BY <1>2, <1>3, <1>7, QueryFound DEF v
<1> DEFINE a == Find(url, "?")
           b == Find(url, "#")
           lh == Len(h)
           lu == Len(u)
           le == Len(url)
           lq == Len(qt)
           lf == Len(ft)
<1>13. /\ a = (IF qt = <<>> THEN 0 ELSE lh + 1) /\ b = (IF ft = <<>> THEN 0 ELSE lu + 1)
       /\ lu = lh + lq /\ le = lu + lf /\ lq \in Nat /\ lf \in Nat
       /\ (ft = <<>> => lf = 0) /\ (qt = <<>> => lq = 0)
    BY <1>5, <1>8, <1>10, <1>11
<1>14. lh = Len(d) + Len(hp) /\ Len(d) = 4 /\ Len(hp) \in Nat
    BY <1>1, <1>2
<1>15. PathEnd(url) = CASE a # 0 -> a [] a = 0 /\ b # 0 -> b [] OTHER -> le + 1
    BY DEF PathEnd
<1> DEFINE e == IF b = 0 THEN le + 1 ELSE b
<1>16. ParseQuery(url) = IF a = 0 THEN {} ELSE ParseParameters(SubSeq(url, a + 1, e - 1))
    BY DEF ParseQuery, ParseParameters
<1> HIDE DEF a, b, lh, lu, le, lq, lf
<1>17. PathEnd(url) = lh + 1 /\ e = lu + 1 /\ lh \in Nat
    BY <1>13, <1>14, <1>15
<1> HIDE DEF e
<1>18. SubSeq(url, 5, PathEnd(url) - 1) = hp
  <2> DEFINE ld == Len(d)
             lp == Len(hp)
             pe == PathEnd(url)
  <2>2. lh = ld + lp /\ ld = 4 /\ lp \in Nat /\ pe = lh + 1
      BY <1>14, <1>17, Zenon
  <2> HIDE DEF ld, lp, pe
  <2>3. ld + 1 = 5 /\ pe - 1 = ld + lp
      BY <2>2
  <2> QED
      BY <1>7, <2>3 DEF h, ld, lp, pe
<1>19. ParseQuery(url) = IF qt = <<>> THEN {} ELSE ParseParameters(Q)
  <2>1. CASE qt = <<>>
      BY <1>13, <1>16, <2>1
  <2>2. CASE qt # <<>>
    <3>1. qt = <<"?">> \o Q
        BY <2>2 DEF QueryText
    <3> DEFINE w == h \o <<"?">>
    <3>2. <<"?">> \in Seq(Tokens) /\ Len(<<"?">>) = 1
        BY InnerTokens
    <3>3. w \in Seq(Tokens) /\ Len(w) = Len(h) + Len(<<"?">>)
        BY <1>4, <3>2
    <3>4. u = w \o Q
      <4> DEFINE m == <<"?">>
      <4>0. h \in Seq(Tokens) /\ m \in Seq(Tokens) /\ Q \in Seq(Tokens)
          BY <1>4, <3>2
      <4> HIDE DEF m
      <4>1. Grouped(h, m, Q)
          BY <4>0, ConcatAssociative
      <4> QED
          BY <3>1, <4>1, SMTT(20) DEF u, m, w, Grouped
    <3> HIDE DEF w
    <3>5. Len(u) = Len(w) + Len(Q) /\ Len(Q) \in Nat
        BY <1>4, <3>3, <3>4, ConcatFacts, Zenon
    <3>6. SubSeq((w \o Q) \o ft, Len(w) + 1, Len(w) + Len(Q)) = Q
        OBVIOUS
    <3>7. a = lh + 1 /\ lh \in Nat /\ e = lu + 1 /\ lu = Len(w) + Len(Q) /\ Len(w) = lh + 1
        BY <1>13, <1>17, <2>2, <3>2, <3>3, <3>5, Zenon DEF lu, lh
    <3>8. a # 0 /\ a + 1 = Len(w) + 1 /\ e - 1 = Len(w) + Len(Q)
        BY <3>7
    <3>9. ParseQuery(url) = ParseParameters(Q)
        BY <1>6, <1>16, <3>4, <3>6, <3>8, Zenon
    <3> QED
        BY <2>2, <3>9
  <2> QED
      BY <2>1, <2>2
<1> QED
    BY <1>9, <1>10, <1>18, <1>19 DEF url, UrlIs

\* A port or nothing, and a path or nothing.
PortText(port, pn) == port = <<>> \/ port = <<":">> \o pn
PathText(path, P) == path = <<>> \/ path = <<"/">> \o P

NoSlash == Inner \ {"/"}
HostToken == Inner \ {"/", ":"}

LEMMA HostTokens ==
    /\ HostToken \subseteq NoSlash /\ NoSlash \subseteq Inner /\ HostToken \subseteq Inner
    /\ HostToken \subseteq Inner \ {":"} /\ ":" \in NoSlash /\ "/" \in Inner /\ ":" \in Inner
    /\ "/" \notin NoSlash /\ ":" \notin Inner \ {":"} /\ "/" \in Inner \ {":"}
BY InnerTokens DEF NoSlash, HostToken

\* The path starts at the first '/'; without one the path is all there is.
SlashFound(text, ap, path, P) ==
    /\ Find(text, "/") = IF path = <<>> THEN 0 ELSE Len(ap) + 1
    /\ From(text, Find(text, "/") + 1) = IF path = <<>> THEN ap ELSE P

LEMMA PathFound ==
    ASSUME NEW ap \in Seq(NoSlash), NEW P \in Seq(Inner), NEW path, PathText(path, P)
    PROVE  SlashFound(ap \o path, ap, path, P)
<1>0. ap \in Seq(Inner) /\ ap \in Seq(Inner \ {"/"})
    BY DEF NoSlash
<1>1. CASE path = <<>>
  <2>2. Find(ap, "/") = 0
      BY HostTokens, FindNone
  <2>3. From(ap, 0 + 1) = ap
      BY DEF From
  <2> QED
      BY <1>1, <2>2, <2>3 DEF SlashFound
<1>2. CASE path # <<>>
  <2>1. path = <<"/">> \o P
      BY <1>2 DEF PathText
  <2>2. Find(ap \o path, "/") = Len(ap) + 1
    <3>1. "/" \in Inner
        BY HostTokens
    <3> QED
        BY <1>0, <2>1, <3>1, FindAfter
  <2> DEFINE v == ap \o <<"/">>
  <2>3. v \in Seq(Inner) /\ Len(v) = Len(ap) + 1
      BY HostTokens
  <2>4. ap \o path = v \o P
      BY <2>1
  <2> HIDE DEF v
  <2>5. From(v \o P, Len(v) + 1) = P
      BY <2>3, CutRest
  <2> QED
      BY <2>2, <2>3, <2>4, <2>5 DEF SlashFound
<1> QED
    BY <1>1, <1>2

\* A path has no ':' when there is no port.
LEMMA ColonFound ==
    ASSUME NEW host \in Seq(HostToken), NEW pn \in Seq(NoSlash), NEW port, PortText(port, pn),
           NEW path \in Seq(Inner), port = <<>> => path \in Seq(Inner \ {":"})
    PROVE  Find((host \o port) \o path, ":") = IF port = <<>> THEN 0 ELSE Len(host) + 1
<1>0. host \in Seq(Inner) /\ host \in Seq(Inner \ {":"}) /\ pn \in Seq(Inner) /\ ":" \in Inner
    BY HostTokens
<1>1. CASE port = <<>>
  <2>2. host \o path \in Seq(Inner \ {":"})
      BY <1>0, <1>1
  <2>3. Find(host \o path, ":") = 0
      BY <2>2, HostTokens, FindNone, Zenon
  <2> QED
      BY <1>1, <2>3
<1>2. CASE port # <<>>
  <2>1. port = <<":">> \o pn
      BY <1>2 DEF PortText
  <2>2. pn \o path \in Seq(Inner)
      BY <1>0
  <2>3. (host \o port) \o path = host \o (<<":">> \o (pn \o path))
      BY <1>0, <2>1
  <2>4. Find(host \o (<<":">> \o (pn \o path)), ":") = Len(host) + 1
      BY <1>0, <2>2, FindAfter, Zenon
  <2> QED
      BY <2>3, <2>4
<1> QED
    BY <1>1, <1>2

HostPathIs(hp, s, host, port, pn, path, P) ==
    /\ hp \in Seq(Inner)
    /\ ParseHost(hp) = host
    /\ ParsePort(s, hp) = IF port = <<>> \/ pn = <<>> THEN DefaultPort(s) ELSE Atoi(pn)
    /\ From(hp, Find(hp, "/") + 1) = IF path = <<>> THEN host \o port ELSE P

\* Parse finds host, port and path.
LEMMA HostPathParts ==
    ASSUME NEW s, NEW host \in Seq(HostToken),
           NEW pn \in Seq(NoSlash), NEW port, PortText(port, pn),
           NEW P \in Seq(Inner), NEW path, PathText(path, P),
           port = <<>> => path \in Seq(Inner \ {":"}),
           NEW hp, hp = (host \o port) \o path
    PROVE  HostPathIs(hp, s, host, port, pn, path, P)
<1> DEFINE ap == host \o port
<1>1. /\ host \in Seq(Inner) /\ host \in Seq(NoSlash) /\ pn \in Seq(Inner)
      /\ ":" \in NoSlash /\ "/" \in Inner /\ ":" \in Inner
    BY HostTokens
<1>2. <<>> \in Seq(NoSlash) /\ <<>> \in Seq(Inner) /\ <<":">> \o pn \in Seq(NoSlash)
      /\ <<"/">> \o P \in Seq(Inner)
    BY <1>1
<1>3. port \in Seq(NoSlash) /\ path \in Seq(Inner)
    BY <1>2, Zenon DEF PortText, PathText
<1>4. port \in Seq(Inner)
    BY <1>3, HostTokens
<1>5. ap \in Seq(NoSlash) /\ ap \in Seq(Inner) /\ Len(ap) = Len(host) + Len(port)
    BY <1>1, <1>3, <1>4
<1>6. /\ hp \in Seq(Inner) /\ Len(hp) = Len(ap) + Len(path)
      /\ Len(host) \in Nat /\ Len(port) \in Nat /\ Len(path) \in Nat
  <2> HIDE DEF ap
  <2>1. hp = ap \o path
      BY DEF ap
  <2>2. hp \in Seq(Inner) /\ Len(hp) = Len(ap) + Len(path)
      BY <1>3, <1>5, <2>1, ConcatFacts, Zenon
  <2> QED
      BY <2>2
<1> DEFINE a == Find(hp, ":")
           b == Find(hp, "/")
           lh == Len(host)
           lp == Len(port)
           lt == Len(path)
           le == Len(hp)
           e == IF b = 0 THEN le + 1 ELSE b
<1>7. a = IF port = <<>> THEN 0 ELSE lh + 1
    BY <1>3, ColonFound
<1>8. /\ b = IF path = <<>> THEN 0 ELSE Len(ap) + 1
      /\ From(hp, b + 1) = IF path = <<>> THEN ap ELSE P
  <2>1. SlashFound(ap \o path, ap, path, P)
      BY <1>5, PathFound, Zenon
  <2> QED
      BY <2>1 DEF SlashFound
<1>9. (port = <<>> => lp = 0) /\ (path = <<>> => lt = 0)
    OBVIOUS
<1>10. /\ lh \in Nat /\ lp \in Nat /\ lt \in Nat /\ le = (lh + lp) + lt
       /\ b = IF path = <<>> THEN 0 ELSE (lh + lp) + 1
    BY <1>8
<1>11. ParsePort(s, hp) = IF a = 0 \/ SubSeq(hp, a + 1, e - 1) = <<>> THEN DefaultPort(s)
                          ELSE Atoi(SubSeq(hp, a + 1, e - 1))
    BY DEF ParsePort
<1>12. ParseHost(hp) = CASE a # 0 -> SubSeq(hp, 1, a - 1)
                         [] a = 0 /\ b # 0 -> SubSeq(hp, 1, b - 1)
                         [] OTHER -> hp
    BY DEF ParseHost
<1> HIDE DEF a, b, lh, lp, lt, le
<1>13. e = (lh + lp) + 1
    BY <1>9, <1>10
<1> HIDE DEF e
<1>14. CASE port # <<>>
  <2>1. port = <<":">> \o pn
      BY <1>14 DEF PortText
  <2> DEFINE v == host \o <<":">>
             ln == Len(pn)
  <2>2. v \in Seq(Inner) /\ Len(v) = lh + 1 /\ lp = ln + 1 /\ ln \in Nat
      BY <1>1, <2>1 DEF lh, lp
  <2>3. hp = (v \o pn) \o path
    <3> QED
        BY <2>1 DEF Grouped
  <2> HIDE DEF v
  <2>4. SubSeq((v \o pn) \o path, Len(v) + 1, Len(v) + ln) = pn
      BY <1>1, <1>3, <2>2, CutMiddle, Zenon
  <2> HIDE DEF ln
  <2>5. a + 1 = (lh + 1) + 1 /\ e - 1 = (lh + 1) + ln /\ a # 0 /\ a - 1 = lh
      BY <1>7, <1>10, <1>13, <1>14, <2>2
  <2>6. SubSeq(hp, a + 1, e - 1) = pn
      BY <2>2, <2>3, <2>4, <2>5
  <2>7. ParsePort(s, hp) = IF port = <<>> \/ pn = <<>> THEN DefaultPort(s) ELSE Atoi(pn)
      BY <1>11, <1>14, <2>5, <2>6, Zenon
  <2>9. SubSeq(hp, 1, lh) = host
      BY DEF lh
  <2>10. ParseHost(hp) = host
      BY <1>12, <2>5, <2>9, Zenon
  <2> QED
      BY <1>6, <1>8, <2>7, <2>10 DEF b, HostPathIs
<1>15. CASE port = <<>>
  <2>1. ap = host
      BY <1>15
  <2>2. hp = host \o path
      BY <2>1
  <2>3. a = 0 /\ (path # <<>> => b # 0 /\ b - 1 = lh) /\ (path = <<>> => b = 0)
      BY <1>7, <1>9, <1>10, <1>15
  <2>4. ParsePort(s, hp) = IF port = <<>> \/ pn = <<>> THEN DefaultPort(s) ELSE Atoi(pn)
      BY <1>11, <1>15, <2>3
  <2>5. SubSeq(hp, 1, lh) = host
      BY DEF lh
  <2>6. path = <<>> => hp = host
      BY <2>2
  <2>7. ParseHost(hp) = host
      BY <1>12, <2>3, <2>5, <2>6, Zenon
  <2> QED
      BY <1>6, <1>8, <2>4, <2>7 DEF b, HostPathIs
<1> QED
    BY <1>14, <1>15

-----------------------------------------------------------------------------
(* The parameters of a query.                                              *)

\* The pairs of a query in the order they are written.
LEMMA Listed ==
    ASSUME NEW q, IsFiniteSet(q)
    PROVE  /\ SetToSeq(q) \in Seq(q)
           /\ \A p \in q : \E i \in 1 .. Len(SetToSeq(q)) : SetToSeq(q)[i] = p
<1> DEFINE n == Cardinality(q)
           ps == SetToSeq(q)
<1>1. n \in Nat /\ ExistsBijection(1 .. n, q)
    BY FS_CardinalityType
<1>2. \E f \in [1 .. n -> q] : IsInjective(f)
    BY <1>1 DEF ExistsBijection, Bijection, Injection
<1>3. ps \in [1 .. n -> q] /\ IsInjective(ps)
    BY <1>2 DEF SetToSeq
<1>4. ps \in Injection(1 .. n, q)
    BY <1>3 DEF Injection
<1>5. Cardinality(1 .. n) = n
    BY <1>1, FS_Interval
<1>6. ps \in Surjection(1 .. n, q)
    BY <1>4, <1>5, FS_Injection
<1>7. \A p \in q : \E i \in 1 .. n : ps[i] = p
    BY <1>6 DEF Surjection
<1> HIDE DEF ps, n
<1>8. ps \in Seq(q) /\ Len(ps) = n
    BY <1>1, <1>3
<1> QED
    BY <1>7, <1>8 DEF ps

\* How a pair is read from its piece, with and without the '='.
LEMMA PieceRead ==
    ASSUME NEW T, "=" \in T, NEW query,
           NEW name \in Seq(T \ {"="}), NEW value \in Seq(T)
    PROVE  /\ AddPiece(query, (name \o <<"=">>) \o value)
                 = AddEncodedQueryParameter(query, name, value)
           /\ AddPiece(query, name) = AddEncodedQueryParameter(query, name, <<>>)
<1> DEFINE u == name \o <<"=">>
           piece == u \o value
           ln == Len(name)
<1>1. name \in Seq(T) /\ ln \in Nat
    OBVIOUS
<1>2. u \in Seq(T) /\ Len(u) = ln + 1
    OBVIOUS
<1>3. piece = name \o (<<"=">> \o value) /\ <<"=">> \o value \in Seq(T)
    OBVIOUS
<1>4. Find(piece, "=") = ln + 1
  <2>1. Find(name \o (<<"=">> \o value), "=") = Len(name) + 1
      BY FindAfter
  <2> QED
      BY <1>3, <2>1, Zenon
<1> HIDE DEF u
<1>5. From(piece, (ln + 1) + 1) = value
    BY <1>2, CutRest
<1>6. SubSeq(piece, 1, ln) = name
    BY <1>3
<1> HIDE DEF piece, ln
<1>7. (ln + 1) - 1 = ln /\ ln + 1 # 0
    BY <1>1
<1>8. AddPiece(query, piece) = AddEncodedQueryParameter(query, name, value)
    BY <1>4, <1>5, <1>6, <1>7, Zenon DEF AddPiece
<1>9. Find(name, "=") = 0
    BY FindNone
<1> QED
    BY <1>8, <1>9 DEF AddPiece, piece, u

\* The i-th piece is read as the i-th pair.
ReadAs(p, ps) ==
    /\ Len(p) = Len(ps)
    /\ \A query : \A i \in 1 .. Len(ps) : AddPiece(query, p[i])
           = AddEncodedQueryParameter(query, ps[i][1], ps[i][2])

NamedPairs(ps) == {ps[i] : i \in {j \in 1 .. Len(ps) : ps[j][1] # <<>>}}

\* The pieces of a query give the pairs that have a name.
LEMMA PiecesRead ==
    ASSUME NEW T, NEW p \in Seq(Seq(T)), NEW M, NEW V, NEW ps \in Seq(M \X V), ReadAs(p, ps)
    PROVE  FoldLeft(AddPiece, {}, p) = NamedPairs(ps)
<1> DEFINE N == Len(p)
           Named(n) == {ps[i] : i \in {j \in 1 .. n : ps[j][1] # <<>>}}
<1>1. {} \in QuerySets(Seq(T \ {"="}) \ {<<>>}, Seq(T))
    BY FS_EmptySet DEF QuerySets
<1>2. PICK F : AddsUp({}, p, F)
    BY <1>1, AddPieceFold, Zenon
<1>3. N \in Nat /\ N = Len(ps)
    BY DEF ReadAs
<1> DEFINE S == {n \in Nat : F[n] = Named(n)}
<1>4. 0 \in S
  <2> QED
      BY <1>2 DEF AddsUp
<1>5. ASSUME NEW n \in 0 .. N - 1, n \in S PROVE n + 1 \in S
  <2> DEFINE m == n + 1
  <2>1. m \in Nat /\ m \in 1 .. N /\ m - 1 = n
      OBVIOUS
  <2>2. \A j : j \in 1 .. m <=> j \in 1 .. n \/ j = m
      OBVIOUS
  <2> HIDE DEF m
  <2>3. F[m] = AddEncodedQueryParameter(F[n], ps[m][1], ps[m][2])
      BY <1>2, <2>1, Zenon DEF AddsUp, ReadAs
  <2>4. ps[m] = <<ps[m][1], ps[m][2]>>
    <3>1. ps[m] \in M \X V
        BY <1>3, <2>1
    <3> QED
        BY <3>1
  <2>5. Named(m) = AddEncodedQueryParameter(Named(n), ps[m][1], ps[m][2])
    <3>1. CASE ps[m][1] = <<>>
      <4>1. Named(m) = Named(n)
          BY <2>2, <3>1, Zenon
      <4> HIDE DEF Named
      <4> QED
          BY <3>1, <4>1 DEF AddEncodedQueryParameter
    <3>2. CASE ps[m][1] # <<>>
      <4>1. Named(m) = Named(n) \cup {ps[m]}
          BY <2>2, <3>2, Zenon
      <4> HIDE DEF Named
      <4> QED
          BY <2>4, <3>2, <4>1, Zenon DEF AddEncodedQueryParameter
    <3> QED
        BY <3>1, <3>2, Zenon
  <2>6. m \in S
    <3> HIDE DEF Named
    <3> QED
        BY <1>5, <2>1, <2>3, <2>5
  <2> QED
      BY <2>6 DEF m
<1> HIDE DEF S
<1>6. 0 .. N \subseteq S
    BY <1>3, <1>4, <1>5, Induction, Zenon
<1>7. N \in 0 .. N
    OBVIOUS
<1>8. F[N] = Named(N)
    BY <1>6, <1>7, Zenon DEF S
<1> QED
    BY <1>2, <1>3, <1>8 DEF AddsUp, NamedPairs

NameTexts == Seq(Inner \ {"&", "="})
ValueTexts == Seq(Inner \ {"&"})

\* The text qt of a query is read as the pairs of q that have a name.
QueryRead(q, qt, Q) ==
    /\ QueryText(qt, Q)
    /\ {x \in q : x[1] # <<>>} = IF qt = <<>> THEN {} ELSE ParseParameters(Q)

\* A query that is written by pieces, each read as its pair.
LEMMA QueryWritten ==
    ASSUME NEW q \in QuerySets(NameTexts, ValueTexts),
           NEW p \in Seq(ValueTexts), ReadAs(p, SetToSeq(q)),
           NEW ss \in Seq(Seq(Inner \cup {"?"})), Joins(ss, "?", "&", p)
    PROVE  \E Q \in Seq(Inner) : QueryRead(q, FlattenSeq(ss), Q)
<1> DEFINE ps == SetToSeq(q)
           Pairs == NameTexts \X ValueTexts
<1>1. q \in SUBSET Pairs /\ IsFiniteSet(q)
    BY DEF QuerySets
<1>2. ps \in Seq(q) /\ \A x \in q : \E i \in 1 .. Len(ps) : ps[i] = x
    BY <1>1, Listed
<1> HIDE DEF Pairs
<1>3. ps \in Seq(Pairs)
    BY <1>1, <1>2
<1>4. {x \in q : x[1] # <<>>} = {ps[i] : i \in {j \in 1 .. Len(ps) : ps[j][1] # <<>>}}
  <2>1. \A i \in 1 .. Len(ps) : ps[i] \in q
      BY <1>2
  <2> HIDE DEF ps
  <2> QED
      BY <1>2, <2>1, Zenon
<1>5. FoldLeft(AddPiece, {}, p) = NamedPairs(ps)
  <2> DEFINE T == Inner \ {"&"}
  <2>1. p \in Seq(Seq(T)) /\ ps \in Seq(NameTexts \X ValueTexts) /\ ReadAs(p, ps)
      BY <1>3 DEF Pairs, ValueTexts
  <2> HIDE DEF T, ps
  <2> QED
      BY <2>1, PiecesRead, Zenon
<1>6. Len(ss) = Len(ps) /\ Len(p) = Len(ps)
    BY DEF Joins, ReadAs
<1>7. CASE p = <<>>
  <2>1. Len(p) = 0
      BY <1>7
  <2>2. ss = <<>>
    <3>1. Len(ss) = 0
        BY <1>6, <2>1
    <3> QED
        BY <3>1
  <2>3. FlattenSeq(ss) = <<>>
      BY <2>2 DEF FlattenSeq
  <2>4. {j \in 1 .. Len(ps) : ps[j][1] # <<>>} = {}
    <3>1. Len(ps) = 0
        BY <1>6, <2>1
    <3> HIDE DEF ps
    <3> QED
        BY <3>1
  <2>5. {x \in q : x[1] # <<>>} = {}
      BY <1>4, <2>4
  <2>6. <<>> \in Seq(Inner)
      OBVIOUS
  <2> QED
      BY <2>3, <2>5, <2>6, Zenon DEF QueryRead, QueryText
<1>8. CASE p # <<>>
  <2>1. "&" \in Inner
      BY InnerTokens
  <2>2. p \in Seq(Seq(Inner \ {"&"}))
      BY DEF ValueTexts
  <2>3. PICK Q \in Seq(Inner) : JoinedAs(ss, "?", "&", p, Q)
      BY <1>8, <2>1, <2>2, Joined, Zenon
  <2>4. <<"?">> \o Q # <<>>
      OBVIOUS
  <2>5. ParseParameters(Q) = {x \in q : x[1] # <<>>}
      BY <1>4, <1>5, <2>3 DEF ParseParameters, JoinedAs, NamedPairs
  <2> QED
      BY <2>3, <2>4, <2>5, Zenon DEF QueryRead, QueryText, JoinedAs
<1> QED
    BY <1>7, <1>8

\* What is known of a pair that is written, and of its place.
LEMMA PairText ==
    ASSUME NEW q \in QuerySets(NameTexts, ValueTexts), NEW i \in 1 .. Len(SetToSeq(q))
    PROVE  /\ SetToSeq(q)[i][1] \in NameTexts /\ SetToSeq(q)[i][2] \in ValueTexts
           /\ SetToSeq(q)[i] \in q
<1>1. q \in SUBSET (NameTexts \X ValueTexts) /\ IsFiniteSet(q)
    BY DEF QuerySets
<1>2. SetToSeq(q)[i] \in q
    BY <1>1, Listed
<1>3. SetToSeq(q)[i] \in NameTexts \X ValueTexts
    BY <1>1, <1>2
<1> QED
    BY <1>2, <1>3

LEMMA FunctionIsSeq ==
    ASSUME NEW S, NEW n \in Nat, NEW f \in [1 .. n -> S]
    PROVE  f \in Seq(S) /\ Len(f) = n
OBVIOUS

\* What ToText writes of a query is read as the query.
LEMMA WriteQueryRead ==
    ASSUME NEW q \in QuerySets(NameTexts, ValueTexts)
    PROVE  \E Q \in Seq(Inner) : QueryRead(q, WriteQuery(q), Q)
<1> DEFINE ps == SetToSeq(q)
           n == Len(ps)
           T == Inner \cup {"?"}
           V == Inner \ {"&"}
           c(i) == IF i = 1 THEN "?" ELSE "&"
           p == [i \in 1 .. n |-> (ps[i][1] \o <<"=">>) \o ps[i][2]]
           ss == [i \in 1 .. n |-> ((<<c(i)>> \o ps[i][1]) \o <<"=">>) \o ps[i][2]]
<1>1. ps \in Seq(q)
    BY Listed DEF QuerySets
<1>2. n \in Nat /\ DOMAIN ps = 1 .. n
    BY <1>1
<1>3. WriteQuery(q) = FlattenSeq(ss)
    BY <1>2 DEF WriteQuery
<1>4. /\ "=" \in V /\ "=" \in T /\ "?" \in T /\ "&" \in T /\ V \subseteq T
      /\ V \ {"="} \subseteq V /\ V \ {"="} = Inner \ {"&", "="}
    BY InnerTokens
<1> HIDE DEF n, V, T
<1>5. ASSUME NEW i \in 1 .. n
      PROVE  /\ ps[i][1] \in Seq(V \ {"="}) /\ ps[i][2] \in Seq(V)
             /\ ps[i][1] \in Seq(V) /\ ps[i][1] \in Seq(T) /\ ps[i][2] \in Seq(T)
  <2>1. ps[i][1] \in Seq(V \ {"="}) /\ ps[i][2] \in Seq(V)
      BY PairText, Zenon DEF n, NameTexts, ValueTexts, V
  <2> QED
      BY <1>4, <2>1
<1>6. ASSUME NEW i \in 1 .. n
      PROVE  /\ p[i] \in Seq(V) /\ ss[i] \in Seq(T)
             /\ ss[i] = <<c(i)>> \o p[i]
             /\ \A query : AddPiece(query, p[i])
                              = AddEncodedQueryParameter(query, ps[i][1], ps[i][2])
  <2> DEFINE a == ps[i][1]
             b == <<"=">>
             d == ps[i][2]
             k == c(i)
  <2>1. /\ a \in Seq(V \ {"="}) /\ d \in Seq(V)
        /\ a \in Seq(V) /\ a \in Seq(T) /\ d \in Seq(T) /\ k \in T
      BY <1>4, <1>5
  <2>2. b \in Seq(V) /\ b \in Seq(T)
      BY <1>4
  <2>3. \A query : AddPiece(query, (a \o <<"=">>) \o d) = AddEncodedQueryParameter(query, a, d)
    <3> HIDE DEF a, d
    <3>1. "=" \in V /\ a \in Seq(V \ {"="}) /\ d \in Seq(V)
        BY <1>4, <2>1
    <3> QED
        BY <3>1, PieceRead, Zenon
  <2> HIDE DEF a, b, d, k
  <2>4. (a \o b) \o d \in Seq(V)
      BY <2>1, <2>2
  <2>5. /\ ((<<k>> \o a) \o b) \o d = <<k>> \o ((a \o b) \o d)
        /\ <<k>> \o ((a \o b) \o d) \in Seq(T)
    <3>1. k \in T /\ a \in Seq(T) /\ b \in Seq(T) /\ d \in Seq(T)
        BY <2>1, <2>2
    <3> QED
        BY <3>1, SMTT(20)
  <2> QED
      BY <2>3, <2>4, <2>5, Zenon DEF a, b, d, k
<1>7. p \in [1 .. n -> Seq(V)] /\ ss \in [1 .. n -> Seq(T)]
    BY <1>6, Zenon
<1>8. p \in Seq(Seq(V)) /\ Len(p) = n /\ ss \in Seq(Seq(T)) /\ Len(ss) = n
  <2> HIDE DEF p, ss
  <2> QED
      BY <1>2, <1>7
<1> HIDE DEF p, ss
<1>9. ReadAs(p, ps)
    BY <1>6, <1>8, Zenon DEF ReadAs, n
<1>10. Joins(ss, "?", "&", p)
    BY <1>6, <1>8 DEF Joins
<1>11. \E Q \in Seq(Inner) : QueryRead(q, FlattenSeq(ss), Q)
  <2>1. p \in Seq(ValueTexts) /\ ss \in Seq(Seq(Inner \cup {"?"}))
      BY <1>8 DEF ValueTexts, V, T
  <2> QED
      BY <1>9, <1>10, <2>1, QueryWritten
<1> QED
    BY <1>3, <1>11

\* The same of a query that is given, some of its pairs without the '='.
LEMMA RenderQueryRead ==
    ASSUME NEW q \in QuerySets(NameTexts, ValueTexts)
    PROVE  \E Q \in Seq(Inner) : QueryRead(q, RenderQuery(q), Q)
<1> DEFINE ps == SetToSeq(q)
           n == Len(ps)
           T == Inner \cup {"?"}
           V == Inner \ {"&"}
           c(i) == IF i = 1 THEN "?" ELSE "&"
           r(i) == IF ps[i][2] = <<>> THEN <<>> ELSE <<"=">> \o ps[i][2]
           p == [i \in 1 .. n |-> ps[i][1] \o r(i)]
           ss == [i \in 1 .. n |-> (<<c(i)>> \o ps[i][1]) \o r(i)]
<1>1. ps \in Seq(q)
    BY Listed DEF QuerySets
<1>2. n \in Nat /\ DOMAIN ps = 1 .. n
    BY <1>1
<1>3. RenderQuery(q) = FlattenSeq(ss)
    BY <1>2 DEF RenderQuery
<1>4. /\ "=" \in V /\ "=" \in T /\ "?" \in T /\ "&" \in T /\ V \subseteq T
      /\ V \ {"="} \subseteq V /\ V \ {"="} = Inner \ {"&", "="}
    BY InnerTokens
<1> HIDE DEF n, V, T
<1>5. ASSUME NEW i \in 1 .. n
      PROVE  /\ ps[i][1] \in Seq(V \ {"="}) /\ ps[i][2] \in Seq(V)
             /\ ps[i][1] \in Seq(V) /\ ps[i][1] \in Seq(T) /\ ps[i][2] \in Seq(T)
  <2>1. ps[i][1] \in Seq(V \ {"="}) /\ ps[i][2] \in Seq(V)
      BY PairText, Zenon DEF n, NameTexts, ValueTexts, V
  <2> QED
      BY <1>4, <2>1
<1>6. ASSUME NEW i \in 1 .. n
      PROVE  /\ p[i] \in Seq(V) /\ ss[i] \in Seq(T)
             /\ ss[i] = <<c(i)>> \o p[i]
             /\ \A query : AddPiece(query, p[i])
                              = AddEncodedQueryParameter(query, ps[i][1], ps[i][2])
  <2> DEFINE a == ps[i][1]
             b == <<"=">>
             d == ps[i][2]
             e == r(i)
             k == c(i)
  <2>1. /\ a \in Seq(V \ {"="}) /\ d \in Seq(V)
        /\ a \in Seq(V) /\ a \in Seq(T) /\ d \in Seq(T) /\ k \in T
      BY <1>4, <1>5
  <2>2. e = IF d = <<>> THEN <<>> ELSE b \o d
      OBVIOUS
  <2>3. b \in Seq(V) /\ b \in Seq(T) /\ <<>> \in Seq(V)
      BY <1>4
  <2> HIDE DEF a, d, e, k
  <2>4. \A query : /\ AddPiece(query, (a \o <<"=">>) \o d) = AddEncodedQueryParameter(query, a, d)
                   /\ AddPiece(query, a) = AddEncodedQueryParameter(query, a, <<>>)
    <3>1. "=" \in V /\ a \in Seq(V \ {"="}) /\ d \in Seq(V)
        BY <1>4, <2>1
    <3> QED
        BY <3>1, PieceRead, Zenon
  <2>5. a \o <<>> = a
      OBVIOUS
  <2> HIDE DEF b
  <2>6. (a \o b) \o d = a \o (b \o d) /\ b \o d \in Seq(V)
      BY <2>1, <2>3
  <2>7. e \in Seq(V)
      BY <2>2, <2>6
  <2>8. e \in Seq(T) /\ a \o e \in Seq(V)
      BY <1>4, <2>1, <2>7
  <2>9. (<<k>> \o a) \o e = <<k>> \o (a \o e) /\ <<k>> \o (a \o e) \in Seq(T)
      BY <2>1, <2>8
  <2>10. \A query : AddPiece(query, a \o e) = AddEncodedQueryParameter(query, a, d)
      BY <2>2, <2>4, <2>5, <2>6, Zenon DEF b
  <2>11. p[i] = a \o e /\ ss[i] = (<<k>> \o a) \o e
      BY Zenon DEF a, e, k
  <2> QED
      BY <2>8, <2>9, <2>10, <2>11, Zenon DEF a, d, k
<1>7. p \in [1 .. n -> Seq(V)] /\ ss \in [1 .. n -> Seq(T)]
    BY <1>6, Zenon
<1>8. p \in Seq(Seq(V)) /\ Len(p) = n /\ ss \in Seq(Seq(T)) /\ Len(ss) = n
  <2> HIDE DEF p, ss
  <2> QED
      BY <1>2, <1>7
<1> HIDE DEF p, ss
<1>9. ReadAs(p, ps)
    BY <1>6, <1>8, Zenon DEF ReadAs, n
<1>10. Joins(ss, "?", "&", p)
    BY <1>6, <1>8 DEF Joins
<1>11. \E Q \in Seq(Inner) : QueryRead(q, FlattenSeq(ss), Q)
  <2>1. p \in Seq(ValueTexts) /\ ss \in Seq(Seq(Inner \cup {"?"}))
      BY <1>8 DEF ValueTexts, V, T
  <2> QED
      BY <1>9, <1>10, <2>1, QueryWritten
<1> QED
    BY <1>3, <1>11

-----------------------------------------------------------------------------
(* The segments of a path.                                                 *)

\* The text path is split into the segments it was written from.
PathRead(segments, path, P) ==
    /\ PathText(path, P)
    /\ segments = <<>> => path = <<>>
    /\ segments # <<>> => path # <<>> /\ Pieces(P, "/") = segments

LEMMA WritePathRead ==
    ASSUME NEW T, "/" \in T, NEW segments \in Seq(Seq(T \ {"/"}))
    PROVE  \E P \in Seq(T) : PathRead(segments, WritePath(segments), P)
<1> DEFINE n == Len(segments)
           ss == [i \in 1 .. n |-> <<"/">> \o segments[i]]
<1>1. n \in Nat /\ DOMAIN segments = 1 .. n /\ \A i \in 1 .. n : segments[i] \in Seq(T \ {"/"})
    OBVIOUS
<1>2. WritePath(segments) = FlattenSeq(ss)
    BY <1>1 DEF WritePath
<1>3. CASE segments = <<>>
  <2>1. n = 0
      BY <1>3
  <2> HIDE DEF n
  <2>2. ss = <<>>
      BY <2>1
  <2>3. FlattenSeq(ss) = <<>>
      BY <2>2, Zenon DEF FlattenSeq
  <2>4. <<>> \in Seq(T)
      OBVIOUS
  <2> QED
      BY <1>2, <1>3, <2>3, <2>4, Zenon DEF PathRead, PathText
<1>4. CASE segments # <<>>
  <2>2. ss \in [1 .. n -> Seq(T)]
      OBVIOUS
  <2>4. ss \in Seq(Seq(T \cup {"/"})) /\ Len(ss) = n
    <3> HIDE DEF ss, n
    <3> QED
        BY <1>1, <2>2, FunctionIsSeq
  <2>5. Joins(ss, "/", "/", segments)
    <3>1. \A i \in 1 .. n : ss[i] = <<"/">> \o segments[i]
        OBVIOUS
    <3> HIDE DEF ss
    <3> QED
        BY <2>4, <3>1 DEF Joins
  <2> HIDE DEF ss
  <2>6. PICK P \in Seq(T) : JoinedAs(ss, "/", "/", segments, P)
      BY <1>4, <2>4, <2>5, Joined, Zenon
  <2>7. <<"/">> \o P # <<>>
      OBVIOUS
  <2> QED
      BY <1>2, <1>4, <2>6, <2>7, Zenon DEF PathRead, PathText, JoinedAs
<1> QED
    BY <1>3, <1>4

Dots == {<<>>, <<".">>, <<"..">>}
Segments == Seq(NoSlash) \ Dots

\* Segments stay as they are when they are pushed one by one.
LEMMA SegmentsKept ==
    ASSUME NEW U, NEW q \in Seq(U \ Dots)
    PROVE  FoldLeft(Push, <<>>, q) = q
<1> DEFINE N == Len(q)
           W == U \ Dots
<1>1. <<>> \in Seq(W) /\ N \in Nat /\ N \in 0 .. N
    OBVIOUS
<1>2. PICK F : PushesUp(<<>>, q, F)
    BY <1>1, PushFold, Zenon
<1>3. /\ SubSeq(q, 1, 0) = <<>> /\ SubSeq(q, 1, N) = q
      /\ \A n \in 1 .. N : SubSeq(q, 1, n) = Append(SubSeq(q, 1, n - 1), q[n])
    OBVIOUS
<1>4. \A n \in 1 .. N : q[n] \notin Dots
    OBVIOUS
<1> DEFINE S == {n \in Nat : F[n] = SubSeq(q, 1, n)}
<1>5. 0 \in S
    BY <1>2, <1>3, Zenon DEF PushesUp
<1>6. ASSUME NEW n \in 0 .. N - 1, n \in S PROVE n + 1 \in S
  <2> DEFINE m == n + 1
  <2>1. m \in Nat /\ m \in 1 .. N /\ m - 1 = n
      OBVIOUS
  <2> HIDE DEF m
  <2>2. F[m] = Push(SubSeq(q, 1, n), q[m])
      BY <1>2, <1>6, <2>1, Zenon DEF PushesUp
  <2>3. Push(SubSeq(q, 1, n), q[m]) = Append(SubSeq(q, 1, n), q[m])
      BY <1>4, <2>1, Zenon DEF Push, Dots
  <2>4. m \in S
      BY <1>3, <2>1, <2>2, <2>3, Zenon
  <2> QED
      BY <2>4 DEF m
<1> HIDE DEF S
<1>7. 0 .. N \subseteq S
    BY <1>5, <1>6, Induction
<1> QED
    BY <1>2, <1>7 DEF S, PushesUp

\* What is pushed on segments leaves segments.
LEMMA SegmentsPushed ==
    ASSUME NEW U, NEW a \in Seq(U \ Dots), NEW q \in Seq(U)
    PROVE  FoldLeft(Push, a, q) \in Seq(U \ Dots)
<1> DEFINE N == Len(q)
           W == U \ Dots
<1>1. a \in Seq(U) /\ N \in Nat /\ N \in 0 .. N
    OBVIOUS
<1>2. PICK F : PushesUp(a, q, F)
    BY <1>1, PushFold
<1>3. ASSUME NEW s \in Seq(W), NEW e \in U PROVE Push(s, e) \in Seq(W)
  <2> HIDE DEF W
  <2>1. CASE e \in Dots
    <3>1. Pop(s) \in Seq(W)
        BY DEF Pop, Front
    <3> QED
        BY <2>1, <3>1 DEF Push, Dots
  <2>2. CASE e \notin Dots
    <3>1. e \in W
        BY <2>2 DEF W
    <3>2. Append(s, e) \in Seq(W)
        BY <3>1
    <3> QED
        BY <2>2, <3>2 DEF Push, Dots
  <2> QED
      BY <2>1, <2>2
<1> DEFINE S == {n \in Nat : F[n] \in Seq(W)}
<1>5. 0 \in S
    BY <1>2 DEF PushesUp
<1>6. ASSUME NEW n \in 0 .. N - 1, n \in S PROVE n + 1 \in S
  <2> DEFINE m == n + 1
  <2>1. m \in Nat /\ m \in 1 .. N /\ m - 1 = n
      OBVIOUS
  <2>2. q[m] \in U
      OBVIOUS
  <2> HIDE DEF m
  <2>3. F[m] = Push(F[n], q[m])
      BY <1>2, <2>1 DEF PushesUp
  <2>4. m \in S
      BY <1>3, <1>6, <2>1, <2>2, <2>3, Zenon
  <2> QED
      BY <2>4 DEF m
<1> HIDE DEF S
<1>7. 0 .. N \subseteq S
    BY <1>1, <1>5, <1>6, Induction, Zenon
<1> QED
    BY <1>2, <1>7 DEF S, PushesUp

-----------------------------------------------------------------------------
(* Writing a builder and parsing what was written.                         *)

SchemeNames == {"", "http", "https"}
PortNumbers == {-1, 0, 80, 443, 8888}

Builders ==
    [scheme : SchemeNames,
     host : Seq(HostToken),
     port : PortNumbers,
     segments : Seq(Segments),
     query : QuerySets(NameTexts \ {<<>>}, ValueTexts),
     fragment : Seq(Late)]

\* The inductive invariant: whatever was parsed or set, no part of the builder
\* holds a separator that would end it in the text.
BuilderOK == builder \in Builders

\* A URL by its parts, and what Parse makes of it.
UrlOf(s, host, pn, port, P, path, Q, qt, f, ft) ==
    /\ s \in Inner /\ Lower(s) \in {"http", "https"}
    /\ host \in Seq(HostToken)
    /\ pn \in Seq(NoSlash) /\ PortText(port, pn)
    /\ P \in Seq(Inner) /\ PathText(path, P)
    /\ port = <<>> => path \in Seq(Inner \ {":"})
    /\ (host \o port) \o path # <<>>
    /\ Q \in Seq(Inner) /\ QueryText(qt, Q)
    /\ f \in Seq(Late) /\ FragmentText(ft, f)

ParsedAs(s, host, pn, port, P, path, Q, qt, f, ft) ==
    ParseText(UrlText(s, (host \o port) \o path, qt, ft)) =
        [scheme |-> Lower(s),
         host |-> host,
         port |-> IF port = <<>> \/ pn = <<>> THEN DefaultPort(Lower(s)) ELSE Atoi(pn),
         segments |-> AddEncodedPathSegments(<<>>, IF path = <<>> THEN host \o port ELSE P),
         query |-> IF qt = <<>> THEN {} ELSE ParseParameters(Q),
         fragment |-> IF ft = <<>> THEN <<>> ELSE f]

LEMMA ParsedText ==
    ASSUME NEW s, NEW host, NEW pn, NEW port, NEW P, NEW path, NEW Q, NEW qt, NEW f, NEW ft,
           UrlOf(s, host, pn, port, P, path, Q, qt, f, ft)
    PROVE  ParsedAs(s, host, pn, port, P, path, Q, qt, f, ft)
<1> SUFFICES
      ASSUME s \in Inner, Lower(s) \in {"http", "https"},
             host \in Seq(HostToken),
             pn \in Seq(NoSlash), PortText(port, pn),
             P \in Seq(Inner), PathText(path, P),
             port = <<>> => path \in Seq(Inner \ {":"}),
             (host \o port) \o path # <<>>,
             Q \in Seq(Inner), QueryText(qt, Q),
             f \in Seq(Late), FragmentText(ft, f)
      PROVE  ParsedAs(s, host, pn, port, P, path, Q, qt, f, ft)
    BY DEF UrlOf
<1> DEFINE hp == (host \o port) \o path
           url == UrlText(s, hp, qt, ft)
<1>1. HostPathIs(hp, Lower(s), host, port, pn, path, P)
    BY HostPathParts, Zenon
<1>2. hp # <<>> /\ hp \in Seq(Inner)
    BY <1>1 DEF HostPathIs
<1> HIDE DEF hp
<1>3. UrlIs(url, s, hp, qt, Q, ft, f)
    BY <1>2, UrlParts
<1> HIDE DEF url
<1>4. ParseText(url) = [scheme |-> Lower(s),
                        host |-> ParseHost(hp),
                        port |-> ParsePort(Lower(s), hp),
                        segments |-> AddEncodedPathSegments(<<>>, From(hp, Find(hp, "/") + 1)),
                        query |-> ParseQuery(url),
                        fragment |-> ParseFragment(url)]
    BY <1>2, <1>3, Zenon DEF ParseText, UrlIs
<1> QED
    BY <1>1, <1>3, <1>4, Zenon DEF hp, url, HostPathIs, UrlIs, ParsedAs

\* The scheme and the port that ToText writes.
LEMMA PortRead ==
    ASSUME NEW scheme \in {"http", "https"}, NEW port \in PortNumbers, NEW n,
           n = IF port = -1 THEN DefaultPort(scheme) ELSE port
    PROVE  /\ Atoi(<<Number(n)>>) = n
           /\ Number(n) \in NoSlash /\ <<Number(n)>> \in Seq(NoSlash)
           /\ scheme \in Inner /\ Lower(scheme) = scheme
<1>1. n \in {0, 80, 443, 8888}
    BY DEF DefaultPort, PortNumbers
<1>2. Number(n) \in {"0", "80", "443", "8888"}
    BY <1>1 DEF Number
<1>3. {"0", "80", "443", "8888", "http", "https"} \subseteq Tokens
    BY DEF Tokens, Fixed
<1>4. Number(n) \in NoSlash
    BY <1>2, <1>3 DEF NoSlash, Inner
<1>5. Atoi(<<Number(n)>>) = n
    BY <1>1 DEF Atoi, Number
<1>6. scheme \in Inner
    BY <1>3 DEF Inner
<1>7. Lower(scheme) = scheme
    BY DEF Lower
<1> QED
    BY <1>4, <1>5, <1>6, <1>7

LEMMA FewerQueries ==
    ASSUME NEW M, NEW N, M \subseteq N, NEW V, NEW q \in QuerySets(M, V)
    PROVE  q \in QuerySets(N, V) /\ \A x \in q : x[1] \in M
<1>1. q \in SUBSET (M \X V) /\ IsFiniteSet(q)
    BY DEF QuerySets
<1> QED
    BY <1>1 DEF QuerySets

\* Segments that were written are the segments that are parsed, and without
\* segments the text before the path is.
LEMMA SegmentsRead ==
    ASSUME NEW segments \in Seq(Segments), NEW ap \in Seq(NoSlash), ap \notin Dots,
           NEW path, NEW P, PathRead(segments, path, P)
    PROVE  AddEncodedPathSegments(<<>>, IF path = <<>> THEN ap ELSE P)
              = IF segments = <<>> THEN <<ap>> ELSE segments
<1>1. CASE segments = <<>>
  <2>1. path = <<>>
      BY <1>1 DEF PathRead
  <2>2. Pieces(ap, "/") = <<ap>>
      BY PiecesOfOne, Zenon DEF NoSlash
  <2>3. <<ap>> \in Seq(Segments)
    <3>1. ap \in Segments
        BY DEF Segments
    <3> QED
        BY <3>1
  <2>4. FoldLeft(Push, <<>>, <<ap>>) = <<ap>>
      BY <2>3, SegmentsKept, Zenon DEF Segments
  <2> QED
      BY <1>1, <2>1, <2>2, <2>4 DEF AddEncodedPathSegments
<1>2. CASE segments # <<>>
  <2>1. path # <<>> /\ Pieces(P, "/") = segments
      BY <1>2 DEF PathRead
  <2>2. FoldLeft(Push, <<>>, segments) = segments
      BY SegmentsKept, Zenon DEF Segments
  <2> QED
      BY <1>2, <2>1, <2>2 DEF AddEncodedPathSegments
<1> QED
    BY <1>1, <1>2

FragmentPart(f) == IF f = <<>> THEN <<>> ELSE <<"#">> \o f

PartsText(s, host, n, segments, q, f) ==
    (((<<s, ":", "/", "/">> \o (host \o <<":", Number(n)>>)) \o WritePath(segments))
        \o WriteQuery(q)) \o FragmentPart(f)

\* Host and port as they are written.
LEMMA AuthorityText ==
    ASSUME NEW host \in Seq(HostToken), NEW c \in NoSlash, NEW port, port = <<":", c>>
    PROVE  /\ port = <<":">> \o <<c>> /\ port # <<>> /\ <<c>> # <<>> /\ <<c>> \in Seq(NoSlash)
           /\ host \o port \in Seq(NoSlash) /\ host \o port \in Seq(Inner)
           /\ host \o port \notin Dots
<1>1. host \in Seq(NoSlash) /\ ":" \in NoSlash /\ NoSlash \subseteq Inner
    BY HostTokens
<1>3. host \o port \in Seq(NoSlash) /\ Len(host \o port) = Len(host) + 2 /\ Len(host) \in Nat
    BY <1>1
<1>4. host \o port \notin Dots
  <2> DEFINE x == host \o port
  <2>1. x \in Seq(NoSlash) /\ Len(x) >= 2
      BY <1>3
  <2> HIDE DEF x
  <2>2. x # <<>> /\ x # <<".">> /\ x # <<"..">>
      BY <2>1
  <2> QED
      BY <2>2 DEF Dots, x
<1>5. host \o port \in Seq(Inner)
    BY <1>1
<1> QED
    BY <1>3, <1>4, <1>5

LEMMA PathTextType ==
    ASSUME NEW T, "/" \in T, NEW P \in Seq(T), NEW path, PathText(path, P)
    PROVE  path \in Seq(T)
<1>1. <<>> \in Seq(T) /\ <<"/">> \o P \in Seq(T)
    OBVIOUS
<1> QED
    BY <1>1, Zenon DEF PathText

LEMMA FragmentPartText ==
    ASSUME NEW f \in Seq(Late)
    PROVE  /\ FragmentText(FragmentPart(f), f)
           /\ (IF FragmentPart(f) = <<>> THEN <<>> ELSE f) = f
<1> QED
    BY DEF FragmentText, FragmentPart

\* What parsing the text of the parts gives: the parts.
PartsParsed(s, host, n, segments, q, f) ==
    ParseText(PartsText(s, host, n, segments, q, f)) =
        [scheme |-> s, host |-> host, port |-> n,
         segments |-> IF segments = <<>> THEN <<host \o <<":", Number(n)>> >> ELSE segments,
         query |-> q, fragment |-> f]

LEMMA PartsRead ==
    ASSUME NEW s \in Inner, Lower(s) = s, s \in {"http", "https"},
           NEW host \in Seq(HostToken),
           NEW n, Atoi(<<Number(n)>>) = n, Number(n) \in NoSlash,
           NEW segments \in Seq(Segments),
           NEW q \in QuerySets(NameTexts, ValueTexts), \A x \in q : x[1] # <<>>,
           NEW f \in Seq(Late)
    PROVE  PartsParsed(s, host, n, segments, q, f)
<1> DEFINE pn == <<Number(n)>>
           port == <<":", Number(n)>>
           ap == host \o port
           path == WritePath(segments)
           qt == WriteQuery(q)
           ft == FragmentPart(f)
<1>1. /\ port = <<":">> \o pn /\ port # <<>> /\ pn # <<>> /\ pn \in Seq(NoSlash)
      /\ ap \in Seq(NoSlash) /\ ap \in Seq(Inner) /\ ap \notin Dots
    BY AuthorityText
<1>2. PICK P \in Seq(Inner) : PathRead(segments, path, P)
  <2>1. Segments \subseteq Seq(Inner \ {"/"})
      BY DEF Segments, NoSlash
  <2>2. segments \in Seq(Seq(Inner \ {"/"}))
      BY <2>1
  <2>3. "/" \in Inner
      BY HostTokens
  <2> QED
      BY <2>2, <2>3, WritePathRead, Zenon
<1>3. PICK Q \in Seq(Inner) : QueryRead(q, qt, Q)
    BY WriteQueryRead
<1>4. FragmentText(ft, f) /\ (IF ft = <<>> THEN <<>> ELSE f) = f
    BY FragmentPartText
<1>5. Atoi(pn) = n
    OBVIOUS
<1>6. PartsText(s, host, n, segments, q, f) = (((<<s, ":", "/", "/">> \o ap) \o path) \o qt) \o ft
    BY DEF PartsText
<1> HIDE DEF pn, port, path, qt, ft
<1>7. PathText(path, P) /\ QueryText(qt, Q) /\ PortText(port, pn)
    BY <1>1, <1>2, <1>3 DEF PathRead, QueryRead, PortText
<1>8. path \in Seq(Inner)
  <2>1. "/" \in Inner
      BY HostTokens
  <2> QED
      BY <1>7, <2>1, PathTextType
<1>10. PartsText(s, host, n, segments, q, f) = UrlText(s, ap \o path, qt, ft)
  <2>1. PICK d \in Seq(Inner) : d = <<s, ":", "/", "/">>
      BY UrlHead
  <2> HIDE DEF ap
  <2>2. ap \in Seq(Inner)
      BY <1>1
  <2>3. Grouped(d, ap, path)
      BY <1>8, <2>2, ConcatAssociative, Zenon
  <2> QED
      BY <1>6, <2>1, <2>3, Zenon DEF UrlText, Grouped
<1>11. ParsedAs(s, host, pn, port, P, path, Q, qt, f, ft)
  <2>1. UrlOf(s, host, pn, port, P, path, Q, qt, f, ft)
      BY <1>1, <1>4, <1>7 DEF UrlOf
  <2> QED
      BY <2>1, ParsedText
<1>12. AddEncodedPathSegments(<<>>, IF path = <<>> THEN ap ELSE P)
          = IF segments = <<>> THEN <<ap>> ELSE segments
    BY <1>1, <1>2, SegmentsRead, Zenon
<1>13. (IF qt = <<>> THEN {} ELSE ParseParameters(Q)) = q
    BY <1>3, Zenon DEF QueryRead
<1> QED
    BY <1>1, <1>4, <1>5, <1>10, <1>11, <1>12, <1>13, Zenon DEF port, ParsedAs, PartsParsed

\* The parts of a builder of the invariant.
LEMMA BuilderParts ==
    ASSUME NEW b \in Builders
    PROVE  /\ b.scheme \in SchemeNames
           /\ b.host \in Seq(HostToken)
           /\ b.port \in PortNumbers
           /\ b.segments \in Seq(Segments)
           /\ b.query \in QuerySets(NameTexts \ {<<>>}, ValueTexts)
           /\ b.fragment \in Seq(Late)
           /\ b = [scheme |-> b.scheme, host |-> b.host, port |-> b.port,
                   segments |-> b.segments, query |-> b.query, fragment |-> b.fragment]
<1> DEFINE Hosts == Seq(HostToken)
           Lists == Seq(Segments)
           Queries == QuerySets(NameTexts \ {<<>>}, ValueTexts)
           Ends == Seq(Late)
<1>1. b \in [scheme : SchemeNames, host : Hosts, port : PortNumbers,
             segments : Lists, query : Queries, fragment : Ends]
    BY DEF Builders
<1> HIDE DEF Hosts, Lists, Queries, Ends
<1>2. /\ b.scheme \in SchemeNames /\ b.host \in Hosts /\ b.port \in PortNumbers
      /\ b.segments \in Lists /\ b.query \in Queries /\ b.fragment \in Ends
      /\ b = [scheme |-> b.scheme, host |-> b.host, port |-> b.port,
              segments |-> b.segments, query |-> b.query, fragment |-> b.fragment]
    BY <1>1
<1> QED
    BY <1>2 DEF Hosts, Lists, Queries, Ends

LEMMA ReplacedParts ==
    ASSUME NEW b \in Builders, NEW n, NEW k
    PROVE  [b EXCEPT !.port = n, !.segments = k] =
              [scheme |-> b.scheme, host |-> b.host, port |-> n,
               segments |-> k, query |-> b.query, fragment |-> b.fragment]
<1> DEFINE Hosts == Seq(HostToken)
           Lists == Seq(Segments)
           Queries == QuerySets(NameTexts \ {<<>>}, ValueTexts)
           Ends == Seq(Late)
<1>1. b \in [scheme : SchemeNames, host : Hosts, port : PortNumbers,
             segments : Lists, query : Queries, fragment : Ends]
    BY DEF Builders
<1> HIDE DEF Hosts, Lists, Queries, Ends
<1> DEFINE c == [b EXCEPT !.port = n, !.segments = k]
<1>2. /\ c \in [scheme : SchemeNames, host : Hosts, port : {n},
                segments : {k}, query : Queries, fragment : Ends]
      /\ c.scheme = b.scheme /\ c.host = b.host /\ c.port = n
      /\ c.segments = k /\ c.query = b.query /\ c.fragment = b.fragment
    BY <1>1, Zenon
<1> HIDE DEF c
<1>3. c = [scheme |-> c.scheme, host |-> c.host, port |-> c.port,
           segments |-> c.segments, query |-> c.query, fragment |-> c.fragment]
    BY <1>2
<1> QED
    BY <1>3 DEF c

\* The builder that the text of another one is parsed into.
Reparsed(b) ==
    [b EXCEPT !.port = IF @ = -1 THEN DefaultPort(b.scheme) ELSE @,
              !.segments = IF @ = <<>> THEN <<Authority(b)>> ELSE @]

LEMMA TextRead ==
    ASSUME NEW b \in Builders, b.scheme # ""
    PROVE  ParseText(ToText(b)) = Reparsed(b)
<1> DEFINE n == IF b.port = -1 THEN DefaultPort(b.scheme) ELSE b.port
<1>1. /\ b.host \in Seq(HostToken) /\ b.segments \in Seq(Segments) /\ b.fragment \in Seq(Late)
      /\ b.query \in QuerySets(NameTexts \ {<<>>}, ValueTexts)
    BY BuilderParts, Zenon
<1>2. b.scheme \in {"http", "https"} /\ b.port \in PortNumbers
  <2>1. b.scheme \in SchemeNames /\ b.port \in PortNumbers
      BY BuilderParts, Zenon
  <2> QED
      BY <2>1, Zenon DEF SchemeNames
<1>3. /\ Atoi(<<Number(n)>>) = n /\ Number(n) \in NoSlash
      /\ b.scheme \in Inner /\ Lower(b.scheme) = b.scheme
    BY <1>2, PortRead, Zenon
<1>4. b.query \in QuerySets(NameTexts, ValueTexts) /\ \A x \in b.query : x[1] # <<>>
  <2> DEFINE Given == NameTexts \ {<<>>}
  <2>1. Given \subseteq NameTexts /\ b.query \in QuerySets(Given, ValueTexts)
      BY <1>1, Zenon
  <2>2. \A name \in Given : name # <<>>
      BY Zenon
  <2> HIDE DEF Given
  <2>3. b.query \in QuerySets(NameTexts, ValueTexts) /\ \A x \in b.query : x[1] \in Given
      BY <2>1, FewerQueries, Zenon
  <2> QED
      BY <2>2, <2>3, Zenon
<1>5. ToText(b) = PartsText(b.scheme, b.host, n, b.segments, b.query, b.fragment)
    BY Zenon DEF ToText, Authority, PartsText, FragmentPart
<1>6. Authority(b) = b.host \o <<":", Number(n)>>
    BY Zenon DEF Authority
<1>7. Reparsed(b) = [scheme |-> b.scheme, host |-> b.host, port |-> n,
                     segments |-> IF b.segments = <<>> THEN <<Authority(b)>> ELSE b.segments,
                     query |-> b.query, fragment |-> b.fragment]
  <2> DEFINE g == IF b.segments = <<>> THEN <<Authority(b)>> ELSE b.segments
  <2>1. Reparsed(b) = [b EXCEPT !.port = n, !.segments = g]
      BY Zenon DEF Reparsed
  <2> HIDE DEF n, g
  <2>2. [b EXCEPT !.port = n, !.segments = g] =
           [scheme |-> b.scheme, host |-> b.host, port |-> n,
            segments |-> g, query |-> b.query, fragment |-> b.fragment]
      BY ReplacedParts, Zenon
  <2> QED
      BY <2>1, <2>2, Zenon DEF g
<1> HIDE DEF n
<1>8. PartsParsed(b.scheme, b.host, n, b.segments, b.query, b.fragment)
    BY <1>1, <1>2, <1>3, <1>4, PartsRead, Zenon
<1> QED
    BY <1>5, <1>6, <1>7, <1>8, Zenon DEF PartsParsed

-----------------------------------------------------------------------------
(* The texts that are parsed.                                              *)

InputSchemes == {"http", "HTTP", "https", "file"}
InputHosts == {<<>>, <<"host">>}
InputPorts == {<<>>, <<":">>, <<":", "port">>} \cup {<<":", p>> : p \in Ports}
InputQueries == {q \in SUBSET (Names \X Values) : Cardinality(q) <= 2}

LEMMA FixedTokens ==
    /\ {"http", "https", "HTTP", "file"} \subseteq Inner
    /\ "host" \in HostToken /\ {"port", "80", "443", "8888"} \subseteq NoSlash
    /\ "name" \in Inner \ {"&", "="} /\ "value" \in Inner \ {"&"} /\ "fragment" \in Late
<1>1. Fixed \subseteq Tokens
    BY DEF Tokens
<1>2. {"http", "https", "HTTP", "file"} \subseteq Inner
    BY <1>1 DEF Fixed, Inner
<1>3. "host" \in HostToken
    BY <1>1 DEF Fixed, Inner, HostToken
<1>4. {"port", "80", "443", "8888"} \subseteq NoSlash
    BY <1>1 DEF Fixed, Inner, NoSlash
<1>5. "name" \in Inner \ {"&", "="} /\ "value" \in Inner \ {"&"} /\ "fragment" \in Late
    BY <1>1 DEF Fixed, Inner, Late
<1> QED
    BY <1>2, <1>3, <1>4, <1>5

LEMMA InputSchemeRead ==
    ASSUME NEW s \in InputSchemes
    PROVE  /\ s \in Inner
           /\ s # "file" => /\ Lower(s) \in {"http", "https"}
                            /\ Lower(s) = IF s = "https" THEN "https" ELSE "http"
           /\ s = "file" => Lower(s) \notin {"http", "https"}
<1>1. s \in Inner
    BY FixedTokens DEF InputSchemes
<1>2. s # "file" => Lower(s) \in {"http", "https"} /\ Lower(s) = IF s = "https" THEN "https" ELSE "http"
    BY DEF Lower, InputSchemes
<1>3. s = "file" => Lower(s) \notin {"http", "https"}
    BY DEF Lower
<1> QED
    BY <1>1, <1>2, <1>3

LEMMA InputHostType ==
    ASSUME NEW host \in InputHosts
    PROVE  host \in Seq(HostToken) /\ (host # <<>> => host[1] = "host")
<1>1. <<"host">> \in Seq(HostToken) /\ <<>> \in Seq(HostToken) /\ <<"host">>[1] = "host"
    BY FixedTokens
<1> QED
    BY <1>1, Zenon DEF InputHosts

\* The port a text names, or the scheme's own.
PortNamed(s, port, pn) ==
    /\ PortText(port, pn)
    /\ LET n == IF port = <<>> \/ pn = <<>> THEN DefaultPort(s) ELSE Atoi(pn)
       IN  /\ n = IF Len(port) = 2 THEN Atoi(Tail(port)) ELSE IF s = "https" THEN 443 ELSE 80
           /\ n \in PortNumbers

LEMMA InputPortRead ==
    ASSUME NEW s \in {"http", "https"}, NEW port \in InputPorts
    PROVE  /\ port \in Seq(NoSlash) /\ (port # <<>> => port[1] = ":")
           /\ \E pn \in Seq(NoSlash) : PortNamed(s, port, pn)
<1>1. DefaultPort(s) \in PortNumbers /\ DefaultPort(s) = IF s = "https" THEN 443 ELSE 80
    BY DEF DefaultPort, PortNumbers
<1>2. \A text : Atoi(text) \in PortNumbers
    BY DEF Atoi, PortNumbers
<1>3. <<>> \in Seq(NoSlash) /\ Len(<<>>) # 2 /\ ":" \in NoSlash
    BY HostTokens
<1>4. CASE port = <<>>
  <2>1. PortNamed(s, <<>>, <<>>)
      BY <1>1 DEF PortNamed, PortText
  <2> QED
      BY <1>3, <1>4, <2>1, Zenon
<1>5. CASE port = <<":">>
  <2>1. /\ <<":">> = <<":">> \o <<>> /\ Len(<<":">>) # 2 /\ <<":">>[1] = ":"
        /\ <<":">> \in Seq(NoSlash)
      BY <1>3
  <2>2. PortNamed(s, <<":">>, <<>>)
      BY <1>1 DEF PortNamed, PortText
  <2> QED
      BY <1>3, <1>5, <2>1, <2>2, Zenon
<1>6. ASSUME NEW p \in {"port", "80", "443", "8888"}, port = <<":", p>>
      PROVE  /\ port \in Seq(NoSlash) /\ port[1] = ":"
             /\ \E pn \in Seq(NoSlash) : PortNamed(s, port, pn)
  <2>1. p \in NoSlash
      BY FixedTokens
  <2>2. /\ port = <<":">> \o <<p>> /\ Len(port) = 2 /\ Tail(port) = <<p>> /\ port # <<>>
        /\ <<p>> # <<>> /\ <<p>> \in Seq(NoSlash) /\ port \in Seq(NoSlash) /\ port[1] = ":"
      BY <1>3, <1>6, <2>1
  <2>3. PortNamed(s, port, <<p>>)
      BY <1>2, <2>2, Zenon DEF PortNamed, PortText
  <2> QED
      BY <2>2, <2>3, Zenon
<1>7. port # <<>> /\ port # <<":">> => \E p \in {"port", "80", "443", "8888"} : port = <<":", p>>
  <2>1. Ports \subseteq {"80", "443", "8888"}
      BY HttpUrlAssumption
  <2> QED
      BY <2>1 DEF InputPorts
<1> QED
    BY <1>4, <1>5, <1>6, <1>7

\* Host and port are no dots, so that they are a segment when there is no path.
LEMMA InputAddress ==
    ASSUME NEW host \in InputHosts, NEW port \in InputPorts
    PROVE  /\ host \o port \in Seq(NoSlash)
           /\ host \o port = <<>> => host = <<>> /\ port = <<>>
           /\ host \o port # <<>> => host \o port \notin Dots
<1> DEFINE x == host \o port
<1>1. host \in Seq(NoSlash) /\ (host # <<>> => host[1] = "host")
    BY InputHostType, HostTokens
<1>2. port \in Seq(NoSlash) /\ (port # <<>> => port[1] = ":")
    BY InputPortRead
<1>3. x \in Seq(NoSlash) /\ (x = <<>> => host = <<>> /\ port = <<>>)
    BY <1>1, <1>2
<1>4. x # <<>> => x[1] \in {"host", ":"}
    BY <1>1, <1>2
<1> HIDE DEF x
<1>5. x # <<".">> /\ x # <<"..">>
    BY <1>4
<1> QED
    BY <1>3, <1>5 DEF Dots, x

PathTokens == Inner \ {":"}

LEMMA PathPiecesType ==
    /\ PathPieces \subseteq Seq(PathTokens \ {"/"})
    /\ PathPieces \subseteq Seq(NoSlash)
    /\ "/" \in PathTokens /\ PathTokens \subseteq Inner
<1>1. Words \subseteq PathTokens \ {"/"}
  <2>1. Words \subseteq Tokens
      BY DEF Tokens
  <2>2. \A w \in Words : w \notin {":", "/", "?", "#"}
      BY HttpUrlAssumption
  <2> QED
      BY <2>1, <2>2 DEF PathTokens, Inner
<1>2. "." \in PathTokens \ {"/"} /\ ".." \in PathTokens \ {"/"} /\ "/" \in PathTokens
    BY InnerTokens DEF PathTokens
<1> DEFINE T == PathTokens \ {"/"}
<1>3. T \subseteq NoSlash /\ PathTokens \subseteq Inner
    BY DEF NoSlash, PathTokens
<1>4. Words \subseteq T /\ "." \in T /\ ".." \in T
    BY <1>1, <1>2
<1> HIDE DEF T
<1>5. \A w \in Words : <<w>> \in Seq(T)
    BY <1>4
<1>6. <<>> \in Seq(T) /\ <<".">> \in Seq(T) /\ <<"..">> \in Seq(T)
    BY <1>4
<1>7. PathPieces \subseteq Seq(T)
    BY <1>5, <1>6, Zenon DEF PathPieces
<1> QED
    BY <1>2, <1>3, <1>7 DEF T

LEMMA PathsType ==
    ASSUME NEW n \in Nat, NEW path \in Paths(n)
    PROVE  path \in Seq(PathPieces) /\ path # <<>>
<1>1. PICK k \in 1 .. n : path \in [1 .. k -> PathPieces]
    BY DEF Paths
<1>2. k \in Nat /\ k # 0
    OBVIOUS
<1>3. path \in Seq(PathPieces) /\ Len(path) = k
    BY <1>1
<1> QED
    BY <1>2, <1>3

LEMMA NamesType ==
    /\ Names \subseteq NameTexts /\ Values \subseteq ValueTexts
    /\ Fragments \subseteq Seq(Late)
<1>1. <<>> \in NameTexts /\ <<"name">> \in NameTexts
    BY FixedTokens DEF NameTexts
<1>2. <<>> \in ValueTexts /\ <<"value">> \in ValueTexts
    BY FixedTokens DEF ValueTexts
<1>3. <<>> \in Seq(Late) /\ <<"fragment">> \in Seq(Late)
    BY FixedTokens
<1> QED
    BY <1>1, <1>2, <1>3 DEF Names, Values, Fragments

LEMMA InputQueriesType ==
    ASSUME NEW q \in InputQueries
    PROVE  q \in QuerySets(NameTexts, ValueTexts)
<1>1. q \subseteq Names \X Values
    BY DEF InputQueries
<1>2. IsFiniteSet(Names) /\ IsFiniteSet(Values)
  <2>1. IsFiniteSet({<<>>}) /\ IsFiniteSet({<<"name">>}) /\ IsFiniteSet({<<"value">>})
      BY FS_Singleton, Zenon
  <2>2. Names = {<<>>} \cup {<<"name">>} /\ Values = {<<>>} \cup {<<"value">>}
      BY DEF Names, Values
  <2> QED
      BY <2>1, <2>2, FS_Union, Zenon
<1>3. IsFiniteSet(Names \X Values)
    BY <1>2, FS_Product
<1>4. IsFiniteSet(q)
    BY <1>1, <1>3, FS_Subset
<1>5. Names \X Values \subseteq NameTexts \X ValueTexts
  <2> HIDE DEF Names, Values, NameTexts, ValueTexts
  <2> QED
      BY NamesType
<1>6. q \in SUBSET (NameTexts \X ValueTexts)
    BY <1>1, <1>5
<1> QED
    BY <1>4, <1>6 DEF QuerySets

PathPart(path) == IF path = NoPath THEN <<>> ELSE WritePath(path)
GivenPath(path) == IF path = NoPath THEN <<>> ELSE path

RenderedText(s, host, port, path, q, f) ==
    ((((<<s, ":", "/", "/">> \o host) \o port) \o PathPart(path)) \o RenderQuery(q)) \o FragmentPart(f)

LEMMA InputPathRead ==
    ASSUME NEW n \in Nat, NEW path \in {NoPath} \cup Paths(n)
    PROVE  \E P \in Seq(PathTokens) : PathRead(GivenPath(path), PathPart(path), P)
<1>1. CASE path = NoPath
  <2>1. <<>> \in Seq(PathTokens)
      OBVIOUS
  <2>2. PathRead(<<>>, <<>>, <<>>)
      BY DEF PathRead, PathText
  <2> QED
      BY <1>1, <2>1, <2>2, Zenon DEF GivenPath, PathPart
<1>2. CASE path # NoPath
  <2>1. path \in Seq(PathPieces)
      BY <1>2, PathsType
  <2>2. path \in Seq(Seq(PathTokens \ {"/"}))
      BY <2>1, PathPiecesType
  <2>3. \E P \in Seq(PathTokens) : PathRead(path, WritePath(path), P)
      BY <2>2, PathPiecesType, WritePathRead, Zenon
  <2> QED
      BY <1>2, <2>3 DEF GivenPath, PathPart
<1> QED
    BY <1>1, <1>2

Regrouped(d, h, p, w) == ((d \o h) \o p) \o w = d \o ((h \o p) \o w)

\* Host, port and path are the text between the scheme and the query.
LEMMA RenderedIs ==
    ASSUME NEW s \in Inner, NEW host \in Seq(Inner), NEW port \in Seq(Inner),
           NEW path, PathPart(path) \in Seq(Inner), NEW q, NEW f
    PROVE  RenderedText(s, host, port, path, q, f) =
              UrlText(s, (host \o port) \o PathPart(path), RenderQuery(q), FragmentPart(f))
<1> DEFINE wp == PathPart(path)
<1>1. PICK d \in Seq(Inner) : d = <<s, ":", "/", "/">>
    BY UrlHead
<1> HIDE DEF wp
<1> QED
    BY SMTT(20) DEF RenderedText, UrlText, wp, Regrouped

NamedPort(scheme, port) ==
    IF Len(port) = 2 THEN Atoi(Tail(port)) ELSE IF scheme = "https" THEN 443 ELSE 80

\* The segments that are pushed for a path, or for host and port without one.
PushedPath(host, port, path) ==
    IF path = NoPath THEN <<host \o port>> ELSE FoldLeft(Push, <<>>, path)

LEMMA InputSegmentsRead ==
    ASSUME NEW host \in InputHosts, NEW port \in InputPorts,
           NEW n \in Nat, NEW path \in {NoPath} \cup Paths(n),
           NEW P, PathRead(GivenPath(path), PathPart(path), P),
           path = NoPath => host \o port # <<>>
    PROVE  AddEncodedPathSegments(<<>>, IF PathPart(path) = <<>> THEN host \o port ELSE P)
              = PushedPath(host, port, path)
<1>1. CASE path = NoPath
  <2> DEFINE ap == host \o port
  <2>1. ap \in Seq(NoSlash) /\ ap \notin Dots
      BY <1>1, InputAddress
  <2> HIDE DEF ap
  <2>2. <<>> \in Seq(Segments)
      OBVIOUS
  <2>3. PathRead(<<>>, PathPart(path), P) /\ PathPart(path) = <<>>
      BY <1>1 DEF GivenPath, PathPart
  <2>4. AddEncodedPathSegments(<<>>, IF PathPart(path) = <<>> THEN ap ELSE P) = <<ap>>
      BY <2>1, <2>2, <2>3, SegmentsRead, Zenon
  <2> QED
      BY <1>1, <2>4 DEF PushedPath, ap
<1>2. CASE path # NoPath
  <2>1. path # <<>> /\ GivenPath(path) = path
      BY <1>2, PathsType DEF GivenPath
  <2>2. PathPart(path) # <<>> /\ Pieces(P, "/") = path
      BY <2>1 DEF PathRead
  <2> QED
      BY <1>2, <2>2 DEF PushedPath, AddEncodedPathSegments
<1> QED
    BY <1>1, <1>2

\* What Parse makes of a text, the path pushed piece by piece.
RenderedAs(s, host, port, path, q, f) ==
    ParseText(RenderedText(s, host, port, path, q, f)) =
        CASE s = "file" -> Clear
          [] s # "file" /\ host = <<>> /\ port = <<>> /\ path = NoPath ->
                [Clear EXCEPT !.scheme = Lower(s)]
          [] OTHER -> [scheme |-> Lower(s), host |-> host, port |-> NamedPort(Lower(s), port),
                       segments |-> PushedPath(host, port, path),
                       query |-> {p \in q : p[1] # <<>>}, fragment |-> f]

LEMMA RenderedRead ==
    ASSUME NEW s \in InputSchemes, NEW host \in InputHosts, NEW port \in InputPorts,
           NEW n \in Nat, NEW path \in {NoPath} \cup Paths(n),
           NEW q \in InputQueries, NEW f \in Fragments
    PROVE  RenderedAs(s, host, port, path, q, f)
<1> DEFINE ap == host \o port
           wp == PathPart(path)
           qt == RenderQuery(q)
           ft == FragmentPart(f)
           url == UrlText(s, ap \o wp, qt, ft)
<1>1. s \in Inner
    BY InputSchemeRead
<1>2. host \in Seq(HostToken) /\ host \in Seq(Inner)
    BY InputHostType, HostTokens
<1>3. ap \in Seq(NoSlash) /\ ap \in Seq(Inner) /\ (ap = <<>> => host = <<>> /\ port = <<>>)
    BY InputAddress, HostTokens
<1>4. PICK P \in Seq(PathTokens) : PathRead(GivenPath(path), wp, P)
    BY InputPathRead
<1>5. wp \in Seq(PathTokens) /\ wp \in Seq(Inner) /\ P \in Seq(Inner) /\ PathText(wp, P)
  <2>1. PathText(wp, P) /\ P \in Seq(PathTokens)
      BY <1>4 DEF PathRead
  <2>2. wp \in Seq(PathTokens)
      BY <2>1, PathPiecesType, PathTextType
  <2> QED
      BY <2>1, <2>2, PathPiecesType
<1>6. PICK Q \in Seq(Inner) : QueryRead(q, qt, Q)
    BY InputQueriesType, RenderQueryRead
<1>7. f \in Seq(Late) /\ FragmentText(ft, f) /\ (IF ft = <<>> THEN <<>> ELSE f) = f
    BY NamesType, FragmentPartText
<1>8. QueryText(qt, Q) /\ (IF qt = <<>> THEN {} ELSE ParseParameters(Q)) = {p \in q : p[1] # <<>>}
    BY <1>6 DEF QueryRead
<1>9. RenderedText(s, host, port, path, q, f) = url
  <2>1. port \in Seq(Inner)
    <3>1. "http" \in {"http", "https"}
        OBVIOUS
    <3> QED
        BY <3>1, InputPortRead, HostTokens
  <2> QED
      BY <1>1, <1>2, <1>5, <2>1, RenderedIs, SMTT(20)
<1> HIDE DEF wp, qt, ft
<1>10. ap \o wp \in Seq(Inner)
    BY <1>3, <1>5
<1>11. UrlIs(url, s, ap \o wp, qt, Q, ft, f)
    BY <1>1, <1>7, <1>8, <1>10, UrlParts, Zenon
<1>12. CASE s = "file"
  <2>1. Lower(s) \notin {"http", "https"}
      BY <1>12, InputSchemeRead
  <2> HIDE DEF url
  <2>2. ParseText(url) = Clear
      BY <1>11, <2>1 DEF ParseText, UrlIs
  <2> QED
      BY <1>9, <1>12, <2>2 DEF RenderedAs
<1>13. CASE s # "file" /\ host = <<>> /\ port = <<>> /\ path = NoPath
  <2>1. Lower(s) \in {"http", "https"}
      BY <1>13, InputSchemeRead
  <2>2. ap \o wp = <<>>
    <3>1. wp = <<>>
        BY <1>13 DEF wp, PathPart
    <3> QED
        BY <1>13, <3>1
  <2> HIDE DEF url
  <2>3. ParseText(url) = [Clear EXCEPT !.scheme = Lower(s)]
      BY <1>11, <2>1, <2>2 DEF ParseText, UrlIs
  <2> QED
      BY <1>9, <1>13, <2>3 DEF RenderedAs
<1>14. CASE s # "file" /\ ~ (host = <<>> /\ port = <<>> /\ path = NoPath)
  <2>1. Lower(s) \in {"http", "https"}
      BY <1>14, InputSchemeRead
  <2>2. PICK pn \in Seq(NoSlash) : PortNamed(Lower(s), port, pn)
      BY <2>1, InputPortRead
  <2>3. ap \o wp # <<>>
    <3>1. CASE path = NoPath
        BY <1>14, <3>1
    <3>2. CASE path # NoPath
      <4>1. path # <<>> /\ GivenPath(path) = path
          BY <3>2, PathsType DEF GivenPath
      <4>2. wp # <<>>
          BY <1>4, <4>1 DEF PathRead
      <4> HIDE DEF ap
      <4> QED
          BY <4>2
    <3> QED
        BY <3>1, <3>2
  <2>4. PortText(port, pn)
      BY <2>2 DEF PortNamed
  <2>5. UrlOf(s, host, pn, port, P, wp, Q, qt, f, ft)
      BY <1>1, <1>2, <1>5, <1>6, <1>7, <1>8, <2>1, <2>3, <2>4, SMTT(20) DEF UrlOf, PathTokens
  <2>6. ParsedAs(s, host, pn, port, P, wp, Q, qt, f, ft)
      BY <2>5, ParsedText
  <2>7. (IF port = <<>> \/ pn = <<>> THEN DefaultPort(Lower(s)) ELSE Atoi(pn)) = NamedPort(Lower(s), port)
      BY <2>2 DEF PortNamed, NamedPort
  <2>8. AddEncodedPathSegments(<<>>, IF wp = <<>> THEN host \o port ELSE P) = PushedPath(host, port, path)
      BY <1>4, <1>14, InputSegmentsRead DEF wp
  <2>9. ParseText(url) =
           [scheme |-> Lower(s), host |-> host, port |-> NamedPort(Lower(s), port),
            segments |-> PushedPath(host, port, path),
            query |-> {p \in q : p[1] # <<>>}, fragment |-> f]
      BY <1>7, <1>8, <2>6, <2>7, <2>8, Zenon DEF ParsedAs
  <2> QED
      BY <1>9, <1>14, <2>9 DEF RenderedAs
<1> QED
    BY <1>12, <1>13, <1>14

AnyPath(n) == {NoPath} \cup Paths(n)

LEMMA InputParts ==
    ASSUME NEW n, NEW in \in Inputs(AnyPath(n))
    PROVE  /\ in.scheme \in InputSchemes /\ in.host \in InputHosts /\ in.port \in InputPorts
           /\ in.path \in AnyPath(n) /\ in.query \in InputQueries /\ in.fragment \in Fragments
<1>1. in \in [scheme : InputSchemes, host : InputHosts, port : InputPorts,
              path : AnyPath(n), query : InputQueries, fragment : Fragments]
    BY DEF Inputs, InputSchemes, InputHosts, InputPorts, InputQueries
<1> QED
    BY <1>1

LEMMA InputRead ==
    ASSUME NEW n \in Nat, NEW in \in Inputs(AnyPath(n))
    PROVE  /\ RenderedAs(in.scheme, in.host, in.port, in.path, in.query, in.fragment)
           /\ Render(in) = RenderedText(in.scheme, in.host, in.port, in.path, in.query, in.fragment)
<1>1. RenderedAs(in.scheme, in.host, in.port, in.path, in.query, in.fragment)
    BY InputParts, RenderedRead, Zenon DEF AnyPath
<1>2. Render(in) = RenderedText(in.scheme, in.host, in.port, in.path, in.query, in.fragment)
    BY DEF Render, RenderedText, PathPart, FragmentPart
<1> QED
    BY <1>1, <1>2

-----------------------------------------------------------------------------
(* The invariant of the builder.                                           *)

LEMMA BuilderFrom ==
    ASSUME NEW s \in SchemeNames, NEW h \in Seq(HostToken), NEW p \in PortNumbers,
           NEW g \in Seq(Segments), NEW q \in QuerySets(NameTexts \ {<<>>}, ValueTexts),
           NEW f \in Seq(Late)
    PROVE  [scheme |-> s, host |-> h, port |-> p, segments |-> g, query |-> q, fragment |-> f] \in Builders
BY DEF Builders

Queries == QuerySets(NameTexts \ {<<>>}, ValueTexts)

\* A field at a time.
LEMMA ReplacedPart ==
    ASSUME NEW b \in Builders
    PROVE  /\ \A s \in SchemeNames : [b EXCEPT !.scheme = s] \in Builders
           /\ \A h \in Seq(HostToken) : [b EXCEPT !.host = h] \in Builders
           /\ \A n \in PortNumbers : [b EXCEPT !.port = n] \in Builders
           /\ \A k \in Seq(Segments) : [b EXCEPT !.segments = k] \in Builders
           /\ \A q \in Queries : [b EXCEPT !.query = q] \in Builders
           /\ \A f \in Seq(Late) : [b EXCEPT !.fragment = f] \in Builders
<1> DEFINE Hosts == Seq(HostToken)
           Lists == Seq(Segments)
           Ends == Seq(Late)
           B == [scheme : SchemeNames, host : Hosts, port : PortNumbers,
                 segments : Lists, query : Queries, fragment : Ends]
<1>1. Builders = B
    BY DEF Builders, Queries
<1>2. b \in B
    BY <1>1
<1> HIDE DEF Hosts, Lists, Ends
<1>3. \A s \in SchemeNames : [b EXCEPT !.scheme = s] \in B
    BY <1>2
<1>4. \A h \in Hosts : [b EXCEPT !.host = h] \in B
    BY <1>2
<1>5. \A n \in PortNumbers : [b EXCEPT !.port = n] \in B
    BY <1>2
<1>6. \A k \in Lists : [b EXCEPT !.segments = k] \in B
    BY <1>2
<1>7. \A q \in Queries : [b EXCEPT !.query = q] \in B
    BY <1>2
<1>8. \A f \in Ends : [b EXCEPT !.fragment = f] \in B
    BY <1>2
<1> HIDE DEF B
<1> QED
    BY <1>1, <1>3, <1>4, <1>5, <1>6, <1>7, <1>8, SMTT(20) DEF Hosts, Lists, Ends

LEMMA ClearOK ==
    /\ Clear \in Builders
    /\ \A s \in SchemeNames : [Clear EXCEPT !.scheme = s] \in Builders
<1>1. /\ "" \in SchemeNames /\ -1 \in PortNumbers
      /\ <<>> \in Seq(HostToken) /\ <<>> \in Seq(Segments) /\ <<>> \in Seq(Late)
    BY DEF SchemeNames, PortNumbers
<1>2. {} \in QuerySets(NameTexts \ {<<>>}, ValueTexts)
    BY FS_EmptySet DEF QuerySets
<1>3. Clear \in Builders
    BY <1>1, <1>2, BuilderFrom, Zenon DEF Clear
<1> QED
    BY <1>3, ReplacedPart

\* The parameters that have a name.
LEMMA NamedQueries ==
    ASSUME NEW q \in QuerySets(NameTexts, ValueTexts)
    PROVE  {p \in q : p[1] # <<>>} \in QuerySets(NameTexts \ {<<>>}, ValueTexts)
<1> DEFINE r == {p \in q : p[1] # <<>>}
<1>1. q \in SUBSET (NameTexts \X ValueTexts) /\ IsFiniteSet(q)
    BY DEF QuerySets
<1>2. IsFiniteSet(r)
    BY <1>1, FS_Subset
<1> QED
    BY <1>2 DEF QuerySets

LEMMA PiecesAreTexts ==
    ASSUME NEW path \in Seq(PathPieces), NEW a \in Seq(Segments)
    PROVE  FoldLeft(Push, a, path) \in Seq(Segments)
<1>1. path \in Seq(Seq(NoSlash))
    BY PathPiecesType
<1> QED
    BY <1>1, SegmentsPushed, Zenon DEF Segments

LEMMA InputOK ==
    ASSUME NEW n \in Nat, NEW in \in Inputs(AnyPath(n))
    PROVE  ParseText(Render(in)) \in Builders
<1>1. /\ in.scheme \in InputSchemes /\ in.host \in InputHosts /\ in.port \in InputPorts
      /\ in.path \in AnyPath(n) /\ in.query \in InputQueries /\ in.fragment \in Fragments
    BY InputParts
<1>2. CASE in.scheme = "file"
  <2>1. ParseText(Render(in)) = Clear
      BY <1>2, InputRead, Zenon DEF RenderedAs
  <2> QED
      BY <2>1, ClearOK
<1>3. in.scheme # "file" => Lower(in.scheme) \in {"http", "https"} /\ Lower(in.scheme) \in SchemeNames
    BY <1>1, InputSchemeRead, Zenon DEF SchemeNames
<1>4. CASE in.scheme # "file" /\ in.host = <<>> /\ in.port = <<>> /\ in.path = NoPath
  <2>1. ParseText(Render(in)) = [Clear EXCEPT !.scheme = Lower(in.scheme)]
      BY <1>4, InputRead, Zenon DEF RenderedAs
  <2> QED
      BY <1>3, <1>4, <2>1, ClearOK
<1>5. CASE in.scheme # "file" /\ ~ (in.host = <<>> /\ in.port = <<>> /\ in.path = NoPath)
  <2>1. ParseText(Render(in)) =
           [scheme |-> Lower(in.scheme), host |-> in.host,
            port |-> NamedPort(Lower(in.scheme), in.port),
            segments |-> PushedPath(in.host, in.port, in.path),
            query |-> {p \in in.query : p[1] # <<>>}, fragment |-> in.fragment]
      BY <1>5, InputRead, Zenon DEF RenderedAs
  <2>2. in.host \in Seq(HostToken) /\ in.fragment \in Seq(Late)
      BY <1>1, InputHostType, NamesType
  <2>3. NamedPort(Lower(in.scheme), in.port) \in PortNumbers
    <3>1. PICK pn \in Seq(NoSlash) : PortNamed(Lower(in.scheme), in.port, pn)
        BY <1>1, <1>3, <1>5, InputPortRead, SMTT(20)
    <3> DEFINE k == IF in.port = <<>> \/ pn = <<>> THEN DefaultPort(Lower(in.scheme)) ELSE Atoi(pn)
    <3>2. k = NamedPort(Lower(in.scheme), in.port) /\ k \in PortNumbers
        BY <3>1 DEF PortNamed, NamedPort
    <3> HIDE DEF k
    <3> QED
        BY <3>2
  <2>4. {p \in in.query : p[1] # <<>>} \in QuerySets(NameTexts \ {<<>>}, ValueTexts)
      BY <1>1, InputQueriesType, NamedQueries, Zenon
  <2>5. PushedPath(in.host, in.port, in.path) \in Seq(Segments)
    <3>1. CASE in.path = NoPath
      <4> DEFINE ap == in.host \o in.port
      <4>1. ap \in Segments
          BY <1>1, <1>5, <3>1, InputAddress DEF Segments
      <4> HIDE DEF ap
      <4>2. <<ap>> \in Seq(Segments)
          BY <4>1
      <4> QED
          BY <3>1, <4>2 DEF PushedPath, ap
    <3>2. CASE in.path # NoPath
      <4>1. in.path \in Seq(PathPieces)
          BY <1>1, <3>2, PathsType DEF AnyPath
      <4>2. <<>> \in Seq(Segments)
          OBVIOUS
      <4> QED
          BY <3>2, <4>1, <4>2, PiecesAreTexts, Zenon DEF PushedPath
    <3> QED
        BY <3>1, <3>2
  <2> QED
      BY <1>3, <1>5, <2>1, <2>2, <2>3, <2>4, <2>5, BuilderFrom, Zenon
<1> QED
    BY <1>2, <1>4, <1>5

LEMMA BareInputs ==
    /\ All = Inputs(AnyPath(MaxPieces))
    /\ Again \subseteq Inputs(AnyPath(MaxPieces))
<1>1. All = Inputs(AnyPath(MaxPieces))
    BY DEF All, AnyPath
<1>2. ASSUME NEW in \in Again PROVE in \in Inputs(AnyPath(MaxPieces))
  <2> DEFINE One == {NoPath}
             Many == AnyPath(MaxPieces)
             R(paths) == [scheme : InputSchemes, host : InputHosts, port : InputPorts,
                          path : paths, query : InputQueries, fragment : Fragments]
  <2>1. \A paths : Inputs(paths) = R(paths)
      BY DEF Inputs, InputSchemes, InputHosts, InputPorts, InputQueries
  <2>2. One \subseteq Many
      BY DEF AnyPath
  <2>3. in \in R(One)
      BY <2>1, Zenon DEF Again
  <2> HIDE DEF One, Many
  <2>4. in \in R(Many)
      BY <2>2, <2>3
  <2> QED
      BY <2>1, <2>4, Zenon DEF Many
<1> QED
    BY <1>1, <1>2

LEMMA PathSegmentsOK ==
    ASSUME NEW a \in Seq(Segments), NEW n \in Nat, NEW path \in Paths(n)
    PROVE  AddEncodedPathSegments(a, WritePath(path)) \in Seq(Segments)
<1>1. path \in Seq(Seq(Inner \ {"/"}))
    BY PathsType, PathPiecesType DEF NoSlash
<1>2. "/" \in Inner
    BY HostTokens
<1>3. PICK P \in Seq(Inner) : PathRead(path, WritePath(path), P)
    BY <1>1, <1>2, WritePathRead, Zenon
<1>4. WritePath(path) \in Seq(Inner)
    BY <1>2, <1>3, PathTextType DEF PathRead
<1>5. Pieces(WritePath(path), "/") \in PieceLists(Inner \ {"/"})
    BY <1>4, PiecesType
<1>6. Pieces(WritePath(path), "/") \in Seq(Seq(NoSlash))
    BY <1>5 DEF PieceLists, NoSlash
<1> QED
    BY <1>6, SegmentsPushed, Zenon DEF AddEncodedPathSegments, Segments

LEMMA SegmentChanged ==
    ASSUME NEW U, NEW a \in Seq(U), NEW i \in 0 .. Len(a) - 1
    PROVE  /\ \A e \in U : [a EXCEPT ![i + 1] = e] \in Seq(U)
           /\ RemoveAt(a, i + 1) \in Seq(U)
<1> DEFINE k == i + 1
<1>4. RemoveAt(a, k) \in Seq(U)
    BY DEF RemoveAt
<1> QED
    BY <1>4

LEMMA QueryChanged ==
    ASSUME NEW q \in Queries
    PROVE  /\ \A name \in NameTexts, value \in ValueTexts :
                 AddEncodedQueryParameter(q, name, value) \in Queries
           /\ \A r \in SUBSET q : r \in Queries
<1> DEFINE Given == NameTexts \ {<<>>}
           Pairs == Given \X ValueTexts
<1>1. q \in SUBSET Pairs /\ IsFiniteSet(q)
    BY DEF Queries, QuerySets
<1>2. \A r : r \in SUBSET Pairs /\ IsFiniteSet(r) => r \in Queries
    BY DEF Queries, QuerySets
<1>3. ASSUME NEW name \in NameTexts, NEW value \in ValueTexts
      PROVE  AddEncodedQueryParameter(q, name, value) \in Queries
  <2>1. CASE name = <<>>
      BY <2>1 DEF AddEncodedQueryParameter
  <2>2. CASE name # <<>>
    <3> DEFINE p == <<name, value>>
    <3>1. p \in Pairs
        BY <2>2
    <3> HIDE DEF p, Pairs
    <3>2. q \cup {p} \in SUBSET Pairs
        BY <1>1, <3>1
    <3>3. IsFiniteSet(q \cup {p})
        BY <1>1, FS_AddElement
    <3> QED
        BY <1>2, <3>2, <3>3 DEF AddEncodedQueryParameter, p
  <2> QED
      BY <2>1, <2>2
<1> HIDE DEF Pairs
<1>4. ASSUME NEW r \in SUBSET q PROVE r \in Queries
  <2>1. IsFiniteSet(r)
      BY <1>1, FS_Subset
  <2> QED
      BY <1>1, <1>2, <2>1
<1> QED
    BY <1>3, <1>4

LEMMA PushOne ==
    ASSUME NEW U, NEW a \in Seq(U), NEW e \in U
    PROVE  FoldLeft(Push, a, <<e>>) = Push(a, e)
<1> DEFINE q == <<e>>
<1>1. q \in Seq(U) /\ Len(q) = 1 /\ q[1] = e /\ 1 \in 1 .. 1 /\ 1 - 1 = 0
    OBVIOUS
<1> HIDE DEF q
<1>2. PICK F : PushesUp(a, q, F)
    BY <1>1, PushFold
<1> QED
    BY <1>1, <1>2, Zenon DEF PushesUp, q

\* Every setter keeps the invariant.
LEMMA SettersOK ==
    ASSUME BuilderOK
    PROVE  /\ \A s : Scheme(s) => BuilderOK'
           /\ \A h : Host(h) => BuilderOK'
           /\ \A n \in PortArguments : Port(n) => BuilderOK'
           /\ \A e \in PathPieces : AddEncodedPathSegment(e) => BuilderOK'
           /\ \A path \in Paths(MaxSegments) : AddPathSegments(path) => BuilderOK'
           /\ \A i : \A e \in PathPieces : SetEncodedPathSegment(i, e) => BuilderOK'
           /\ \A i : RemovePathSegment(i) => BuilderOK'
           /\ \A name \in Names, value \in Values : AddQueryParameter(name, value) => BuilderOK'
           /\ \A name, values : RemoveEncodedQueryParameter(name, values) => BuilderOK'
           /\ \A f \in Fragments : AddEncodedFragment(f) => BuilderOK'
<1>1. builder \in Builders
    BY DEF BuilderOK
<1>2. builder.segments \in Seq(Segments) /\ builder.query \in Queries
    BY <1>1, BuilderParts, Zenon DEF Queries
<1>3. ASSUME NEW s, Scheme(s) PROVE BuilderOK'
  <2>1. (IF s = "https" THEN s ELSE "http") \in SchemeNames
      BY Zenon DEF SchemeNames
  <2> QED
      BY <1>3, <2>1, ReplacedPart DEF Scheme, Set, BuilderOK
<1>4. ASSUME NEW h, Host(h) PROVE BuilderOK'
  <2>1. <<>> \in Seq(HostToken)
      OBVIOUS
  <2> QED
      BY <1>4, <2>1, ReplacedPart, Zenon DEF Host, Set, BuilderOK
<1>5. ASSUME NEW n \in PortArguments, Port(n) PROVE BuilderOK'
  <2>1. (IF n <= 0 \/ n > 65535 THEN -1 ELSE n) \in PortNumbers
      BY DEF PortNumbers, PortArguments
  <2>2. PICK k \in PortNumbers : builder' = [builder EXCEPT !.port = k]
      BY <1>5, <2>1 DEF Port, Set
  <2>3. [builder EXCEPT !.port = k] \in Builders
      BY <1>1, ReplacedPart
  <2> QED
      BY <2>2, <2>3 DEF BuilderOK
<1>6. ASSUME NEW e \in PathPieces, AddEncodedPathSegment(e) PROVE BuilderOK'
  <2>1. Push(builder.segments, e) \in Seq(Segments)
    <3>1. <<e>> \in Seq(PathPieces)
        OBVIOUS
    <3>2. FoldLeft(Push, builder.segments, <<e>>) \in Seq(Segments)
        BY <1>2, <3>1, PiecesAreTexts, Zenon
    <3>3. builder.segments \in Seq(Seq(NoSlash)) /\ e \in Seq(NoSlash)
        BY <1>2, PathPiecesType DEF Segments
    <3>4. FoldLeft(Push, builder.segments, <<e>>) = Push(builder.segments, e)
        BY <3>3, PushOne, Zenon
    <3> QED
        BY <3>2, <3>4, Zenon
  <2>2. builder' = [builder EXCEPT !.segments = Push(builder.segments, e)]
      BY <1>6 DEF AddEncodedPathSegment, Set
  <2> QED
      BY <2>1, <2>2, ReplacedPart DEF BuilderOK
<1>7. ASSUME NEW path \in Paths(MaxSegments), AddPathSegments(path) PROVE BuilderOK'
  <2> DEFINE g == AddEncodedPathSegments(builder.segments, WritePath(path))
  <2>1. g \in Seq(Segments)
      BY <1>2, PathSegmentsOK, HttpUrlAssumption
  <2>2. builder' = [builder EXCEPT !.segments = g]
      BY <1>7 DEF AddPathSegments, Set
  <2> QED
      BY <2>1, <2>2, ReplacedPart DEF BuilderOK
<1>8. ASSUME NEW i, NEW e \in PathPieces, SetEncodedPathSegment(i, e) PROVE BuilderOK'
  <2> DEFINE g == [builder.segments EXCEPT ![i + 1] = e]
  <2>1. i \in 0 .. Len(builder.segments) - 1 /\ e \in Segments
      BY <1>8, PathPiecesType DEF SetEncodedPathSegment, Segments, Dots
  <2>2. g \in Seq(Segments)
      BY <1>2, <2>1
  <2>3. builder' = [builder EXCEPT !.segments = g]
      BY <1>8 DEF SetEncodedPathSegment, Set
  <2> HIDE DEF g
  <2> QED
      BY <2>2, <2>3, ReplacedPart DEF BuilderOK
<1>9. ASSUME NEW i, RemovePathSegment(i) PROVE BuilderOK'
  <2> DEFINE g == RemoveAt(builder.segments, i + 1)
  <2>1. i \in 0 .. Len(builder.segments) - 1
      BY <1>9 DEF RemovePathSegment
  <2>2. g \in Seq(Segments)
      BY <1>2, <2>1, SegmentChanged
  <2>3. builder' = [builder EXCEPT !.segments = g]
      BY <1>9 DEF RemovePathSegment, Set
  <2> HIDE DEF g
  <2> QED
      BY <2>2, <2>3, ReplacedPart DEF BuilderOK
<1>10. ASSUME NEW name \in Names, NEW value \in Values, AddQueryParameter(name, value) PROVE BuilderOK'
  <2> DEFINE q == AddEncodedQueryParameter(builder.query, name, value)
  <2>1. q \in Queries
      BY <1>2, QueryChanged, NamesType
  <2>2. builder' = [builder EXCEPT !.query = q]
      BY <1>10 DEF AddQueryParameter, Set
  <2> HIDE DEF q
  <2> QED
      BY <2>1, <2>2, ReplacedPart DEF BuilderOK
<1>11. ASSUME NEW name, NEW values, RemoveEncodedQueryParameter(name, values) PROVE BuilderOK'
  <2> DEFINE q == {p \in builder.query : ~ (p[1] = name /\ p[2] \in values)}
  <2>1. q \in Queries
      BY <1>2, QueryChanged
  <2>2. builder' = [builder EXCEPT !.query = q]
      BY <1>11 DEF RemoveEncodedQueryParameter, Set
  <2> HIDE DEF q
  <2> QED
      BY <2>1, <2>2, ReplacedPart DEF BuilderOK
<1>12. ASSUME NEW f \in Fragments, AddEncodedFragment(f) PROVE BuilderOK'
  <2>1. f \in Seq(Late)
      BY NamesType
  <2> QED
      BY <1>12, <2>1, ReplacedPart DEF AddEncodedFragment, Set, BuilderOK
<1> QED
    BY <1>3, <1>4, <1>5, <1>6, <1>7, <1>8, <1>9, <1>10, <1>11, <1>12, SMTT(20)

LEMMA ParseOK ==
    ASSUME NEW in \in Inputs(AnyPath(MaxPieces)), Parse(in)
    PROVE  BuilderOK'
<1>1. MaxPieces \in Nat
    BY HttpUrlAssumption
<1> QED
    BY <1>1, InputOK DEF Parse, BuilderOK

\* No part of the builder ever holds a separator that would end it in the text:
\* what Parse cuts out of a URL, what the setters accept and what
\* AddEncodedPathSegments pushes (http_url.cc) keep "/", "?", "#", "&" and "="
\* where ToString writes them, and the path never holds "", "." or "..".
THEOREM BuilderStaysOK == Spec => []BuilderOK
<1>1. Init => BuilderOK
    BY ClearOK DEF Init, BuilderOK
<1>2. BuilderOK /\ [Next]_vars => BuilderOK'
  <2> SUFFICES ASSUME BuilderOK, [Next]_vars PROVE BuilderOK'
      OBVIOUS
  <2>1. CASE UNCHANGED vars
      BY <2>1 DEF vars, BuilderOK
  <2>2. ASSUME NEW in \in All \cup Again, Parse(in) PROVE BuilderOK'
      BY <2>2, BareInputs, ParseOK
  <2>3. ASSUME NEW in, ParseTooShort(in) PROVE BuilderOK'
      BY <2>3 DEF ParseTooShort, vars, BuilderOK
  <2>4. CASE Next
    <3>1. CASE builder = Clear /\ input = NoInput /\ \E in \in All : Parse(in)
        BY <2>2, <3>1
    <3>2. CASE \E in \in Again : Parse(in) \/ ParseTooShort(in)
        BY <2>2, <2>3, <3>2
    <3>3. CASE \E s \in {"", "http", "https", "file"} : Scheme(s)
        BY <3>3, SettersOK, Zenon
    <3>4. CASE Host(<<"host">>)
        BY <3>4, SettersOK
    <3>5. CASE \E n \in PortArguments : Port(n)
        BY <3>5, SettersOK
    <3>6. CASE \E segment \in PathPieces : AddEncodedPathSegment(segment)
        BY <3>6, SettersOK
    <3>7. CASE \E path \in Paths(MaxSegments) : AddPathSegments(path)
        BY <3>7, SettersOK
    <3>8. CASE \E i \in 0 .. MaxPieces, segment \in PathPieces : SetEncodedPathSegment(i, segment)
        BY <3>8, SettersOK
    <3>9. CASE \E i \in 0 .. MaxPieces : RemovePathSegment(i)
        BY <3>9, SettersOK
    <3>10. CASE \E name \in Names, value \in Values : AddQueryParameter(name, value)
        BY <3>10, SettersOK
    <3>11. CASE \E name \in Names, values \in {{v} : v \in Values} \cup {Values} :
                  RemoveEncodedQueryParameter(name, values)
        BY <3>11, SettersOK
    <3>12. CASE \E fragment \in Fragments : AddEncodedFragment(fragment)
        BY <3>12, SettersOK
    <3> QED
        BY <2>4, <3>1, <3>2, <3>3, <3>4, <3>5, <3>6, <3>7, <3>8, <3>9, <3>10, <3>11, <3>12, Zenon DEF Next
  <2> QED
      BY <2>1, <2>4
<1> QED
    BY <1>1, <1>2, PTL DEF Spec

\* The text that ToString writes, parsed again, gives the same parts, whatever
\* was parsed or set before (http_url.cc): only an unset port becomes the
\* scheme's, and a builder without segments gets its host and port as the path.
THEOREM WhatIsWrittenIsRead == Spec => []RoundTrip
<1>1. BuilderOK => RoundTrip
    BY TextRead, Zenon DEF BuilderOK, RoundTrip, Reparsed
<1> QED
    BY <1>1, BuilderStaysOK, PTL

-----------------------------------------------------------------------------
(* What dots leave of a path.  The places of the words on the stack of Push *)
(* are the words that survive.                                             *)

Count(A, i, j) == Cardinality(A \cap (i .. j))

LEMMA CountFacts ==
    ASSUME NEW A, NEW i \in Nat, NEW n \in Nat
    PROVE  /\ Count(A, i, n) \in Nat
           /\ i <= n + 1 => Count(A, i, n + 1) = Count(A, i, n) + (IF n + 1 \in A THEN 1 ELSE 0)
           /\ i > n => Count(A, i, n) = 0
<1> DEFINE C == A \cap (i .. n)
           m == n + 1
<1>1. IsFiniteSet(i .. n) /\ C \subseteq i .. n
    BY FS_Interval
<1>2. IsFiniteSet(C)
    BY <1>1, FS_Subset
<1>3. Cardinality(C) \in Nat
    BY <1>2, FS_CardinalityType
<1>4. ASSUME i <= m PROVE Count(A, i, m) = Count(A, i, n) + (IF m \in A THEN 1 ELSE 0)
  <2>1. CASE m \in A
    <3>1. A \cap (i .. m) = C \cup {m} /\ m \notin C
        BY <1>4, <2>1
    <3> HIDE DEF C, m
    <3>2. Cardinality(C \cup {m}) = Cardinality(C) + 1
        BY <1>2, <3>1, FS_AddElement
    <3> QED
        BY <3>1, <3>2 DEF Count, C
  <2>2. CASE m \notin A
    <3> QED
        BY <1>3, <2>2 DEF Count
  <2> QED
      BY <2>1, <2>2
<1>5. i > n => Count(A, i, n) = 0
  <2> QED
      BY FS_EmptySet DEF Count
<1> QED
    BY <1>3, <1>4, <1>5 DEF Count

\* A word survives when no stretch after it has more ".." than words.
Survivor(Up, Wd, i, n) ==
    i \in Wd /\ \A j \in i + 1 .. n : Count(Up, i + 1, j) <= Count(Wd, i + 1, j)

LEMMA SurvivorStep ==
    ASSUME NEW Up, NEW Wd, NEW n \in Nat
    PROVE  /\ \A i \in 1 .. n :
                 /\ Survivor(Up, Wd, i, n + 1) <=>
                       Survivor(Up, Wd, i, n) /\ Count(Up, i + 1, n + 1) <= Count(Wd, i + 1, n + 1)
                 /\ Survivor(Up, Wd, i, n) => Count(Up, i + 1, n) <= Count(Wd, i + 1, n)
           /\ Survivor(Up, Wd, n + 1, n + 1) <=> n + 1 \in Wd
<1>1. ASSUME NEW i \in 1 .. n
      PROVE  /\ Survivor(Up, Wd, i, n + 1) <=>
                   Survivor(Up, Wd, i, n) /\ Count(Up, i + 1, n + 1) <= Count(Wd, i + 1, n + 1)
             /\ Survivor(Up, Wd, i, n) => Count(Up, i + 1, n) <= Count(Wd, i + 1, n)
  <2>3. i = n => Count(Up, i + 1, n) = 0 /\ Count(Wd, i + 1, n) = 0
      BY CountFacts
  <2>4. Survivor(Up, Wd, i, n) => Count(Up, i + 1, n) <= Count(Wd, i + 1, n)
      BY <2>3 DEF Survivor
  <2>5. Survivor(Up, Wd, i, n + 1) <=>
           Survivor(Up, Wd, i, n) /\ Count(Up, i + 1, n + 1) <= Count(Wd, i + 1, n + 1)
      BY DEF Survivor
  <2> QED
      BY <2>4, <2>5
<1>2. Survivor(Up, Wd, n + 1, n + 1) <=> n + 1 \in Wd
  <2> QED
      BY DEF Survivor
<1> QED
    BY <1>1, <1>2

\* The places of the words on the stack after n pieces: in order, the words
\* that survive, each with as many words left above it as the stack has.
Places(Up, Wd, n, e, L) ==
    /\ e \in Seq(Nat) /\ Len(e) = L
    /\ \A k \in 1 .. L : e[k] \in 1 .. n
    /\ \A k \in 1 .. L : Count(Wd, e[k] + 1, n) = Count(Up, e[k] + 1, n) + (L - k)
    /\ \A a, b \in 1 .. L : a < b => e[a] < e[b]
    /\ \A i \in 1 .. n : Survivor(Up, Wd, i, n) <=> \E k \in 1 .. L : e[k] = i

\* The counts of the stretch from i on, one piece after it had d more words.
Counted(Up, Wd, n, i, d) ==
    /\ i \in Nat /\ i <= n + 1
    /\ Count(Up, i, n) \in Nat
    /\ Count(Wd, i, n + 1) = Count(Up, i, n) + d + (IF n + 1 \in Wd THEN 1 ELSE 0)
    /\ Count(Up, i, n + 1) = Count(Up, i, n) + (IF n + 1 \in Up THEN 1 ELSE 0)

LEMMA PlacesCount ==
    ASSUME NEW Up, NEW Wd, NEW n \in Nat, NEW e, NEW L, Places(Up, Wd, n, e, L), NEW k \in 1 .. L
    PROVE  Counted(Up, Wd, n, e[k] + 1, L - k)
<1> DEFINE i == e[k] + 1
<1>1. e[k] \in 1 .. n /\ Count(Wd, i, n) = Count(Up, i, n) + (L - k)
    BY DEF Places
<1>2. i \in Nat /\ i <= n + 1
    BY <1>1
<1> HIDE DEF i
<1>3. /\ Count(Up, i, n) \in Nat
      /\ Count(Up, i, n + 1) = Count(Up, i, n) + (IF n + 1 \in Up THEN 1 ELSE 0)
      /\ Count(Wd, i, n + 1) = Count(Wd, i, n) + (IF n + 1 \in Wd THEN 1 ELSE 0)
    BY <1>2, CountFacts
<1> QED
    BY <1>1, <1>3 DEF i, Counted

LEMMA PlacesStart ==
    ASSUME NEW Up, NEW Wd
    PROVE  Places(Up, Wd, 0, <<>>, 0)
BY DEF Places

LEMMA PlacesWord ==
    ASSUME NEW Up, NEW Wd, NEW n \in Nat, NEW e, NEW L, Places(Up, Wd, n, e, L), n + 1 \in Wd, n + 1 \notin Up
    PROVE  Places(Up, Wd, n + 1, Append(e, n + 1), L + 1)
<1> DEFINE m == n + 1
           g == Append(e, m)
<1>1. e \in Seq(Nat) /\ Len(e) = L /\ L \in Nat /\ m \in Nat /\ m \in 1 .. m
  <2>1. e \in Seq(Nat) /\ Len(e) = L
      BY DEF Places
  <2> QED
      BY <2>1
<1>2. g \in Seq(Nat) /\ Len(g) = L + 1 /\ g[L + 1] = m /\ \A k \in 1 .. L : g[k] = e[k]
    BY <1>1
<1>3. \A k \in 1 .. L : e[k] \in 1 .. n
    BY DEF Places
<1>4. \A k \in 1 .. L : Count(Wd, e[k] + 1, m) = Count(Up, e[k] + 1, m) + (L + 1 - k)
  <2> TAKE k \in 1 .. L
  <2>1. Counted(Up, Wd, n, e[k] + 1, L - k)
      BY PlacesCount
  <2> QED
      BY <1>1, <2>1 DEF Counted
<1>5. Count(Wd, m + 1, m) = 0 /\ Count(Up, m + 1, m) = 0
    BY CountFacts
<1>6. \A i \in 1 .. n : Survivor(Up, Wd, i, m) <=> Survivor(Up, Wd, i, n)
  <2> TAKE i \in 1 .. n
  <2>2. /\ Count(Wd, i + 1, n) \in Nat /\ Count(Up, i + 1, n) \in Nat
        /\ Count(Wd, i + 1, m) = Count(Wd, i + 1, n) + 1
        /\ Count(Up, i + 1, m) = Count(Up, i + 1, n)
      BY CountFacts
  <2>3. /\ Survivor(Up, Wd, i, m) <=>
              Survivor(Up, Wd, i, n) /\ Count(Up, i + 1, m) <= Count(Wd, i + 1, m)
        /\ Survivor(Up, Wd, i, n) => Count(Up, i + 1, n) <= Count(Wd, i + 1, n)
      BY SurvivorStep
  <2> QED
      BY <2>2, <2>3
<1>7. Survivor(Up, Wd, m, m)
    BY SurvivorStep
<1>8. \A a, b \in 1 .. L : a < b => e[a] < e[b]
    BY DEF Places
<1>9. \A i \in 1 .. n : Survivor(Up, Wd, i, n) <=> \E k \in 1 .. L : e[k] = i
    BY DEF Places
<1>10. 1 .. m = (1 .. n) \cup {m} /\ (\A i \in 1 .. n : i < m /\ i \in 1 .. m) /\ n + 1 = m
    OBVIOUS
<1> HIDE DEF m, g
<1>11. 1 .. L + 1 = (1 .. L) \cup {L + 1} /\ \A k \in 1 .. L : k < L + 1 /\ L + 1 \notin 1 .. L
    BY <1>1
<1>12. \A k \in 1 .. L + 1 : g[k] \in 1 .. m
    BY <1>1, <1>2, <1>3, <1>10
<1>13. \A k \in 1 .. L + 1 : Count(Wd, g[k] + 1, m) = Count(Up, g[k] + 1, m) + (L + 1 - k)
  <2> TAKE k \in 1 .. L + 1
  <2>1. CASE k \in 1 .. L
      BY <1>2, <1>4, <2>1
  <2>2. CASE k = L + 1
      BY <1>1, <1>2, <1>5, <2>2
  <2> QED
      BY <1>11, <2>1, <2>2
<1>14. \A a, b \in 1 .. L + 1 : a < b => g[a] < g[b]
  <2> TAKE a, b \in 1 .. L + 1
  <2>1. CASE b \in 1 .. L
    <3>1. a < b => a \in 1 .. L
        BY <1>1
    <3> QED
        BY <1>2, <1>8, <2>1, <3>1
  <2>2. CASE b = L + 1
    <3>1. a < b => a \in 1 .. L
        BY <1>1
    <3> QED
        BY <1>2, <1>3, <1>10, <2>2, <3>1, SMTT(20)
  <2> QED
      BY <1>11, <2>1, <2>2
<1>15. \A i \in 1 .. m : Survivor(Up, Wd, i, m) <=> \E k \in 1 .. L + 1 : g[k] = i
  <2> TAKE i \in 1 .. m
  <2>1. CASE i \in 1 .. n
    <3>1. m # i
        BY <1>10, <2>1
    <3> QED
        BY <1>2, <1>6, <1>9, <1>11, <2>1, <3>1, Zenon
  <2>2. CASE i = m
      BY <1>2, <1>7, <1>11, <2>2, SMTT(20)
  <2> QED
      BY <1>10, <2>1, <2>2
<1>16. Places(Up, Wd, m, g, L + 1)
  <2>1. g \in Seq(Nat) /\ Len(g) = L + 1
      BY <1>2
  <2> QED
      BY <1>12, <1>13, <1>14, <1>15, <2>1, SMTT(20) DEF Places
<1> QED
    BY <1>16 DEF m, g

LEMMA PlacesSame ==
    ASSUME NEW Up, NEW Wd, NEW n \in Nat, NEW e, NEW L, Places(Up, Wd, n, e, L),
           n + 1 \notin Wd, n + 1 \notin Up \/ L = 0
    PROVE  Places(Up, Wd, n + 1, e, L)
<1> DEFINE m == n + 1
<1>1. e \in Seq(Nat) /\ Len(e) = L /\ L \in Nat /\ m \in Nat
  <2>1. e \in Seq(Nat) /\ Len(e) = L
      BY DEF Places
  <2> QED
      BY <2>1
<1>2. \A k \in 1 .. L : e[k] \in 1 .. n
    BY DEF Places
<1>3. \A k \in 1 .. L : e[k] \in 1 .. m
    BY <1>2
<1>4. \A k \in 1 .. L : Count(Wd, e[k] + 1, m) = Count(Up, e[k] + 1, m) + (L - k)
  <2> TAKE k \in 1 .. L
  <2>1. Counted(Up, Wd, n, e[k] + 1, L - k)
      BY PlacesCount
  <2> QED
      BY <1>1, <2>1 DEF Counted
<1>6. \A i \in 1 .. n : Survivor(Up, Wd, i, n) <=> \E k \in 1 .. L : e[k] = i
    BY DEF Places
<1>7. ASSUME NEW i \in 1 .. n
      PROVE  Survivor(Up, Wd, i, m) <=> \E k \in 1 .. L : e[k] = i
  <2>1. /\ Survivor(Up, Wd, i, m) <=>
              Survivor(Up, Wd, i, n) /\ Count(Up, i + 1, m) <= Count(Wd, i + 1, m)
        /\ Survivor(Up, Wd, i, n) => Count(Up, i + 1, n) <= Count(Wd, i + 1, n)
      BY SurvivorStep, Zenon
  <2>2. CASE L = 0
      BY <1>6, <2>1, <2>2, SMTT(20)
  <2>3. CASE m \notin Up
    <3>2. /\ Count(Wd, i + 1, n) \in Nat /\ Count(Up, i + 1, n) \in Nat
          /\ Count(Wd, i + 1, m) = Count(Wd, i + 1, n)
          /\ Count(Up, i + 1, m) = Count(Up, i + 1, n)
        BY <2>3, CountFacts
    <3> QED
        BY <1>6, <2>1, <3>2, SMTT(20)
  <2> QED
      BY <2>2, <2>3
<1>8. ~ Survivor(Up, Wd, m, m)
    BY SurvivorStep
<1>9. 1 .. m = (1 .. n) \cup {m} /\ m \notin 1 .. n
    OBVIOUS
<1> HIDE DEF m
<1>10. \A i \in 1 .. m : Survivor(Up, Wd, i, m) <=> \E k \in 1 .. L : e[k] = i
    BY <1>2, <1>7, <1>8, <1>9, SMTT(20)
<1>11. Places(Up, Wd, m, e, L)
  <2> QED
      BY <1>3, <1>4, <1>10 DEF Places
<1> QED
    BY <1>11 DEF m

LEMMA PlacesUp ==
    ASSUME NEW Up, NEW Wd, NEW n \in Nat, NEW e, NEW L, Places(Up, Wd, n, e, L),
           n + 1 \notin Wd, n + 1 \in Up, L # 0
    PROVE  Places(Up, Wd, n + 1, SubSeq(e, 1, L - 1), L - 1)
<1> DEFINE m == n + 1
           M == L - 1
           g == SubSeq(e, 1, M)
<1>1. e \in Seq(Nat) /\ Len(e) = L /\ L \in Nat /\ m \in Nat /\ M \in Nat
  <2>1. e \in Seq(Nat) /\ Len(e) = L
      BY DEF Places
  <2> QED
      BY <2>1
<1>2. /\ g \in Seq(Nat) /\ Len(g) = M
      /\ \A k \in 1 .. M : g[k] = e[k] /\ k \in 1 .. L
      /\ 1 .. L = (1 .. M) \cup {L} /\ L \notin 1 .. M
    BY <1>1
<1>3. \A k \in 1 .. L : e[k] \in 1 .. n
    BY DEF Places
<1>4. 1 .. m = (1 .. n) \cup {m} /\ m \notin 1 .. n
    OBVIOUS
<1>5. \A k \in 1 .. L :
         /\ Count(Up, e[k] + 1, m) \in Nat
         /\ Count(Wd, e[k] + 1, m) = Count(Up, e[k] + 1, m) + (M - k)
  <2> TAKE k \in 1 .. L
  <2>1. Counted(Up, Wd, n, e[k] + 1, L - k)
      BY PlacesCount
  <2> QED
      BY <1>1, <2>1 DEF Counted
<1>6. \A a, b \in 1 .. L : a < b => e[a] < e[b]
    BY DEF Places
<1>7. \A i \in 1 .. n : Survivor(Up, Wd, i, n) <=> \E k \in 1 .. L : e[k] = i
    BY DEF Places
<1>9. \A k \in 1 .. L : Count(Up, e[k] + 1, m) <= Count(Wd, e[k] + 1, m) <=> k \in 1 .. M
  <2> TAKE k \in 1 .. L
  <2> DEFINE u == Count(Up, e[k] + 1, m)
             w == Count(Wd, e[k] + 1, m)
  <2>1. u \in Nat /\ w = u + (M - k)
      BY <1>5
  <2> HIDE DEF u, w
  <2>2. u <= w <=> k \in 1 .. M
      BY <1>1, <2>1
  <2> QED
      BY <2>2 DEF u, w
<1>10. ASSUME NEW i \in 1 .. n
       PROVE  Survivor(Up, Wd, i, m) <=> \E k \in 1 .. M : g[k] = i
  <2>1. Survivor(Up, Wd, i, m) <=>
           Survivor(Up, Wd, i, n) /\ Count(Up, i + 1, m) <= Count(Wd, i + 1, m)
      BY SurvivorStep
  <2> HIDE DEF m, M, g
  <2> QED
      BY <1>2, <1>7, <1>9, <2>1, Zenon
<1>11. ~ Survivor(Up, Wd, m, m)
    BY SurvivorStep
<1> HIDE DEF m, M, g
<1>12. \A i \in 1 .. m : Survivor(Up, Wd, i, m) <=> \E k \in 1 .. M : g[k] = i
    BY <1>2, <1>3, <1>4, <1>10, <1>11, Zenon
<1>13. \A k \in 1 .. M : g[k] \in 1 .. m
    BY <1>2, <1>3, <1>4, SMTT(20)
<1>14. \A k \in 1 .. M : Count(Wd, g[k] + 1, m) = Count(Up, g[k] + 1, m) + (M - k)
    BY <1>2, <1>5, Zenon
<1>15. \A a, b \in 1 .. M : a < b => g[a] < g[b]
    BY <1>2, <1>6, SMTT(20)
<1>16. Places(Up, Wd, m, g, M)
  <2>1. g \in Seq(Nat) /\ Len(g) = M
      BY <1>2
  <2> QED
      BY <1>12, <1>13, <1>14, <1>15, <2>1, SMTT(20) DEF Places
<1> QED
    BY <1>16 DEF m, M, g

\* The stack f holds the pieces of the path at the places e.
Holds(path, e, L, f) == Len(f) = L /\ \A k \in 1 .. L : f[k] = path[e[k]]

LEMMA HoldsWord ==
    ASSUME NEW U, NEW path, NEW e \in Seq(Nat), NEW L, Len(e) = L, NEW f \in Seq(U),
           Holds(path, e, L, f), NEW x \in Nat, path[x] \in U
    PROVE  Holds(path, Append(e, x), L + 1, Append(f, path[x]))
<1> DEFINE g == Append(e, x)
           h == Append(f, path[x])
           M == L + 1
<1>1. L \in Nat /\ Len(f) = L /\ \A k \in 1 .. L : f[k] = path[e[k]]
    BY DEF Holds
<1>2. g[M] = x /\ \A k \in 1 .. L : g[k] = e[k]
    OBVIOUS
<1>3. Len(h) = M /\ h[M] = path[x] /\ \A k \in 1 .. L : h[k] = f[k]
    BY <1>1
<1>4. 1 .. M = (1 .. L) \cup {M}
    OBVIOUS
<1> HIDE DEF g, h, M
<1>5. Holds(path, g, M, h)
    BY <1>2, <1>3, <1>4, SMTT(20) DEF Holds
<1> QED
    BY <1>5 DEF g, h, M

LEMMA HoldsUp ==
    ASSUME NEW U, NEW path, NEW e \in Seq(Nat), NEW L, Len(e) = L, NEW f \in Seq(U),
           Holds(path, e, L, f), L # 0
    PROVE  Holds(path, SubSeq(e, 1, L - 1), L - 1, Front(f))
<1> DEFINE M == L - 1
           g == SubSeq(e, 1, M)
           h == SubSeq(f, 1, M)
<1>1. L \in Nat /\ Len(f) = L /\ M \in Nat
    BY DEF Holds
<1>3. \A k \in 1 .. M : g[k] = e[k] /\ k \in 1 .. L
    OBVIOUS
<1>4. Len(h) = M /\ \A k \in 1 .. M : h[k] = f[k]
    OBVIOUS
<1>5. Front(f) = h
    BY <1>1 DEF Front
<1> HIDE DEF g, h, M
<1>6. Holds(path, g, M, h)
    BY <1>3, <1>4, SMTT(20) DEF Holds
<1> QED
    BY <1>5, <1>6 DEF g, M

StackedAt(path, Up, Wd, n, f) ==
    \E e, L : Places(Up, Wd, n, e, L) /\ Holds(path, e, L, f)

UpPlaces(path) == {k \in 1 .. Len(path) : path[k] = <<"..">>}
WordPlaces(path) == {k \in 1 .. Len(path) : path[k] \notin Dots}

\* One piece more.
LEMMA StackStep ==
    ASSUME NEW U, NEW path \in Seq(U), NEW n \in 0 .. Len(path) - 1, NEW f \in Seq(U),
           StackedAt(path, UpPlaces(path), WordPlaces(path), n, f)
    PROVE  StackedAt(path, UpPlaces(path), WordPlaces(path), n + 1, Push(f, path[n + 1]))
<1> DEFINE Up == UpPlaces(path)
           Wd == WordPlaces(path)
           m == n + 1
           x == path[m]
<1>1. n \in Nat /\ m \in Nat /\ m \in 1 .. Len(path) /\ x \in U
    OBVIOUS
<1>2. PICK e, L : Places(Up, Wd, n, e, L) /\ Holds(path, e, L, f)
    BY DEF StackedAt
<1>3. e \in Seq(Nat) /\ Len(e) = L
    BY <1>2 DEF Places
<1>4. (m \in Up <=> x = <<"..">>) /\ (m \in Wd <=> x \notin Dots)
    BY DEF UpPlaces, WordPlaces
<1>5. <<"..">> \in Dots /\ <<"..">> # <<>> /\ <<"..">> # <<".">>
    BY DEF Dots
<1> HIDE DEF Up, Wd, x
<1>6. CASE x \notin Dots
  <2>1. Push(f, x) = Append(f, x)
      BY <1>6 DEF Push, Dots
  <2>2. Places(Up, Wd, n + 1, Append(e, n + 1), L + 1)
      BY <1>1, <1>2, <1>4, <1>5, <1>6, PlacesWord, SMTT(20)
  <2>3. Holds(path, Append(e, m), L + 1, Append(f, x))
      BY <1>2, <1>3, HoldsWord, SMTT(20) DEF x
  <2> QED
      BY <2>1, <2>2, <2>3 DEF StackedAt, Up, Wd, x
<1>7. CASE x = <<"..">> /\ L # 0
  <2>1. f # <<>>
      BY <1>2, <1>7 DEF Holds
  <2>2. Push(f, x) = Front(f)
      BY <1>7, <2>1 DEF Push, Pop
  <2>3. Places(Up, Wd, n + 1, SubSeq(e, 1, L - 1), L - 1)
      BY <1>1, <1>2, <1>4, <1>5, <1>7, PlacesUp, SMTT(20)
  <2>4. Holds(path, SubSeq(e, 1, L - 1), L - 1, Front(f))
      BY <1>2, <1>3, <1>7, HoldsUp, SMTT(20)
  <2> QED
      BY <2>2, <2>3, <2>4, SMTT(20) DEF StackedAt, Up, Wd, x
<1>8. CASE x \in Dots /\ (x # <<"..">> \/ L = 0)
  <2>1. Places(Up, Wd, n + 1, e, L)
      BY <1>2, <1>4, <1>8, PlacesSame
  <2>2. Push(f, x) = f
    <3>1. CASE x # <<"..">>
        BY <1>8, <3>1 DEF Push, Dots
    <3>2. CASE x = <<"..">> /\ L = 0
      <4>1. f = <<>>
          BY <1>2, <3>2 DEF Holds
      <4> QED
          BY <3>2, <4>1 DEF Push, Pop
    <3> QED
        BY <1>8, <3>1, <3>2
  <2> QED
      BY <1>2, <2>1, <2>2 DEF StackedAt, Up, Wd, x
<1> QED
    BY <1>6, <1>7, <1>8 DEF Up, Wd, x

\* The stack after the whole path.
LEMMA StackEnd ==
    ASSUME NEW U, NEW path \in Seq(U)
    PROVE  /\ FoldLeft(Push, <<>>, path) \in Seq(U)
           /\ StackedAt(path, UpPlaces(path), WordPlaces(path), Len(path), FoldLeft(Push, <<>>, path))
<1> DEFINE N == Len(path)
           Good(n, f) == StackedAt(path, UpPlaces(path), WordPlaces(path), n, f)
<1>1. <<>> \in Seq(U) /\ N \in Nat /\ N \in 0 .. N
    OBVIOUS
<1>2. PICK F \in [0 .. N -> Seq(U)] : PushesUp(<<>>, path, F)
    BY <1>1, PushFold, Zenon
<1> DEFINE S == {n \in Nat : Good(n, F[n])}
<1>3. 0 \in S
  <2>1. Holds(path, <<>>, 0, <<>>)
      BY DEF Holds
  <2>2. Good(0, <<>>)
      BY <2>1, PlacesStart DEF StackedAt
  <2> QED
      BY <1>2, <2>2 DEF PushesUp
<1>4. ASSUME NEW n \in 0 .. N - 1, n \in S PROVE n + 1 \in S
  <2> DEFINE m == n + 1
  <2>1. m \in Nat /\ m \in 1 .. N /\ m - 1 = n /\ n \in 0 .. N
      OBVIOUS
  <2>2. Good(n, F[n]) /\ F[n] \in Seq(U)
      BY <1>4
  <2>3. Good(n + 1, Push(F[n], path[n + 1]))
      BY <2>2, StackStep
  <2> HIDE DEF m
  <2>4. F[m] = Push(F[n], path[m])
      BY <1>2, <2>1 DEF PushesUp
  <2> QED
      BY <2>3, <2>4 DEF m
<1> HIDE DEF S
<1>5. 0 .. N \subseteq S
    BY <1>1, <1>3, <1>4, Induction, Zenon
<1> QED
    BY <1>2, <1>5 DEF S, PushesUp

Distinct(e, j) == \A a, b \in 1 .. j : e[a] = e[b] => a = b
Rising(e, j) == \A a, b \in 1 .. j : a < b => e[a] < e[b]
Covers(e, j, T) == \A i : i \in T <=> \E k \in 1 .. j : e[k] = i

LEMMA PlacesNumber ==
    ASSUME NEW e, NEW j \in Nat, Distinct(e, j), NEW T, Covers(e, j, T)
    PROVE  Cardinality(T) = j
<1> DEFINE b == [k \in 1 .. j |-> e[k]]
<1>1. b \in [1 .. j -> T] /\ DOMAIN b = 1 .. j /\ \A k \in 1 .. j : b[k] = e[k]
    BY DEF Covers
<1> HIDE DEF b
<1>2. b \in Bijection(1 .. j, T)
    BY <1>1, Zenon DEF Bijection, Injection, Surjection, IsInjective, Covers, Distinct
<1>3. ExistsBijection(1 .. j, T)
    BY <1>2 DEF ExistsBijection
<1>4. IsFiniteSet(1 .. j) /\ Cardinality(1 .. j) = j
    BY FS_Interval
<1> QED
    BY <1>3, <1>4, FS_Bijection

\* The n-th of the places, found by its rank.
Ranked(e, L, kept) ==
    /\ Cardinality(kept) = L
    /\ \A n \in 1 .. L : (CHOOSE i \in kept : Cardinality({k \in kept : k <= i}) = n) = e[n]

LEMMA PlacesRank ==
    ASSUME NEW e \in Seq(Nat), NEW L, Len(e) = L, Rising(e, L), NEW kept, Covers(e, L, kept)
    PROVE  Ranked(e, L, kept)
<1>2. Distinct(e, L)
    BY DEF Distinct, Rising
<1>3. \A a, b \in 1 .. L : e[a] <= e[b] <=> a <= b
    BY DEF Rising
<1>4. Cardinality(kept) = L
    BY <1>2, PlacesNumber
<1>5. ASSUME NEW j \in 1 .. L PROVE Cardinality({k \in kept : k <= e[j]}) = j
  <2> DEFINE T == {k \in kept : k <= e[j]}
  <2>2. Distinct(e, j)
      BY <1>2 DEF Distinct
  <2>3. ASSUME NEW i PROVE i \in T <=> \E k \in 1 .. j : e[k] = i
    <3>1. i \in T => \E k \in 1 .. j : e[k] = i
        BY <1>3 DEF Covers
    <3>2. ASSUME NEW k \in 1 .. j, e[k] = i PROVE i \in T
      <4>2. i \in kept
          BY <3>2 DEF Covers
      <4>3. e[k] <= e[j]
          BY <1>3
      <4> QED
          BY <3>2, <4>2, <4>3
    <3> QED
        BY <3>1, <3>2
  <2> HIDE DEF T
  <2>4. Covers(e, j, T)
      BY <2>3 DEF Covers
  <2>5. Cardinality(T) = j
      BY <2>2, <2>4, PlacesNumber
  <2> QED
      BY <2>5 DEF T
<1>6. ASSUME NEW n \in 1 .. L
      PROVE  (CHOOSE i \in kept : Cardinality({k \in kept : k <= i}) = n) = e[n]
  <2> DEFINE c == CHOOSE i \in kept : Cardinality({k \in kept : k <= i}) = n
  <2>1. e[n] \in kept /\ Cardinality({k \in kept : k <= e[n]}) = n
      BY <1>5 DEF Covers
  <2>2. c \in kept /\ Cardinality({k \in kept : k <= c}) = n
      BY <2>1, Zenon
  <2> HIDE DEF c
  <2>3. PICK j \in 1 .. L : e[j] = c
      BY <2>2 DEF Covers
  <2>4. j = n
      BY <1>5, <2>2, <2>3
  <2> QED
      BY <2>3, <2>4, Zenon DEF c
<1> QED
    BY <1>4, <1>6, Zenon DEF Ranked

\* Pushing the pieces of a path one by one and popping one for every ".."
\* (Push and Pop, http_url.cc) leaves, for a path of any length, the words that
\* the reference definition keeps: those after which no stretch of the path has
\* more ".." than words.
THEOREM DotsAreResolved ==
    ASSUME NEW U, NEW path \in Seq(U)
    PROVE  FoldLeft(Push, <<>>, path) = Resolved(path)
<1> DEFINE N == Len(path)
           Up == UpPlaces(path)
           Wd == WordPlaces(path)
           f == FoldLeft(Push, <<>>, path)
           isWord(k) == path[k] \notin {<<>>, <<".">>, <<"..">>}
           ups(i, j) == Cardinality({k \in i .. j : path[k] = <<"..">>})
           words(i, j) == Cardinality({k \in i .. j : isWord(k)})
           survives(i) == isWord(i) /\ \A j \in i + 1 .. Len(path) : ups(i + 1, j) <= words(i + 1, j)
           kept == {i \in DOMAIN path : survives(i)}
<1>1. Resolved(path) = [n \in 1 .. Cardinality(kept) |->
                           path[CHOOSE i \in kept : Cardinality({k \in kept : k <= i}) = n]]
    BY DEF Resolved
<1>3. ASSUME NEW i \in 1 .. N PROVE survives(i) <=> Survivor(Up, Wd, i, N)
  <2>1. isWord(i) <=> i \in Wd
      BY DEF WordPlaces, Dots
  <2>2. ASSUME NEW j \in i + 1 .. N
        PROVE  ups(i + 1, j) = Count(Up, i + 1, j) /\ words(i + 1, j) = Count(Wd, i + 1, j)
    <3>2. {k \in i + 1 .. j : path[k] = <<"..">>} = Up \cap (i + 1 .. j)
        BY DEF UpPlaces
    <3>3. {k \in i + 1 .. j : isWord(k)} = Wd \cap (i + 1 .. j)
        BY DEF WordPlaces, Dots
    <3> QED
        BY <3>2, <3>3, Zenon DEF Count
  <2> HIDE DEF Up, Wd, isWord, ups, words
  <2> QED
      BY <2>1, <2>2 DEF Survivor
<1> HIDE DEF survives, Up, Wd
<1>4. f \in Seq(U) /\ StackedAt(path, Up, Wd, N, f)
    BY StackEnd DEF Up, Wd
<1>5. PICK e, L : Places(Up, Wd, N, e, L) /\ Holds(path, e, L, f)
    BY <1>4 DEF StackedAt
<1>6. e \in Seq(Nat) /\ Len(e) = L /\ Rising(e, L)
    BY <1>5 DEF Places, Rising
<1>7. Covers(e, L, kept)
  <2>1. \A i \in 1 .. N : Survivor(Up, Wd, i, N) <=> \E k \in 1 .. L : e[k] = i
      BY <1>5 DEF Places
  <2>2. \A k \in 1 .. L : e[k] \in 1 .. N
      BY <1>5 DEF Places
  <2> QED
      BY <1>3, <2>1, <2>2 DEF Covers
<1> HIDE DEF f, kept, N
<1>8. Ranked(e, L, kept)
    BY <1>6, <1>7, PlacesRank
<1>9. DOMAIN f = 1 .. L /\ f = [n \in 1 .. L |-> f[n]]
  <2>1. Len(f) = L
      BY <1>5 DEF Holds
  <2> QED
      BY <1>4, <2>1
<1>10. \A n \in 1 .. L : f[n] = path[e[n]]
    BY <1>5 DEF Holds
<1>11. f = [n \in 1 .. L |-> path[e[n]]]
    BY <1>9, <1>10
<1>12. Resolved(path) = [n \in 1 .. L |-> path[e[n]]]
    BY <1>1, <1>8, Zenon DEF Ranked
<1> QED
    BY <1>11, <1>12 DEF f

LEMMA ParsedIsExpected ==
    ASSUME NEW n \in Nat, NEW in \in Inputs(AnyPath(n))
    PROVE  ParseText(Render(in)) = Expected(in)
<1> DEFINE s == IF in.scheme = "https" THEN "https" ELSE "http"
           g == IF in.path = NoPath THEN <<in.host \o in.port>> ELSE Resolved(in.path)
           k == IF Len(in.port) = 2 THEN Atoi(Tail(in.port)) ELSE IF s = "https" THEN 443 ELSE 80
           q == {p \in in.query : p[1] # <<>>}
<1>1. in.scheme # "file" => Lower(in.scheme) = s
    BY InputParts, InputSchemeRead
<1>2. PushedPath(in.host, in.port, in.path) = g
  <2>1. CASE in.path = NoPath
      BY <2>1 DEF PushedPath
  <2>2. CASE in.path # NoPath
    <3>1. in.path \in Seq(PathPieces)
        BY <2>2, InputParts, PathsType DEF AnyPath
    <3>2. FoldLeft(Push, <<>>, in.path) = Resolved(in.path)
        BY <3>1, DotsAreResolved
    <3> QED
        BY <3>2 DEF PushedPath
  <2> QED
      BY <2>1, <2>2
<1>3. NamedPort(s, in.port) = k
    BY DEF NamedPort
<1>4. Expected(in) =
         CASE in.scheme = "file" -> Clear
           [] in.scheme # "file" /\ in.host = <<>> /\ in.port = <<>> /\ in.path = NoPath ->
                 [Clear EXCEPT !.scheme = s]
           [] OTHER -> [scheme |-> s, host |-> in.host, port |-> k,
                        segments |-> g, query |-> q, fragment |-> in.fragment]
    BY DEF Expected
<1> HIDE DEF s, g, k
<1>5. ParseText(Render(in)) =
         CASE in.scheme = "file" -> Clear
           [] in.scheme # "file" /\ in.host = <<>> /\ in.port = <<>> /\ in.path = NoPath ->
                 [Clear EXCEPT !.scheme = Lower(in.scheme)]
           [] OTHER -> [scheme |-> Lower(in.scheme), host |-> in.host,
                        port |-> NamedPort(Lower(in.scheme), in.port),
                        segments |-> PushedPath(in.host, in.port, in.path),
                        query |-> q, fragment |-> in.fragment]
    BY InputRead, Zenon DEF RenderedAs
<1> HIDE DEF q
<1>6. CASE in.scheme = "file"
    BY <1>4, <1>5, <1>6
<1>7. CASE in.scheme # "file" /\ in.host = <<>> /\ in.port = <<>> /\ in.path = NoPath
  <2>1. Expected(in) = [Clear EXCEPT !.scheme = s]
      BY <1>4, <1>7
  <2>2. ParseText(Render(in)) = [Clear EXCEPT !.scheme = Lower(in.scheme)]
      BY <1>5, <1>7, SMTT(20)
  <2> QED
      BY <1>1, <1>7, <2>1, <2>2
<1>8. CASE in.scheme # "file" /\ ~ (in.host = <<>> /\ in.port = <<>> /\ in.path = NoPath)
  <2>1. Expected(in) = [scheme |-> s, host |-> in.host, port |-> k,
                        segments |-> g, query |-> q, fragment |-> in.fragment]
      BY <1>4, <1>8
  <2>2. ParseText(Render(in)) =
           [scheme |-> Lower(in.scheme), host |-> in.host,
            port |-> NamedPort(Lower(in.scheme), in.port),
            segments |-> PushedPath(in.host, in.port, in.path),
            query |-> q, fragment |-> in.fragment]
      BY <1>5, <1>8
  <2> QED
      BY <1>1, <1>2, <1>3, <1>8, <2>1, <2>2, SMTT(20)
<1> QED
    BY <1>6, <1>7, <1>8

LEMMA EachSets ==
    /\ \A s : Scheme(s) => \E b : Set(b)
    /\ \A h : Host(h) => \E b : Set(b)
    /\ \A n : Port(n) => \E b : Set(b)
    /\ \A e : AddEncodedPathSegment(e) => \E b : Set(b)
    /\ \A path : AddPathSegments(path) => \E b : Set(b)
    /\ \A i, e : SetEncodedPathSegment(i, e) => \E b : Set(b)
    /\ \A i : RemovePathSegment(i) => \E b : Set(b)
    /\ \A name, value : AddQueryParameter(name, value) => \E b : Set(b)
    /\ \A name, values : RemoveEncodedQueryParameter(name, values) => \E b : Set(b)
    /\ \A f : AddEncodedFragment(f) => \E b : Set(b)
<1>1. \A n : Port(n) => \E b : Set(b)
  <2> TAKE n
  <2> DEFINE k == IF n <= 0 \/ n > 65535 THEN -1 ELSE n
  <2>1. Port(n) => Set([builder EXCEPT !.port = k])
      BY DEF Port
  <2> HIDE DEF k
  <2> QED
      BY <2>1
<1>2. /\ \A s : Scheme(s) => \E b : Set(b)
      /\ \A h : Host(h) => \E b : Set(b)
      /\ \A f : AddEncodedFragment(f) => \E b : Set(b)
    BY DEF Scheme, Host, AddEncodedFragment
<1>3. /\ \A e : AddEncodedPathSegment(e) => \E b : Set(b)
      /\ \A path : AddPathSegments(path) => \E b : Set(b)
      /\ \A i : RemovePathSegment(i) => \E b : Set(b)
    BY DEF AddEncodedPathSegment, AddPathSegments, RemovePathSegment
<1>4. \A i, e : SetEncodedPathSegment(i, e) => \E b : Set(b)
    BY DEF SetEncodedPathSegment
<1>5. /\ \A name, value : AddQueryParameter(name, value) => \E b : Set(b)
      /\ \A name, values : RemoveEncodedQueryParameter(name, values) => \E b : Set(b)
    BY DEF AddQueryParameter, RemoveEncodedQueryParameter
<1> QED
    BY <1>1, <1>2, <1>3, <1>4, <1>5

\* Parse finds the parts that a URL was written from, for paths of any number
\* of pieces and any words (Builder::Parse, http_url.cc): the scheme in lower
\* case, the port or the scheme's own, the path with its dots resolved, the
\* parameters that have a name and the fragment, also when a path is missing or
\* the builder was used before.
THEOREM WhatIsParsedIsRight == Spec => []ParseIsRight
<1>1. Init => ParseIsRight
    BY DEF Init, ParseIsRight
<1>2. ParseIsRight /\ [Next]_vars => ParseIsRight'
  <2> SUFFICES ASSUME ParseIsRight, [Next]_vars PROVE ParseIsRight'
      OBVIOUS
  <2>1. ASSUME UNCHANGED vars PROVE ParseIsRight'
    <3>1. builder' = builder /\ input' = input
        BY <2>1 DEF vars
    <3> QED
        BY <3>1 DEF ParseIsRight
  <2>2. ASSUME NEW in \in All \cup Again, Parse(in) PROVE ParseIsRight'
    <3>1. in \in Inputs(AnyPath(MaxPieces)) /\ MaxPieces \in Nat
        BY BareInputs, HttpUrlAssumption
    <3>2. builder' = Expected(in) /\ input' = in
        BY <2>2, <3>1, ParsedIsExpected DEF Parse
    <3> QED
        BY <3>2 DEF ParseIsRight
  <2>3. ASSUME NEW b, Set(b) PROVE ParseIsRight'
      BY <2>3 DEF Set, ParseIsRight
  <2>4. CASE builder = Clear /\ input = NoInput /\ \E in \in All : Parse(in)
      BY <2>2, <2>4
  <2>5. CASE \E in \in Again : Parse(in) \/ ParseTooShort(in)
      BY <2>1, <2>2, <2>5 DEF ParseTooShort
  <2>6. CASE \E b : Set(b)
      BY <2>3, <2>6
  <2>7. CASE Next
    <3>1. \/ builder = Clear /\ input = NoInput /\ \E in \in All : Parse(in)
          \/ \E in \in Again : Parse(in) \/ ParseTooShort(in)
          \/ \E b : Set(b)
        BY <2>7, EachSets, Zenon DEF Next
    <3> QED
        BY <2>4, <2>5, <2>6, <3>1
  <2> QED
      BY <2>1, <2>7
<1> QED
    BY <1>1, <1>2, PTL DEF Spec
=============================================================================
