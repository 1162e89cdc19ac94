--------------------------- MODULE Service_proofs ---------------------------
(***************************************************************************)
(* The server, as its clients see it: every request gets one reply, the    *)
(* broker is never held up in sending one, and nothing tells the server    *)
(* from JiraService, for any number of connections, any buffer and window  *)
(* and whatever clients ask.                                               *)
(***************************************************************************)
EXTENDS Server_proofs, WellFoundedInduction

USE DEF Dead

-----------------------------------------------------------------------------
(***************************************************************************)
(* RequestsOf.  Its function is built up to each length of the queue, by   *)
(* the least length to which it were not.                                  *)
(***************************************************************************)
Asked == Request \cup {NewClient}

\* f holds what c asks by the first 0, 1, .. n events of the queue q.
Builds(f, c, q, n) ==
  /\ f \in [0 .. n -> Seq(Asked)]
  /\ f[0] = <<>>
  /\ \A i \in 1 .. n : f[i] = IF q[i].peer = c THEN Append(f[i - 1], q[i].req)
                              ELSE f[i - 1]

\* A set of naturals has a least element.
LEMMA LeastNatural ==
  ASSUME NEW T \in SUBSET Nat, T # {}
  PROVE  \E x \in T : \A y \in T : x <= y
  <1> DEFINE R == {ss \in Nat \X Nat : ss[1] < ss[2]}
  <1>1. IsWellFoundedOn(R, Nat)
    BY NatLessThanWellFounded DEF OpToRel
  <1>2. \A a, b \in Nat : a < b => <<a, b>> \in R
    OBVIOUS
  <1> HIDE DEF R
  <1>3. PICK x \in T : \A y \in T : ~ (<<y, x>> \in R)
    BY <1>1, WFMin
  <1>4. \A y \in T : ~(y < x)
    BY <1>2, <1>3
  <1> QED BY <1>4

LEMMA BuildsExists ==
  ASSUME NEW c \in Client, NEW q \in Seq(Event), NEW n \in 0 .. Len(q)
  PROVE  \E f : Builds(f, c, q, n)
  <1> DEFINE Bad == {m \in 0 .. Len(q) : ~ \E f : Builds(f, c, q, m)}
  <1> SUFFICES ASSUME Bad # {} PROVE FALSE
    OBVIOUS
  <1>1. PICK m \in Bad : \A k \in Bad : m <= k
    <2>1. Bad \in SUBSET Nat
      OBVIOUS
    <2> QED BY <2>1, LeastNatural
  <1>2. m # 0
    <2>1. Builds([i \in 0 .. 0 |-> <<>>], c, q, 0)
      BY DEF Builds
    <2> QED BY <2>1
  <1>3. m - 1 \in 0 .. Len(q) /\ m \in 1 .. Len(q) /\ ~(m <= m - 1)
    BY <1>2
  <1>4. PICK g : Builds(g, c, q, m - 1)
    BY <1>1, <1>3
  <1> DEFINE last == IF q[m].peer = c THEN Append(g[m - 1], q[m].req) ELSE g[m - 1]
             h == [i \in 0 .. m |-> IF i = m THEN last ELSE g[i]]
  <1>5. q[m].req \in Asked
    <2>1. q[m] \in Event
      BY <1>3
    <2> QED BY <2>1 DEF Event, Asked
  <1>6. g \in [0 .. m - 1 -> Seq(Asked)] /\ g[m - 1] \in Seq(Asked)
    BY <1>3, <1>4 DEF Builds
  <1>7. last \in Seq(Asked)
    BY <1>5, <1>6
  <1> HIDE DEF last
  <1>8. h \in [0 .. m -> Seq(Asked)]
    BY <1>3, <1>6, <1>7
  <1>9. h[0] = <<>>
    BY <1>3, <1>4 DEF Builds
  <1>10. ASSUME NEW i \in 1 .. m
         PROVE  h[i] = IF q[i].peer = c THEN Append(h[i - 1], q[i].req) ELSE h[i - 1]
    <2>1. i \in 0 .. m /\ i - 1 \in 0 .. m /\ i - 1 # m
      BY <1>3
    <2>2. h[i - 1] = g[i - 1]
      BY <2>1
    <2>3. CASE i = m
      BY <2>1, <2>2, <2>3 DEF last
    <2>4. CASE i # m
      <3>1. i \in 1 .. m - 1 /\ h[i] = g[i]
        BY <1>3, <2>1, <2>4
      <3> QED BY <1>4, <2>2, <3>1 DEF Builds
    <2> QED BY <2>3, <2>4
  <1>11. Builds(h, c, q, m)
    BY <1>8, <1>9, <1>10 DEF Builds
  <1> QED BY <1>11

LEMMA BuildsAgree ==
  ASSUME NEW c \in Client, NEW q, NEW r, NEW n \in Nat, NEW m \in Nat, NEW f, NEW g,
         Builds(f, c, q, n), Builds(g, c, r, m), n <= m,
         \A i \in 1 .. n : q[i] = r[i]
  PROVE  f[n] = g[n]
  <1> DEFINE Bad == {k \in 0 .. n : f[k] # g[k]}
  <1> SUFFICES ASSUME Bad # {} PROVE FALSE
    OBVIOUS
  <1>1. PICK k \in Bad : \A j \in Bad : k <= j
    <2>1. Bad \in SUBSET Nat
      OBVIOUS
    <2> QED BY <2>1, LeastNatural
  <1>2. k # 0
    BY DEF Builds
  <1>3. k \in 1 .. n /\ k \in 1 .. m /\ k - 1 \in 0 .. n /\ ~(k <= k - 1)
    BY <1>2
  <1>4. f[k - 1] = g[k - 1] /\ q[k] = r[k]
    BY <1>1, <1>3
  <1>5. f[k] = g[k]
    BY <1>3, <1>4 DEF Builds
  <1> QED BY <1>5

LEMMA RequestsOfBuilt ==
  ASSUME NEW c \in Client, NEW q \in Seq(Event), NEW f, Builds(f, c, q, Len(q))
  PROVE  RequestsOf(c, q) = f[Len(q)]
  <1> DEFINE Body(g) == [i \in 0 .. Len(q) |->
                          IF i = 0 THEN <<>>
                          ELSE IF q[i].peer = c THEN Append(g[i - 1], q[i].req)
                          ELSE g[i - 1]]
             up == CHOOSE g : g = Body(g)
  <1>1. f = Body(f)
    <2>1. ASSUME NEW i \in 0 .. Len(q)
          PROVE  f[i] = IF i = 0 THEN <<>>
                        ELSE IF q[i].peer = c THEN Append(f[i - 1], q[i].req)
                        ELSE f[i - 1]
      <3>1. i # 0 => i \in 1 .. Len(q)
        OBVIOUS
      <3> QED BY <3>1 DEF Builds
    <2>2. f = [i \in 0 .. Len(q) |-> f[i]]
      BY DEF Builds
    <2> QED BY <2>1, <2>2, Zenon
  <1>2. up = Body(up)
    BY <1>1
  <1>3. RequestsOf(c, q) = up[Len(q)]
    BY DEF RequestsOf
  <1> HIDE DEF up
  <1>4. /\ up[0] = <<>>
        /\ \A i \in 1 .. Len(q) : up[i] = IF q[i].peer = c THEN Append(up[i - 1], q[i].req)
                                          ELSE up[i - 1]
    <2>1. \A i \in 0 .. Len(q) : up[i] = Body(up)[i]
      BY <1>2, Zenon
    <2>2. 0 \in 0 .. Len(q) /\ \A i \in 1 .. Len(q) : i \in 0 .. Len(q) /\ i # 0
      OBVIOUS
    <2> QED BY <2>1, <2>2
  <1> DEFINE Bad == {k \in 0 .. Len(q) : f[k] # up[k]}
  <1>5. Bad = {}
    <2> SUFFICES ASSUME Bad # {} PROVE FALSE
      OBVIOUS
    <2>1. PICK k \in Bad : \A j \in Bad : k <= j
      <3>1. Bad \in SUBSET Nat
        OBVIOUS
      <3> QED BY <3>1, LeastNatural
    <2>2. k # 0
      BY <1>4 DEF Builds
    <2>3. k \in 1 .. Len(q) /\ k - 1 \in 0 .. Len(q) /\ ~(k <= k - 1)
      BY <2>2
    <2>4. f[k - 1] = up[k - 1]
      BY <2>1, <2>3
    <2> QED BY <1>4, <2>3, <2>4 DEF Builds
  <1>6. Len(q) \in 0 .. Len(q)
    OBVIOUS
  <1> QED BY <1>3, <1>5, <1>6

\* What RequestsOf is of a queue, and of one without its last or first event.
LEMMA RequestsOfType ==
  ASSUME NEW c \in Client, NEW q \in Seq(Event)
  PROVE  RequestsOf(c, q) \in Seq(Asked)
  <1>1. Len(q) \in 0 .. Len(q)
    OBVIOUS
  <1>2. PICK f : Builds(f, c, q, Len(q))
    BY <1>1, BuildsExists
  <1> QED BY <1>1, <1>2, RequestsOfBuilt DEF Builds

LEMMA RequestsOfNone ==
  ASSUME NEW c \in Client
  PROVE  RequestsOf(c, <<>>) = <<>>
  <1>1. PICK q \in Seq(Event) : q = <<>>
    <2>1. <<>> \in Seq(Event)
      OBVIOUS
    <2> QED BY <2>1, Zenon
  <1>2. Len(q) = 0 /\ 0 \in 0 .. Len(q)
    BY <1>1
  <1>3. PICK f : Builds(f, c, q, 0)
    BY <1>2, BuildsExists
  <1>4. RequestsOf(c, q) = f[0]
    BY <1>2, <1>3, RequestsOfBuilt
  <1> QED BY <1>1, <1>3, <1>4 DEF Builds

LEMMA RequestsOfAppend ==
  ASSUME NEW c \in Client, NEW q \in Seq(Event), NEW e \in Event
  PROVE  RequestsOf(c, Append(q, e)) =
           IF e.peer = c THEN Append(RequestsOf(c, q), e.req) ELSE RequestsOf(c, q)
  <1> DEFINE r == Append(q, e)
             n == Len(q)
  <1>1. /\ r \in Seq(Event) /\ n \in Nat /\ Len(r) = n + 1 /\ r[n + 1] = e
        /\ \A i \in 1 .. n : q[i] = r[i]
    OBVIOUS
  <1> HIDE DEF r, n
  <1>2. PICK g : Builds(g, c, r, n + 1)
    <2>1. n + 1 \in 0 .. Len(r)
      BY <1>1
    <2> QED BY <1>1, <2>1, BuildsExists
  <1>3. PICK f : Builds(f, c, q, n)
    <2>1. n \in 0 .. Len(q)
      BY <1>1 DEF n
    <2> QED BY <1>1, <2>1, BuildsExists
  <1>4. f[n] = g[n]
    BY <1>1, <1>2, <1>3, BuildsAgree
  <1>5. n + 1 \in 1 .. n + 1 /\ (n + 1) - 1 = n
    BY <1>1
  <1>6. g[n + 1] = IF e.peer = c THEN Append(g[n], e.req) ELSE g[n]
    BY <1>1, <1>2, <1>5 DEF Builds
  <1>7. RequestsOf(c, r) = g[n + 1] /\ RequestsOf(c, q) = f[n]
    BY <1>1, <1>2, <1>3, RequestsOfBuilt DEF n
  <1> QED BY <1>4, <1>6, <1>7 DEF r

LEMMA RequestsOfTail ==
  ASSUME NEW c \in Client, NEW q \in Seq(Event), q # <<>>
  PROVE  RequestsOf(c, q) =
           IF Head(q).peer = c THEN <<Head(q).req>> \o RequestsOf(c, Tail(q))
           ELSE RequestsOf(c, Tail(q))
  <1> DEFINE t == Tail(q)
             n == Len(t)
             first == IF Head(q).peer = c THEN <<Head(q).req>> ELSE <<>>
  <1>1. /\ t \in Seq(Event) /\ n \in Nat /\ Len(q) = n + 1 /\ Head(q) = q[1]
        /\ \A i \in 1 .. n : t[i] = q[i + 1] /\ t[i] \in Event
        /\ Head(q) \in Event
    OBVIOUS
  <1>2. first \in Seq(Asked)
    <2>1. Head(q).req \in Asked
      BY <1>1 DEF Event, Asked
    <2> QED BY <2>1
  <1>3. PICK f : Builds(f, c, t, n)
    <2>1. n \in 0 .. Len(t)
      BY <1>1
    <2> HIDE DEF t, n
    <2> QED BY <1>1, <2>1, BuildsExists
  <1>4. PICK g : Builds(g, c, q, n + 1)
    <2>1. n + 1 \in 0 .. Len(q)
      BY <1>1
    <2> HIDE DEF t, n
    <2> QED BY <1>1, <2>1, BuildsExists
  <1>5. first = IF q[1].peer = c THEN <<q[1].req>> ELSE <<>>
    BY <1>1
  <1> HIDE DEF t, n, first
  <1> DEFINE Bad == {k \in 0 .. n : g[k + 1] # first \o f[k]}
  <1>6. Bad = {}
    <2> SUFFICES ASSUME Bad # {} PROVE FALSE
      OBVIOUS
    <2>1. PICK k \in Bad : \A j \in Bad : k <= j
      <3>1. Bad \in SUBSET Nat
        BY <1>1
      <3> QED BY <3>1, LeastNatural
    <2>2. k # 0
      <3>1. 1 \in 1 .. n + 1
        BY <1>1
      <3>2. g[1] = IF q[1].peer = c THEN Append(<<>>, q[1].req) ELSE <<>>
        <4>1. g[0] = <<>> /\ 1 - 1 = 0
          BY <1>4 DEF Builds
        <4> QED BY <1>4, <3>1, <4>1 DEF Builds
      <3>3. f[0] = <<>> /\ Head(q).req = q[1].req
        BY <1>1, <1>3 DEF Builds
      <3>4. g[1] = first
        BY <1>5, <3>2
      <3> QED BY <1>2, <3>3, <3>4
    <2>3. k \in 1 .. n /\ k - 1 \in 0 .. n /\ ~(k <= k - 1) /\ (k - 1) + 1 = k
          /\ k + 1 \in 1 .. n + 1 /\ (k + 1) - 1 = k
      BY <1>1, <2>2
    <2>4. g[k] = first \o f[k - 1]
      BY <2>1, <2>3
    <2>5. /\ f[k] = IF t[k].peer = c THEN Append(f[k - 1], t[k].req) ELSE f[k - 1]
          /\ g[k + 1] = IF t[k].peer = c THEN Append(g[k], t[k].req) ELSE g[k]
      BY <1>1, <1>3, <1>4, <2>3 DEF Builds
    <2>6. f[k - 1] \in Seq(Asked) /\ t[k].req \in Asked
      BY <1>1, <1>3, <2>3 DEF Builds, Event, Asked
    <2>7. Append(first \o f[k - 1], t[k].req) = first \o Append(f[k - 1], t[k].req)
      <3> DEFINE a == f[k - 1]
                 x == t[k].req
      <3>1. a \in Seq(Asked) /\ x \in Asked /\ first \in Seq(Asked)
        BY <1>2, <2>6
      <3> HIDE DEF a, x, Bad
      <3>2. Append(first \o a, x) = first \o Append(a, x)
        BY <3>1
      <3> QED BY <3>2 DEF a, x
    <2> QED BY <2>1, <2>4, <2>5, <2>7
  <1>7. g[n + 1] = first \o f[n] /\ f[n] \in Seq(Asked)
    <2>1. n \in 0 .. n
      BY <1>1
    <2> QED BY <1>3, <1>6, <2>1 DEF Builds
  <1>8. RequestsOf(c, q) = g[n + 1] /\ RequestsOf(c, t) = f[n]
    BY <1>1, <1>3, <1>4, RequestsOfBuilt DEF n
  <1>9. RequestsOf(c, q) = first \o RequestsOf(c, t) /\ RequestsOf(c, t) \in Seq(Asked)
    BY <1>7, <1>8
  <1>10. <<>> \o RequestsOf(c, t) = RequestsOf(c, t)
    BY <1>9
  <1> QED BY <1>9, <1>10, Zenon DEF first, t

-----------------------------------------------------------------------------
(***************************************************************************)
(* What each step does to the requests and the replies on their way.       *)
(***************************************************************************)
Push(x, r) == <<x>> \o r

Pops(q, x, r) == q # <<>> /\ Head(q) = x /\ Tail(q) = r

Line(r, g, a) == r \o g \o a

Chain(s, h, q, k) == s \o h \o q \o k

\* Requests: r in the broker's channel, g the greeting, a in the socket.
LEMMA LineType ==
  ASSUME NEW r \in Seq(Asked), NEW g \in Seq(Asked), NEW a \in Seq(Asked)
  PROVE  /\ Line(r, g, a) \in Seq(Asked)
         /\ Len(Line(r, g, a)) = Len(r) + Len(g) + Len(a)
  <1>1. r \o g \in Seq(Asked) /\ Len(r \o g) = Len(r) + Len(g)
    OBVIOUS
  <1>2. (r \o g) \o a \in Seq(Asked) /\ Len((r \o g) \o a) = Len(r \o g) + Len(a)
    BY <1>1
  <1> QED BY <1>1, <1>2 DEF Line

LEMMA LineShifts ==
  ASSUME NEW r \in Seq(Asked), NEW g \in Seq(Asked), NEW a \in Seq(Asked), NEW x \in Asked
  PROVE  /\ Line(r, g, Append(a, x)) = Append(Line(r, g, a), x)
         /\ Line(r, <<x>>, a) = Line(Append(r, x), <<>>, a)
         /\ a # <<>> => Line(r, <<>>, a) = Line(Append(r, Head(a)), <<>>, Tail(a))
  <1>1. r \o g \o Append(a, x) = Append(r \o g \o a, x)
    OBVIOUS
  <1>2. r \o <<x>> \o a = Append(r, x) \o <<>> \o a
    OBVIOUS
  <1>3. a # <<>> => r \o <<>> \o a = Append(r, Head(a)) \o <<>> \o Tail(a)
    OBVIOUS
  <1> QED BY <1>1, <1>2, <1>3, Zenon DEF Line

LEMMA LineEmpty ==
  ASSUME NEW r \in Seq(Asked), NEW g \in Seq(Asked), NEW a \in Seq(Asked),
         Line(r, g, a) = <<>>
  PROVE  r = <<>> /\ a = <<>>
  BY DEF Line

LEMMA LinePop ==
  ASSUME NEW r \in Seq(Asked), NEW g \in Seq(Asked), NEW a \in Seq(Asked), NEW x \in Asked
  PROVE  Pops(Line(Push(x, r), g, a), x, Line(r, g, a))
  <1>1. Tail(<<x>> \o r \o g \o a) = r \o g \o a
    OBVIOUS
  <1>2. Head(<<x>> \o r \o g \o a) = x /\ <<x>> \o r \o g \o a # <<>>
    OBVIOUS
  <1> QED BY <1>1, <1>2, Zenon DEF Line, Push, Pops

LEMMA LineShrinks ==
  ASSUME NEW r \in Seq(Asked), NEW g \in Seq(Asked), NEW a \in Seq(Asked)
  PROVE  Len(Line(<<>>, g, a)) <= Len(Line(r, g, a))
  <1>1. Len(<<>> \o g \o a) <= Len(r \o g \o a)
    OBVIOUS
  <1> QED BY <1>1, Zenon DEF Line

LEMMA LineCut ==
  ASSUME NEW r \in Seq(Asked), NEW a \in Seq(Asked)
  PROVE  /\ Line(r, <<>>, <<>>) = SubSeq(Line(r, <<>>, a), 1, Len(r))
         /\ Len(r) \in 0 .. Len(Line(r, <<>>, a))
         /\ Len(Line(r, <<>>, <<>>)) <= Len(Line(r, <<>>, a))
  <1>1. r \o <<>> \o <<>> = SubSeq(r \o <<>> \o a, 1, Len(r))
    OBVIOUS
  <1>2. /\ Len(r) \in 0 .. Len(r \o <<>> \o a)
        /\ Len(r \o <<>> \o <<>>) <= Len(r \o <<>> \o a)
    OBVIOUS
  <1> QED BY <1>1, <1>2, Zenon DEF Line

\* Replies: s in the socket, h in the writer's hands, q in its channel, k in the
\* broker's hands.
LEMMA ChainType ==
  ASSUME NEW s \in Seq(Reply), NEW h \in Seq(Reply), NEW q \in Seq(Reply), NEW k \in Seq(Reply)
  PROVE  /\ Chain(s, h, q, k) \in Seq(Reply)
         /\ Len(Chain(s, h, q, k)) = Len(s) + Len(h) + Len(q) + Len(k)
  <1>1. s \o h \in Seq(Reply) /\ Len(s \o h) = Len(s) + Len(h)
    OBVIOUS
  <1>2. s \o h \o q \in Seq(Reply) /\ Len(s \o h \o q) = Len(s) + Len(h) + Len(q)
    BY <1>1
  <1>3. s \o h \o q \o k \in Seq(Reply) /\ Len(s \o h \o q \o k) = Len(s \o h \o q) + Len(k)
    BY <1>2
  <1> QED BY <1>2, <1>3 DEF Chain

LEMMA ChainTail ==
  ASSUME NEW s \in Seq(Reply), NEW h \in Seq(Reply), NEW q \in Seq(Reply), NEW k \in Seq(Reply),
         s # <<>>
  PROVE  /\ Chain(s, h, q, k) # <<>>
         /\ Chain(Tail(s), h, q, k) = Tail(Chain(s, h, q, k))
  <1>1. s \o h \o q \o k # <<>>
    OBVIOUS
  <1>2. Tail(s) \o h \o q \o k = Tail(s \o h \o q \o k)
    OBVIOUS
  <1> QED BY <1>1, <1>2, Zenon DEF Chain

LEMMA ChainTaken ==
  ASSUME NEW s \in Seq(Reply), NEW q \in Seq(Reply), NEW k \in Seq(Reply), q # <<>>
  PROVE  Chain(s, <<Head(q)>>, Tail(q), k) = Chain(s, <<>>, q, k)
  <1>1. s \o <<Head(q)>> \o Tail(q) \o k = s \o <<>> \o q \o k
    OBVIOUS
  <1> QED BY <1>1, Zenon DEF Chain

LEMMA ChainWritten ==
  ASSUME NEW s \in Seq(Reply), NEW h \in Seq(Reply), NEW q \in Seq(Reply), NEW k \in Seq(Reply)
  PROVE  Chain(s \o h, <<>>, q, k) = Chain(s, h, q, k)
  <1>1. (s \o h) \o <<>> \o q \o k = s \o h \o q \o k
    OBVIOUS
  <1> QED BY <1>1, Zenon DEF Chain

LEMMA ChainGrows ==
  ASSUME NEW s \in Seq(Reply), NEW h \in Seq(Reply), NEW q \in Seq(Reply), NEW x \in Reply
  PROVE  /\ Chain(s, h, Append(q, x), <<>>) = Append(Chain(s, h, q, <<>>), x)
         /\ Chain(s, h, q, <<x>>) = Append(Chain(s, h, q, <<>>), x)
  <1>1. s \o h \o Append(q, x) \o <<>> = Append(s \o h \o q \o <<>>, x)
    OBVIOUS
  <1>2. s \o h \o q \o <<x>> = Append(s \o h \o q \o <<>>, x)
    OBVIOUS
  <1> QED BY <1>1, <1>2, Zenon DEF Chain

LEMMA ChainReplaced ==
  ASSUME NEW s \in Seq(Reply), NEW h \in Seq(Reply), NEW q \in Seq(Reply), NEW x \in Reply,
         NEW y \in Reply
  PROVE  Len(Chain(s, h, Append(q, y), <<>>)) = Len(Chain(s, h, q, <<x>>))
  <1>1. Len(s \o h \o Append(q, y) \o <<>>) = Len(s \o h \o q \o <<x>>)
    OBVIOUS
  <1> QED BY <1>1, Zenon DEF Chain

\* With less in the socket, in the writer's hands or in its channel.
LEMMA ChainShrinks ==
  ASSUME NEW s \in Seq(Reply), NEW h \in Seq(Reply), NEW q \in Seq(Reply), NEW k \in Seq(Reply)
  PROVE  /\ Len(Chain(<<>>, h, q, k)) <= Len(Chain(s, h, q, k))
         /\ Len(Chain(s, <<>>, q, k)) <= Len(Chain(s, h, q, k))
         /\ Len(Chain(s, h, <<>>, k)) <= Len(Chain(s, h, q, k))
         /\ Len(Chain(s, <<>>, <<>>, k)) <= Len(Chain(s, h, q, k))
  <1>1. /\ Len(<<>> \o h \o q \o k) <= Len(s \o h \o q \o k)
        /\ Len(s \o <<>> \o q \o k) <= Len(s \o h \o q \o k)
    OBVIOUS
  <1>2. /\ Len(s \o h \o <<>> \o k) <= Len(s \o h \o q \o k)
        /\ Len(s \o <<>> \o <<>> \o k) <= Len(s \o h \o q \o k)
    OBVIOUS
  <1> QED BY <1>1, <1>2, Zenon DEF Chain

LEMMA ChainCut ==
  ASSUME NEW s \in Seq(Reply), NEW q \in Seq(Reply)
  PROVE  /\ Chain(s, <<>>, <<>>, <<>>) = SubSeq(Chain(s, <<>>, q, <<>>), 1, Len(s))
         /\ Len(s) \in 0 .. Len(Chain(s, <<>>, q, <<>>))
         /\ Len(Chain(s, <<>>, <<>>, <<>>)) <= Len(Chain(s, <<>>, q, <<>>))
  <1>1. s \o <<>> \o <<>> \o <<>> = SubSeq(s \o <<>> \o q \o <<>>, 1, Len(s))
    OBVIOUS
  <1>2. /\ Len(s) \in 0 .. Len(s \o <<>> \o q \o <<>>)
        /\ Len(s \o <<>> \o <<>> \o <<>>) <= Len(s \o <<>> \o q \o <<>>)
    OBVIOUS
  <1> QED BY <1>1, <1>2, Zenon DEF Chain

Greeting(c) == IF reader[c] = "hello" THEN <<NewClient>> ELSE <<>>

Kept(c) == IF broker.at = "story" /\ broker.peer = c THEN <<broker.reply>> ELSE <<>>

LEMMA TodoIs ==
  ASSUME NEW c
  PROVE  /\ Todo(c) = Line(RequestsOf(c, events), Greeting(c), c2s[c])
         /\ Todo(c)' = Line(RequestsOf(c, events'), Greeting(c)', c2s'[c])
  BY Zenon DEF Todo, Greeting, Line

LEMMA DoneIs ==
  ASSUME NEW c
  PROVE  /\ Done(c) = Chain(s2c[c], held[c], chan[c], Kept(c))
         /\ Done(c)' = Chain(s2c'[c], held'[c], chan'[c], Kept(c)')
  BY Zenon DEF Done, Kept, Chain

LEMMA PartsType ==
  ASSUME TypeOK, NEW c \in Client
  PROVE  /\ RequestsOf(c, events) \in Seq(Asked) /\ Greeting(c) \in Seq(Asked)
         /\ c2s[c] \in Seq(Asked)
         /\ s2c[c] \in Seq(Reply) /\ held[c] \in Seq(Reply) /\ chan[c] \in Seq(Reply)
         /\ Kept(c) \in Seq(Reply)
  <1>1. RequestsOf(c, events) \in Seq(Asked)
    BY RequestsOfType DEF TypeOK
  <1>2. Greeting(c) \in Seq(Asked)
    <2>1. NewClient \in Asked
      BY DEF Asked
    <2>2. <<NewClient>> \in Seq(Asked) /\ <<>> \in Seq(Asked)
      BY <2>1
    <2> QED BY <2>2, Zenon DEF Greeting
  <1>3. c2s[c] \in Seq(Request)
    BY DEF TypeOK
  <1>4. c2s[c] \in Seq(Asked)
    BY <1>3, SeqMonotonic DEF Asked
  <1>5. s2c[c] \in Seq(Reply) /\ held[c] \in Seq(Reply) /\ chan[c] \in Seq(Reply)
    BY DEF TypeOK
  <1>6. broker.at = "story" => broker.reply \in Reply
    BY DEF TypeOK, BrokerState
  <1>7. Kept(c) \in Seq(Reply)
    <2>1. broker.at = "story" => <<broker.reply>> \in Seq(Reply)
      BY <1>6
    <2>2. <<>> \in Seq(Reply)
      OBVIOUS
    <2> QED BY <2>1, <2>2, Zenon DEF Kept
  <1> QED BY <1>1, <1>2, <1>4, <1>5, <1>7

LEMMA TodoType ==
  ASSUME TypeOK, NEW c \in Client
  PROVE  Todo(c) \in Seq(Asked) /\ Done(c) \in Seq(Reply) /\ InFlight(c) \in Nat
  <1>1. Todo(c) \in Seq(Asked)
    BY TodoIs, PartsType, LineType, Zenon
  <1>2. Done(c) \in Seq(Reply)
    <2>1. /\ s2c[c] \in Seq(Reply) /\ held[c] \in Seq(Reply) /\ chan[c] \in Seq(Reply)
          /\ Kept(c) \in Seq(Reply)
      BY PartsType
    <2>2. Chain(s2c[c], held[c], chan[c], Kept(c)) \in Seq(Reply)
      BY <2>1, ChainType
    <2> QED BY <2>2, DoneIs
  <1> QED BY <1>1, <1>2 DEF InFlight

\* The same of the next state.
LEMMA TodoTypeNext ==
  (TypeOK => \A c \in Client :
     Todo(c) \in Seq(Asked) /\ Done(c) \in Seq(Reply) /\ InFlight(c) \in Nat)'
  <1>1. TypeOK => \A c \in Client :
          Todo(c) \in Seq(Asked) /\ Done(c) \in Seq(Reply) /\ InFlight(c) \in Nat
    BY TodoType
  <1> QED BY <1>1, PTL

Same(d) == Todo(d)' = Todo(d) /\ Done(d)' = Done(d)

LEMMA TodoKept ==
  ASSUME NEW d, RequestsOf(d, events') = RequestsOf(d, events),
         reader'[d] = "hello" <=> reader[d] = "hello", c2s'[d] = c2s[d]
  PROVE  Todo(d)' = Todo(d)
  BY TodoIs DEF Greeting

LEMMA DoneKept ==
  ASSUME NEW d, s2c'[d] = s2c[d], held'[d] = held[d], chan'[d] = chan[d],
         Kept(d)' = Kept(d)
  PROVE  Done(d)' = Done(d)
  BY DoneIs, Zenon

LEMMA NothingOnItsWay ==
  ASSUME TypeOK, NEW c \in Client, InFlight(c) = 0
  PROVE  /\ Todo(c) = <<>> /\ Done(c) = <<>>
         /\ RequestsOf(c, events) = <<>> /\ c2s[c] = <<>>
  <1>1. Todo(c) \in Seq(Asked) /\ Done(c) \in Seq(Reply)
    BY TodoType
  <1>2. Len(Todo(c)) = 0 /\ Len(Done(c)) = 0
    BY <1>1 DEF InFlight
  <1>3. Todo(c) = <<>> /\ Done(c) = <<>>
    BY <1>1, <1>2
  <1>4. /\ RequestsOf(c, events) \in Seq(Asked) /\ Greeting(c) \in Seq(Asked)
        /\ c2s[c] \in Seq(Asked)
    BY PartsType
  <1>5. Line(RequestsOf(c, events), Greeting(c), c2s[c]) = <<>>
    BY <1>3, TodoIs
  <1>6. RequestsOf(c, events) = <<>> /\ c2s[c] = <<>>
    BY <1>4, <1>5, LineEmpty
  <1> QED BY <1>3, <1>6

LEMMA ConnectMoves ==
  ASSUME TypeOK, NEW c \in Client, Connect(c), InFlight(c) = 0
  PROVE  /\ Todo(c) = <<>> /\ Todo(c)' = <<NewClient>>
         /\ Done(c) = <<>> /\ Done(c)' = <<>>
         /\ \A d \in Client : d # c => Same(d)
  <1>1. /\ UNCHANGED <<events, c2s, s2c, held, chan, broker>>
        /\ reader' = [reader EXCEPT ![c] = "hello"]
    BY DEF Connect, writerVars, brokerVars
  <1>2. \A d \in Client : Done(d)' = Done(d)
    BY <1>1, DoneKept DEF Kept
  <1>3. \A d \in Client : d # c => Todo(d)' = Todo(d)
    BY <1>1, TodoKept DEF TypeOK
  <1>4. Todo(c)' = Line(<<>>, <<NewClient>>, <<>>)
    <2>1. Greeting(c)' = <<NewClient>>
      BY <1>1 DEF Greeting, TypeOK
    <2> QED BY <1>1, <2>1, TodoIs, NothingOnItsWay
  <1>5. Line(<<>>, <<NewClient>>, <<>>) = <<NewClient>>
    BY DEF Line
  <1> QED BY <1>2, <1>3, <1>4, <1>5, NothingOnItsWay DEF Same

LEMMA AskMoves ==
  ASSUME TypeOK, NEW c \in Client, NEW r \in Requests, Ask(c, r)
  PROVE  /\ Todo(c)' = Append(Todo(c), r)
         /\ \A d \in Client : Done(d)' = Done(d)
         /\ \A d \in Client : d # c => Same(d)
  <1>1. /\ UNCHANGED <<events, reader, s2c, held, chan, broker>>
        /\ c2s' = [c2s EXCEPT ![c] = Append(@, r)]
    BY DEF Ask, readerVars, writerVars, brokerVars
  <1>2. \A d \in Client : Done(d)' = Done(d)
    BY <1>1, DoneKept DEF Kept
  <1>3. \A d \in Client : d # c => Todo(d)' = Todo(d)
    BY <1>1, TodoKept DEF TypeOK
  <1>4. /\ RequestsOf(c, events) \in Seq(Asked) /\ Greeting(c) \in Seq(Asked)
        /\ c2s[c] \in Seq(Asked) /\ r \in Asked
    BY PartsType, RequestsAssumption DEF Asked
  <1>5. Greeting(c)' = Greeting(c) /\ c2s'[c] = Append(c2s[c], r)
    BY <1>1 DEF Greeting, TypeOK
  <1>6. Todo(c)' = Append(Todo(c), r)
    <2>1. Line(RequestsOf(c, events), Greeting(c), Append(c2s[c], r))
            = Append(Line(RequestsOf(c, events), Greeting(c), c2s[c]), r)
      BY <1>4, LineShifts
    <2> QED BY <1>1, <1>5, <2>1, TodoIs, Zenon
  <1> QED BY <1>2, <1>3, <1>6 DEF Same

LEMMA ReceiveMoves ==
  ASSUME TypeOK, NEW c \in Client, Receive(c)
  PROVE  /\ Done(c) # <<>> /\ Done(c)' = Tail(Done(c))
         /\ \A d \in Client : Todo(d)' = Todo(d)
         /\ \A d \in Client : d # c => Same(d)
  <1>1. /\ UNCHANGED <<events, reader, c2s, held, chan, broker>>
        /\ s2c[c] # <<>> /\ s2c' = [s2c EXCEPT ![c] = Tail(@)]
    BY DEF Receive, readerVars, writerVars, brokerVars
  <1>2. \A d \in Client : Todo(d)' = Todo(d)
    BY <1>1, TodoKept
  <1>3. \A d \in Client : d # c => Done(d)' = Done(d)
    BY <1>1, DoneKept DEF Kept, TypeOK
  <1>4. /\ s2c[c] \in Seq(Reply) /\ held[c] \in Seq(Reply) /\ chan[c] \in Seq(Reply)
        /\ Kept(c) \in Seq(Reply)
    BY PartsType
  <1>5. Kept(c)' = Kept(c) /\ s2c'[c] = Tail(s2c[c])
    BY <1>1 DEF Kept, TypeOK
  <1>6. Done(c) # <<>> /\ Done(c)' = Tail(Done(c))
    <2>1. s2c[c] # <<>>
      BY <1>1
    <2> DEFINE s == s2c[c]
               h == held[c]
               q == chan[c]
               k == Kept(c)
    <2>2. /\ s \in Seq(Reply) /\ h \in Seq(Reply) /\ q \in Seq(Reply) /\ k \in Seq(Reply)
          /\ s # <<>>
      BY <1>4, <2>1
    <2>3. Done(c) = Chain(s, h, q, k) /\ Done(c)' = Chain(Tail(s), h, q, k)
      BY <1>1, <1>5, DoneIs, Zenon
    <2> HIDE DEF s, h, q, k
    <2>4. Chain(s, h, q, k) # <<>> /\ Chain(Tail(s), h, q, k) = Tail(Chain(s, h, q, k))
      BY <2>2, ChainTail
    <2> QED BY <2>3, <2>4, Zenon
  <1> QED BY <1>2, <1>3, <1>6 DEF Same

LEMMA LeaveMoves ==
  ASSUME TypeOK, TypeOK', NEW c \in Client, Leave(c)
  PROVE  /\ Len(Done(c)') <= Len(Done(c))
         /\ \A d \in Client : Todo(d)' = Todo(d)
         /\ \A d \in Client : d # c => Same(d)
  <1>1. /\ UNCHANGED <<events, reader, c2s, held, chan, broker>>
        /\ s2c' = [s2c EXCEPT ![c] = <<>>]
    BY DEF Leave, readerVars, writerVars, brokerVars
  <1>2. \A d \in Client : Todo(d)' = Todo(d)
    BY <1>1, TodoKept
  <1>3. \A d \in Client : d # c => Done(d)' = Done(d)
    BY <1>1, DoneKept DEF Kept, TypeOK
  <1>4. /\ s2c[c] \in Seq(Reply) /\ held[c] \in Seq(Reply) /\ chan[c] \in Seq(Reply)
        /\ Kept(c) \in Seq(Reply)
    BY PartsType
  <1>5. Kept(c)' = Kept(c) /\ s2c'[c] = <<>>
    BY <1>1 DEF Kept, TypeOK
  <1>6. Len(Done(c)') <= Len(Done(c))
    <2>1. Len(Chain(<<>>, held[c], chan[c], Kept(c)))
            <= Len(Chain(s2c[c], held[c], chan[c], Kept(c)))
      BY <1>4, ChainShrinks
    <2> QED BY <1>1, <1>5, <2>1, DoneIs, Zenon
  <1> QED BY <1>2, <1>3, <1>6 DEF Same

LEMMA SendEventMoves ==
  ASSUME TypeOK, NEW c \in Client, NEW x \in Asked, Alive, SendEvent(c, x)
  PROVE  /\ RequestsOf(c, events') = Append(RequestsOf(c, events), x)
         /\ \A d \in Client : d # c =>
              RequestsOf(d, events') = RequestsOf(d, events) /\ reader'[d] = reader[d]
         /\ reader'[c] # "hello"
  <1> DEFINE e == [peer |-> c, req |-> x]
  <1>1. events' = Append(events, e) /\ events \in Seq(Event) /\ e \in Event
    BY DEF SendEvent, TypeOK, Event, Asked
  <1>2. e.peer = c /\ e.req = x
    OBVIOUS
  <1> HIDE DEF e
  <1>3. RequestsOf(c, events') = Append(RequestsOf(c, events), x)
    BY <1>1, <1>2, RequestsOfAppend
  <1>4. \A d \in Client : d # c => RequestsOf(d, events') = RequestsOf(d, events)
    BY <1>1, <1>2, RequestsOfAppend
  <1>5. /\ \A d \in Client : d # c => reader'[d] = reader[d]
        /\ reader'[c] # "hello"
    BY DEF SendEvent, TypeOK
  <1> QED BY <1>3, <1>4, <1>5

LEMMA ReaderGreetsMoves ==
  ASSUME TypeOK, NEW c \in Client, Alive, ReaderGreets(c)
  PROVE  \A d \in Client : Same(d)
  <1>1. /\ UNCHANGED <<c2s, s2c, held, chan, broker>>
        /\ reader[c] = "hello" /\ SendEvent(c, NewClient) /\ NewClient \in Asked
    BY DEF ReaderGreets, writerVars, brokerVars, Asked
  <1>2. \A d \in Client : Done(d)' = Done(d)
    BY <1>1, DoneKept DEF Kept
  <1>3. \A d \in Client : d # c => Todo(d)' = Todo(d)
    BY <1>1, SendEventMoves, TodoKept
  <1>4. Todo(c)' = Todo(c)
    <2> DEFINE r == RequestsOf(c, events)
               a == c2s[c]
    <2>1. r \in Seq(Asked) /\ a \in Seq(Asked) /\ <<>> \in Seq(Asked) /\ NewClient \in Asked
      BY <1>1, PartsType, SeqFacts
    <2>2. Todo(c) = Line(r, <<NewClient>>, a)
      BY <1>1, TodoIs DEF Greeting
    <2>3. Todo(c)' = Line(Append(r, NewClient), <<>>, a)
      BY <1>1, SendEventMoves, TodoIs DEF Greeting
    <2> HIDE DEF r, a
    <2>4. Line(r, <<NewClient>>, a) = Line(Append(r, NewClient), <<>>, a)
      BY <2>1, LineShifts
    <2> QED BY <2>2, <2>3, <2>4, Zenon
  <1> QED BY <1>2, <1>3, <1>4 DEF Same

LEMMA ReaderForwardsMoves ==
  ASSUME TypeOK, NEW c \in Client, Alive, ReaderForwards(c)
  PROVE  \A d \in Client : Same(d)
  <1>1. /\ UNCHANGED <<s2c, held, chan, broker>>
        /\ reader[c] = "read" /\ c2s[c] # <<>> /\ SendEvent(c, Head(c2s[c]))
        /\ c2s' = [c2s EXCEPT ![c] = Tail(@)]
    BY DEF ReaderForwards, writerVars, brokerVars
  <1>2. Head(c2s[c]) \in Asked
    BY <1>1, PartsType, SeqFacts
  <1>3. \A d \in Client : Done(d)' = Done(d)
    BY <1>1, DoneKept DEF Kept
  <1>4. \A d \in Client : d # c => Todo(d)' = Todo(d)
    <2>1. \A d \in Client : d # c => c2s'[d] = c2s[d]
      BY <1>1 DEF TypeOK
    <2> QED BY <1>1, <1>2, <2>1, SendEventMoves, TodoKept
  <1>5. Todo(c)' = Todo(c)
    <2> DEFINE r == RequestsOf(c, events)
               a == c2s[c]
    <2>1. /\ r \in Seq(Asked) /\ a \in Seq(Asked) /\ <<>> \in Seq(Asked) /\ NewClient \in Asked
          /\ a # <<>>
      BY <1>1, PartsType, SeqFacts DEF Asked
    <2>2. Todo(c) = Line(r, <<>>, a)
      BY <1>1, TodoIs DEF Greeting
    <2>3. Todo(c)' = Line(Append(r, Head(a)), <<>>, Tail(a))
      <3>1. c2s'[c] = Tail(a)
        BY <1>1 DEF TypeOK
      <3>2. Greeting(c)' = <<>> /\ RequestsOf(c, events') = Append(r, Head(a))
        BY <1>1, <1>2, SendEventMoves DEF Greeting
      <3> QED BY <3>1, <3>2, TodoIs
    <2> HIDE DEF r, a
    <2>4. Line(r, <<>>, a) = Line(Append(r, Head(a)), <<>>, Tail(a))
      BY <2>1, LineShifts
    <2> QED BY <2>2, <2>3, <2>4, Zenon
  <1> QED BY <1>3, <1>4, <1>5 DEF Same

\* With the broker dead, a reader ends when it sends.
LEMMA ReaderOfDeadMoves ==
  ASSUME TypeOK, NEW c \in Client, ~Alive, ReaderGreets(c) \/ ReaderForwards(c)
  PROVE  /\ \A d \in Client : Done(d)' = Done(d)
         /\ \A d \in Client : d # c => Same(d)
  <1>1. /\ UNCHANGED <<events, s2c, held, chan, broker>>
        /\ \A d \in Client : d # c => reader'[d] = reader[d] /\ c2s'[d] = c2s[d]
    BY DEF ReaderGreets, ReaderForwards, SendEvent, TypeOK, writerVars, brokerVars
  <1>2. \A d \in Client : Done(d)' = Done(d)
    BY <1>1, DoneKept DEF Kept
  <1>3. \A d \in Client : d # c => Todo(d)' = Todo(d)
    BY <1>1, TodoKept
  <1> QED BY <1>2, <1>3 DEF Same

LEMMA ReaderEndsMoves ==
  ASSUME TypeOK, NEW c \in Client, ReaderEnds(c)
  PROVE  /\ \E n \in 0 .. Len(Todo(c)) : Todo(c)' = SubSeq(Todo(c), 1, n)
         /\ Len(Todo(c)') <= Len(Todo(c))
         /\ \A d \in Client : Done(d)' = Done(d)
         /\ \A d \in Client : d # c => Same(d)
  <1>1. /\ UNCHANGED <<events, s2c, held, chan, broker>>
        /\ reader[c] = "read" /\ reader' = [reader EXCEPT ![c] = "ended"]
        /\ c2s' = [c2s EXCEPT ![c] = <<>>]
    BY DEF ReaderEnds, writerVars, brokerVars
  <1>2. \A d \in Client : Done(d)' = Done(d)
    BY <1>1, DoneKept DEF Kept
  <1>3. \A d \in Client : d # c => Todo(d)' = Todo(d)
    BY <1>1, TodoKept DEF TypeOK
  <1>4. /\ \E n \in 0 .. Len(Todo(c)) : Todo(c)' = SubSeq(Todo(c), 1, n)
        /\ Len(Todo(c)') <= Len(Todo(c))
    <2> DEFINE r == RequestsOf(c, events)
               a == c2s[c]
    <2>1. r \in Seq(Asked) /\ a \in Seq(Asked)
      BY PartsType
    <2>2. Todo(c) = Line(r, <<>>, a)
      BY <1>1, TodoIs DEF Greeting
    <2>3. Todo(c)' = Line(r, <<>>, <<>>)
      <3>1. c2s'[c] = <<>> /\ Greeting(c)' = <<>>
        BY <1>1 DEF Greeting, TypeOK
      <3> QED BY <1>1, <3>1, TodoIs
    <2> HIDE DEF r, a
    <2>4. /\ Line(r, <<>>, <<>>) = SubSeq(Line(r, <<>>, a), 1, Len(r))
          /\ Len(r) \in 0 .. Len(Line(r, <<>>, a))
          /\ Len(Line(r, <<>>, <<>>)) <= Len(Line(r, <<>>, a))
      BY <2>1, LineCut
    <2> QED BY <2>2, <2>3, <2>4, Zenon
  <1> QED BY <1>2, <1>3, <1>4 DEF Same

LEMMA WriterTakesMoves ==
  ASSUME TypeOK, NEW c \in Client, WriterTakes(c)
  PROVE  \A d \in Client : Same(d)
  <1>1. /\ UNCHANGED <<events, reader, c2s, s2c, broker>>
        /\ held[c] = <<>> /\ held' = [held EXCEPT ![c] = <<Head(chan[c])>>]
        /\ chan[c] # <<>> /\ chan' = [chan EXCEPT ![c] = Tail(@)]
    BY DEF WriterTakes, readerVars, brokerVars
  <1>2. \A d \in Client : Todo(d)' = Todo(d)
    BY <1>1, TodoKept
  <1>3. \A d \in Client : Kept(d)' = Kept(d)
    BY <1>1 DEF Kept
  <1>4. \A d \in Client : d # c => Done(d)' = Done(d)
    BY <1>1, <1>3, DoneKept DEF TypeOK
  <1>5. Done(c)' = Done(c)
    <2> DEFINE s == s2c[c]
               q == chan[c]
               k == Kept(c)
    <2>1. s \in Seq(Reply) /\ q \in Seq(Reply) /\ k \in Seq(Reply) /\ q # <<>>
      BY <1>1, PartsType
    <2>2. Done(c) = Chain(s, <<>>, q, k)
      BY <1>1, DoneIs
    <2>3. Done(c)' = Chain(s, <<Head(q)>>, Tail(q), k)
      <3>1. held'[c] = <<Head(q)>> /\ chan'[c] = Tail(q)
        BY <1>1 DEF TypeOK
      <3> QED BY <1>1, <1>3, <3>1, DoneIs
    <2> HIDE DEF s, q, k
    <2>4. Chain(s, <<Head(q)>>, Tail(q), k) = Chain(s, <<>>, q, k)
      BY <2>1, ChainTaken
    <2> QED BY <2>2, <2>3, <2>4, Zenon
  <1> QED BY <1>2, <1>4, <1>5 DEF Same

LEMMA WriterWritesMoves ==
  ASSUME TypeOK, NEW c \in Client, WriterWrites(c)
  PROVE  /\ \A d \in Client : Todo(d)' = Todo(d)
         /\ \A d \in Client : d # c => Same(d)
         /\ Len(Done(c)') <= Len(Done(c))
         /\ peer[c] = "up" => Same(c)
  <1>1. /\ UNCHANGED <<events, reader, c2s, chan, broker>>
        /\ held' = [held EXCEPT ![c] = <<>>]
        /\ s2c' = IF peer[c] = "up" THEN [s2c EXCEPT ![c] = @ \o held[c]] ELSE s2c
    BY DEF WriterWrites, readerVars, brokerVars
  <1>2. \A d \in Client : Todo(d)' = Todo(d)
    BY <1>1, TodoKept
  <1>3. \A d \in Client : Kept(d)' = Kept(d)
    BY <1>1 DEF Kept
  <1>4. \A d \in Client : d # c => Done(d)' = Done(d)
    BY <1>1, <1>3, DoneKept DEF TypeOK
  <1> DEFINE s == s2c[c]
             h == held[c]
             q == chan[c]
             k == Kept(c)
  <1>5. s \in Seq(Reply) /\ h \in Seq(Reply) /\ q \in Seq(Reply) /\ k \in Seq(Reply)
    BY PartsType
  <1>6. Done(c) = Chain(s, h, q, k)
    BY DoneIs
  <1>7. Done(c)' = IF peer[c] = "up" THEN Chain(s \o h, <<>>, q, k) ELSE Chain(s, <<>>, q, k)
    <2>1. held'[c] = <<>> /\ s2c'[c] = IF peer[c] = "up" THEN s \o h ELSE s
      BY <1>1 DEF TypeOK
    <2> QED BY <1>1, <1>3, <2>1, DoneIs
  <1> HIDE DEF s, h, q, k
  <1>8. Chain(s \o h, <<>>, q, k) = Chain(s, h, q, k)
    BY <1>5, ChainWritten
  <1>9. Len(Chain(s, <<>>, q, k)) <= Len(Chain(s, h, q, k))
    BY <1>5, ChainShrinks
  <1>10. Len(Chain(s, h, q, k)) <= Len(Chain(s, h, q, k))
    BY <1>5, ChainType
  <1>11. Len(Done(c)') <= Len(Done(c)) /\ (peer[c] = "up" => Done(c)' = Done(c))
    BY <1>6, <1>7, <1>8, <1>9, <1>10, Zenon
  <1> QED BY <1>2, <1>4, <1>11 DEF Same

LEMMA WriterFailsMoves ==
  ASSUME TypeOK, NEW c \in Client, WriterFails(c)
  PROVE  /\ \A d \in Client : Todo(d)' = Todo(d)
         /\ \A d \in Client : d # c => Same(d)
         /\ Len(Done(c)') <= Len(Done(c))
  <1>1. /\ UNCHANGED <<events, reader, c2s, s2c, broker>>
        /\ held' = [held EXCEPT ![c] = <<>>]
        /\ chan' = chan \/ chan' = [chan EXCEPT ![c] = <<>>]
    BY DEF WriterFails, Disconnect, readerVars, brokerVars
  <1>2. \A d \in Client : Todo(d)' = Todo(d)
    BY <1>1, TodoKept
  <1>3. \A d \in Client : Kept(d)' = Kept(d)
    BY <1>1 DEF Kept
  <1>4. \A d \in Client : d # c => Done(d)' = Done(d)
    BY <1>1, <1>3, DoneKept DEF TypeOK
  <1> DEFINE s == s2c[c]
             h == held[c]
             q == chan[c]
             k == Kept(c)
  <1>5. s \in Seq(Reply) /\ h \in Seq(Reply) /\ q \in Seq(Reply) /\ k \in Seq(Reply)
    BY PartsType
  <1>6. Done(c) = Chain(s, h, q, k)
    BY DoneIs
  <1>7. Done(c)' = Chain(s, <<>>, q, k) \/ Done(c)' = Chain(s, <<>>, <<>>, k)
    <2>1. held'[c] = <<>> /\ (chan'[c] = q \/ chan'[c] = <<>>)
      BY <1>1 DEF TypeOK
    <2> QED BY <1>1, <1>3, <2>1, DoneIs
  <1> HIDE DEF s, h, q, k
  <1>8. /\ Len(Chain(s, <<>>, q, k)) <= Len(Chain(s, h, q, k))
        /\ Len(Chain(s, <<>>, <<>>, k)) <= Len(Chain(s, h, q, k))
    BY <1>5, ChainShrinks
  <1>9. Len(Done(c)') <= Len(Done(c))
    BY <1>6, <1>7, <1>8, Zenon
  <1> QED BY <1>2, <1>4, <1>9 DEF Same

LEMMA WriterStopsMoves ==
  ASSUME TypeOK, NEW c \in Client, WriterStops(c)
  PROVE  /\ \A d \in Client : Todo(d)' = Todo(d)
         /\ \A d \in Client : d # c => Same(d)
         /\ Alive => Same(c)
         /\ ~Alive => /\ \E n \in 0 .. Len(Done(c)) : Done(c)' = SubSeq(Done(c), 1, n)
                      /\ Len(Done(c)') <= Len(Done(c))
  <1>1. /\ UNCHANGED <<events, reader, c2s, s2c, broker, held>> /\ held[c] = <<>>
        /\ chan' = IF Alive THEN chan ELSE [chan EXCEPT ![c] = <<>>]
    BY DEF WriterStops, Disconnect, readerVars, brokerVars
  <1>2. \A d \in Client : Todo(d)' = Todo(d)
    BY <1>1, TodoKept
  <1>3. \A d \in Client : Kept(d)' = Kept(d)
    BY <1>1 DEF Kept
  <1>4. \A d \in Client : d # c => Done(d)' = Done(d)
    BY <1>1, <1>3, DoneKept DEF TypeOK
  <1>5. Alive => Done(c)' = Done(c)
    BY <1>1, <1>3, DoneKept
  <1>6. ASSUME ~Alive
        PROVE  /\ \E n \in 0 .. Len(Done(c)) : Done(c)' = SubSeq(Done(c), 1, n)
               /\ Len(Done(c)') <= Len(Done(c))
    <2> DEFINE s == s2c[c]
               q == chan[c]
    <2>1. s \in Seq(Reply) /\ q \in Seq(Reply)
      BY PartsType
    <2>2. Kept(c) = <<>> /\ chan'[c] = <<>>
      BY <1>1, <1>6 DEF Kept, Alive, TypeOK
    <2>3. Done(c) = Chain(s, <<>>, q, <<>>) /\ Done(c)' = Chain(s, <<>>, <<>>, <<>>)
      BY <1>1, <1>3, <2>2, DoneIs
    <2> HIDE DEF s, q
    <2>4. /\ Chain(s, <<>>, <<>>, <<>>) = SubSeq(Chain(s, <<>>, q, <<>>), 1, Len(s))
          /\ Len(s) \in 0 .. Len(Chain(s, <<>>, q, <<>>))
          /\ Len(Chain(s, <<>>, <<>>, <<>>)) <= Len(Chain(s, <<>>, q, <<>>))
      BY <2>1, ChainCut
    <2> QED BY <2>3, <2>4, Zenon
  <1> QED BY <1>2, <1>4, <1>5, <1>6 DEF Same

LEMMA PopMoves ==
  ASSUME TypeOK, BacklogBounded, events # <<>>, PopEvent, UNCHANGED c2s,
         NEW c \in Client, NEW x \in Asked, c = Head(events).peer, x = Head(events).req
  PROVE  /\ Todo(c) # <<>> /\ Head(Todo(c)) = x /\ Todo(c)' = Tail(Todo(c))
         /\ \A d \in Client : d # c => Todo(d)' = Todo(d)
  <1>1. events' = Tail(events) /\ events \in Seq(Event) /\ events' \in Seq(Event)
    BY PopEventType DEF PopEvent, TypeOK
  <1>2. \A d \in Client : reader'[d] = "hello" <=> reader[d] = "hello"
    BY PopFacts
  <1>3. \A d \in Client : d # c => RequestsOf(d, events') = RequestsOf(d, events)
    BY <1>1, RequestsOfTail
  <1>4. \A d \in Client : d # c => Todo(d)' = Todo(d)
    BY <1>2, <1>3, TodoKept
  <1> DEFINE r == RequestsOf(c, events')
             g == Greeting(c)
             a == c2s[c]
  <1>5. r \in Seq(Asked) /\ g \in Seq(Asked) /\ a \in Seq(Asked)
    BY <1>1, PartsType, RequestsOfType
  <1>6. RequestsOf(c, events) = Push(x, r)
    BY <1>1, RequestsOfTail DEF Push
  <1>7. Todo(c) = Line(Push(x, r), g, a)
    BY <1>6, TodoIs
  <1>8. Todo(c)' = Line(r, g, a)
    <2>1. Greeting(c)' = Greeting(c)
      BY <1>2 DEF Greeting
    <2> QED BY <2>1, TodoIs
  <1> HIDE DEF r, g, a
  <1>9. Pops(Line(Push(x, r), g, a), x, Line(r, g, a))
    BY <1>5, LinePop
  <1>10. Todo(c) # <<>> /\ Head(Todo(c)) = x /\ Todo(c)' = Tail(Todo(c))
    BY <1>7, <1>8, <1>9, Zenon DEF Pops
  <1> QED BY <1>4, <1>10

\* The broker takes a reply x to c into its hands, or sends it at once.
LEMMA ReplyMoves ==
  ASSUME TypeOK, broker.at # "story", UNCHANGED <<s2c, held>>,
         NEW c \in Client, NEW x \in Reply,
         \/ /\ chan' = [chan EXCEPT ![c] = Append(@, x)]
            /\ broker'.at # "story"
         \/ /\ UNCHANGED chan
            /\ broker'.at = "story" /\ broker'.peer = c /\ broker'.reply = x
  PROVE  /\ Done(c)' = Append(Done(c), x)
         /\ \A d \in Client : d # c => Done(d)' = Done(d)
  <1>1. \A d \in Client : Kept(d) = <<>> /\ (d # c => Kept(d)' = <<>>)
    BY DEF Kept
  <1>2. \A d \in Client : d # c => chan'[d] = chan[d]
    BY DEF TypeOK
  <1>3. \A d \in Client : d # c => Done(d)' = Done(d)
    BY <1>1, <1>2, DoneKept
  <1> DEFINE s == s2c[c]
             h == held[c]
             q == chan[c]
  <1>4. s \in Seq(Reply) /\ h \in Seq(Reply) /\ q \in Seq(Reply)
    BY PartsType
  <1>5. Done(c) = Chain(s, h, q, <<>>)
    BY <1>1, DoneIs
  <1>6. \/ Done(c)' = Chain(s, h, Append(q, x), <<>>)
        \/ Done(c)' = Chain(s, h, q, <<x>>)
    <2>1. \/ chan'[c] = Append(q, x) /\ Kept(c)' = <<>>
          \/ chan'[c] = q /\ Kept(c)' = <<x>>
      BY DEF Kept, TypeOK
    <2> QED BY <2>1, DoneIs
  <1> HIDE DEF s, h, q
  <1>7. /\ Chain(s, h, Append(q, x), <<>>) = Append(Chain(s, h, q, <<>>), x)
        /\ Chain(s, h, q, <<x>>) = Append(Chain(s, h, q, <<>>), x)
    BY <1>4, ChainGrows
  <1>8. Done(c)' = Append(Done(c), x)
    BY <1>5, <1>6, <1>7, Zenon
  <1> QED BY <1>3, <1>8

\* The broker sends a reply y instead of the one in its hands.
LEMMA StoryMoves ==
  ASSUME TypeOK, broker.at = "story", UNCHANGED <<s2c, held, events, reader, c2s>>,
         NEW c \in Client, c = broker.peer, NEW y \in Reply, NEW w, SendReply(c, y, w)
  PROVE  /\ \A d \in Client : Todo(d)' = Todo(d)
         /\ \A d \in Client : d # c => Same(d)
         /\ Len(Done(c)') = Len(Done(c))
         /\ y = broker.reply => Same(c)
  <1> DEFINE x == broker.reply
  <1>1. x \in Reply
    BY DEF TypeOK, BrokerState
  <1>2. chan' = [chan EXCEPT ![c] = Append(@, y)] /\ broker'.at # "story"
    BY DEF SendReply
  <1>3. \A d \in Client : Todo(d)' = Todo(d)
    BY TodoKept
  <1>4. /\ Kept(c) = <<x>> /\ Kept(c)' = <<>>
        /\ \A d \in Client : d # c => Kept(d)' = Kept(d)
    BY <1>2 DEF Kept
  <1> HIDE DEF x
  <1>5. \A d \in Client : d # c => Done(d)' = Done(d)
    BY <1>2, <1>4, DoneKept DEF TypeOK
  <1> DEFINE s == s2c[c]
             h == held[c]
             q == chan[c]
  <1>6. s \in Seq(Reply) /\ h \in Seq(Reply) /\ q \in Seq(Reply)
    BY <1>1, PartsType
  <1>7. Done(c) = Chain(s, h, q, <<x>>)
    BY <1>4, DoneIs
  <1>8. Done(c)' = Chain(s, h, Append(q, y), <<>>)
    <2>1. chan'[c] = Append(q, y)
      BY <1>1, <1>2 DEF TypeOK
    <2> QED BY <1>4, <2>1, DoneIs
  <1> HIDE DEF s, h, q
  <1>9. Len(Chain(s, h, Append(q, y), <<>>)) = Len(Chain(s, h, q, <<x>>))
    BY <1>1, <1>6, ChainReplaced
  <1>10. /\ Chain(s, h, Append(q, x), <<>>) = Append(Chain(s, h, q, <<>>), x)
         /\ Chain(s, h, q, <<x>>) = Append(Chain(s, h, q, <<>>), x)
    BY <1>1, <1>6, ChainGrows
  <1>11. Len(Done(c)') = Len(Done(c)) /\ (y = x => Done(c)' = Done(c))
    BY <1>7, <1>8, <1>9, <1>10, Zenon
  <1> QED BY <1>3, <1>5, <1>11 DEF Same, x

\* A finished writer's channel goes with its receiver.
LEMMA ReapMoves ==
  ASSUME TypeOK, NEW c \in Client, chan' = [chan EXCEPT ![c] = <<>>],
         UNCHANGED <<events, reader, c2s, s2c, held, broker>>
  PROVE  /\ \A d \in Client : Todo(d)' = Todo(d)
         /\ \A d \in Client : d # c => Same(d)
         /\ Len(Done(c)') <= Len(Done(c))
  <1>1. \A d \in Client : Todo(d)' = Todo(d)
    BY TodoKept
  <1>2. \A d \in Client : Kept(d)' = Kept(d)
    BY DEF Kept
  <1>3. \A d \in Client : d # c => Done(d)' = Done(d)
    BY <1>2, DoneKept DEF TypeOK
  <1> DEFINE s == s2c[c]
             h == held[c]
             q == chan[c]
             k == Kept(c)
  <1>4. s \in Seq(Reply) /\ h \in Seq(Reply) /\ q \in Seq(Reply) /\ k \in Seq(Reply)
    BY PartsType
  <1>5. Done(c) = Chain(s, h, q, k)
    BY DoneIs
  <1>6. Done(c)' = Chain(s, h, <<>>, k)
    <2>1. chan'[c] = <<>>
      BY DEF TypeOK
    <2> QED BY <1>2, <2>1, DoneIs
  <1> HIDE DEF s, h, q, k
  <1>7. Len(Chain(s, h, <<>>, k)) <= Len(Chain(s, h, q, k))
    BY <1>4, ChainShrinks
  <1>8. Len(Done(c)') <= Len(Done(c))
    BY <1>5, <1>6, <1>7, Zenon
  <1> QED BY <1>1, <1>3, <1>8 DEF Same

\* The broker dies: its channel is lost, and those of the writers that have ended.
LEMMA BrokerDiesMoves ==
  ASSUME TypeOK, broker.at # "story", NEW how \in Dead, BrokerDies(how), NEW c \in Client
  PROVE  /\ Len(Todo(c)') <= Len(Todo(c))
         /\ Len(Done(c)') <= Len(Done(c))
         /\ writer[c] # "done" => Done(c)' = Done(c)
  <1>1. /\ events' = <<>> /\ UNCHANGED <<c2s, s2c, held>>
        /\ broker'.at # "story"
        /\ reader'[c] = "hello" <=> reader[c] = "hello"
        /\ chan'[c] = IF writer[c] = "done" THEN <<>> ELSE chan[c]
    BY DEF BrokerDies, writerVars, Idle
  <1>2. Len(Todo(c)') <= Len(Todo(c))
    <2> DEFINE r == RequestsOf(c, events)
               g == Greeting(c)
               a == c2s[c]
    <2>1. r \in Seq(Asked) /\ g \in Seq(Asked) /\ a \in Seq(Asked)
      BY PartsType
    <2>2. Todo(c) = Line(r, g, a)
      BY TodoIs
    <2>3. Todo(c)' = Line(<<>>, g, a)
      <3>1. Greeting(c)' = g /\ RequestsOf(c, events') = <<>>
        BY <1>1, RequestsOfNone DEF Greeting
      <3> QED BY <1>1, <3>1, TodoIs
    <2> HIDE DEF r, g, a
    <2>4. Len(Line(<<>>, g, a)) <= Len(Line(r, g, a))
      BY <2>1, LineShrinks
    <2> QED BY <2>2, <2>3, <2>4, Zenon
  <1>3. Kept(c) = <<>> /\ Kept(c)' = <<>>
    BY <1>1 DEF Kept
  <1>4. writer[c] # "done" => Done(c)' = Done(c)
    BY <1>1, <1>3, DoneKept
  <1> DEFINE s == s2c[c]
             h == held[c]
             q == chan[c]
             k == Kept(c)
  <1>5. s \in Seq(Reply) /\ h \in Seq(Reply) /\ q \in Seq(Reply) /\ k \in Seq(Reply)
    BY PartsType
  <1>6. Done(c) = Chain(s, h, q, k)
    BY DoneIs
  <1>7. Done(c)' = Chain(s, h, q, k) \/ Done(c)' = Chain(s, h, <<>>, k)
    BY <1>1, <1>3, DoneIs
  <1> HIDE DEF s, h, q, k
  <1>8. /\ Len(Chain(s, h, <<>>, k)) <= Len(Chain(s, h, q, k))
        /\ Len(Chain(s, h, q, k)) <= Len(Chain(s, h, q, k))
    BY <1>5, ChainShrinks, ChainType
  <1>9. Len(Done(c)') <= Len(Done(c))
    BY <1>6, <1>7, <1>8, Zenon
  <1> QED BY <1>2, <1>4, <1>9

-----------------------------------------------------------------------------
(***************************************************************************)
(* What is on its way.  OneReplyPerRequest is not inductive: it says       *)
(* nothing of a client that is not connected, whose first request is then  *)
(* the only one only if nothing was on its way before, nor of one that has *)
(* left, whose replies still fill the channel the broker sends them to.    *)
(***************************************************************************)
CountedAt(c) ==
  /\ peer[c] = "out" => InFlight(c) = 0
  /\ Alive => InFlight(c) <= Window
  /\ Alive /\ peer[c] = "up" => owed[c] = InFlight(c)

Counted == \A c \in Client : CountedAt(c)

LEMMA InitCounted == Init => Counted
  <1> SUFFICES ASSUME Init, NEW c \in Client PROVE CountedAt(c)
    BY DEF Counted
  <1>1. Todo(c) = Line(<<>>, <<>>, <<>>)
    BY RequestsOfNone, TodoIs DEF Init, Greeting
  <1>2. Done(c) = Chain(<<>>, <<>>, <<>>, <<>>)
    BY DoneIs DEF Init, Kept, Loading, Idle
  <1>3. Line(<<>>, <<>>, <<>>) = <<>> /\ Chain(<<>>, <<>>, <<>>, <<>>) = <<>>
    BY DEF Line, Chain
  <1>4. InFlight(c) = 0
    BY <1>1, <1>2, <1>3 DEF InFlight
  <1>5. peer[c] = "out"
    BY DEF Init
  <1> QED BY <1>4, <1>5, WindowAssumption DEF CountedAt

\* A client none of whose requests or replies is lost, but when it has left.
LEMMA CountedKept ==
  ASSUME TypeOK, TypeOK', NEW c \in Client, CountedAt(c), Alive' => Alive,
         peer'[c] = peer[c], owed'[c] = owed[c],
         peer[c] = "out" \/ Alive' =>
           Len(Todo(c)') <= Len(Todo(c)) /\ Len(Done(c)') <= Len(Done(c)),
         Alive' /\ peer[c] = "up" =>
           Len(Todo(c)') = Len(Todo(c)) /\ Len(Done(c)') = Len(Done(c))
  PROVE  CountedAt(c)'
  <1>1. /\ Todo(c) \in Seq(Asked) /\ Done(c) \in Seq(Reply)
        /\ Todo(c)' \in Seq(Asked) /\ Done(c)' \in Seq(Reply)
    BY TodoType, TodoTypeNext
  <1> DEFINE m == Len(Todo(c))
             n == Len(Done(c))
             mm == Len(Todo(c)')
             nn == Len(Done(c)')
  <1>2. m \in Nat /\ n \in Nat /\ mm \in Nat /\ nn \in Nat
    BY <1>1
  <1>3. InFlight(c) = m + n /\ InFlight(c)' = mm + nn
    BY DEF InFlight
  <1>4. /\ peer[c] = "out" \/ Alive' => mm <= m /\ nn <= n
        /\ Alive' /\ peer[c] = "up" => mm = m /\ nn = n
    OBVIOUS
  <1> HIDE DEF m, n, mm, nn
  <1>5. peer[c] = "out" => mm + nn = 0
    BY <1>2, <1>3, <1>4 DEF CountedAt
  <1>6. Alive' => mm + nn <= Window
    BY <1>2, <1>3, <1>4, WindowAssumption DEF CountedAt
  <1>7. Alive' /\ peer[c] = "up" => owed[c] = mm + nn
    BY <1>2, <1>3, <1>4 DEF CountedAt
  <1> QED BY <1>3, <1>5, <1>6, <1>7 DEF CountedAt

LEMMA SameCounted ==
  ASSUME TypeOK, TypeOK', NEW c \in Client, CountedAt(c), Alive' => Alive,
         peer'[c] = peer[c], owed'[c] = owed[c], Same(c)
  PROVE  CountedAt(c)'
  <1>1. Len(Todo(c)) <= Len(Todo(c)) /\ Len(Done(c)) <= Len(Done(c))
    BY TodoType
  <1> QED BY <1>1, CountedKept DEF Same

LEMMA ClientCounted ==
  ASSUME TypeOK, TypeOK', Counted, NEW c \in Client, ClientNext(c)
  PROVE  Counted'
  <1>1. Alive' <=> Alive
    BY DEF ClientNext, Connect, Ask, Receive, Leave, brokerVars, Alive
  <1>2. \A d \in Client : d # c => peer'[d] = peer[d] /\ owed'[d] = owed[d]
    <2>1. peer \in [Client -> {"out", "up", "gone"}] /\ owed \in [Client -> Int]
      BY DEF TypeOK
    <2>2. /\ peer' = peer \/ \E x : peer' = [peer EXCEPT ![c] = x]
          /\ owed' = owed \/ \E x : owed' = [owed EXCEPT ![c] = x]
      BY DEF ClientNext, Connect, Ask, Receive, Leave
    <2> QED BY <2>1, <2>2
  <1>3. CountedAt(c)
    BY DEF Counted
  <1>4. /\ Todo(c) \in Seq(Asked) /\ Done(c) \in Seq(Reply)
        /\ Todo(c)' \in Seq(Asked) /\ Done(c)' \in Seq(Reply)
    BY TodoType, TodoTypeNext
  <1>5. CASE Connect(c)
    <2>1. peer[c] = "out" /\ peer'[c] = "up" /\ owed'[c] = 1
      BY <1>5 DEF Connect, TypeOK
    <2>2. /\ Todo(c)' = <<NewClient>> /\ Done(c)' = <<>>
          /\ \A d \in Client : d # c => Same(d)
      BY <1>3, <1>5, <2>1, ConnectMoves DEF CountedAt
    <2>3. InFlight(c)' = 1
      BY <2>2 DEF InFlight
    <2>4. CountedAt(c)'
      BY <2>1, <2>3, WindowAssumption DEF CountedAt
    <2> QED BY <1>1, <1>2, <2>2, <2>4, SameCounted DEF Counted
  <1>6. ASSUME NEW r \in Requests, Ask(c, r)
        PROVE  Counted'
    <2>1. peer[c] = "up" /\ peer'[c] = "up" /\ owed[c] < Window /\ owed'[c] = owed[c] + 1
      BY <1>6 DEF Ask, TypeOK
    <2>2. /\ Todo(c)' = Append(Todo(c), r) /\ Done(c)' = Done(c)
          /\ \A d \in Client : d # c => Same(d)
      BY <1>6, AskMoves
    <2>3. InFlight(c)' = InFlight(c) + 1
      <3>1. Len(Todo(c)') = Len(Todo(c)) + 1
        BY <1>4, <2>2
      <3> QED BY <1>4, <2>2, <3>1 DEF InFlight
    <2>4. CountedAt(c)'
      <3>1. InFlight(c) \in Nat /\ owed[c] \in Int
        BY TodoType DEF TypeOK
      <3> QED BY <1>1, <1>3, <2>1, <2>3, <3>1, WindowAssumption DEF CountedAt
    <2> QED BY <1>1, <1>2, <2>2, <2>4, SameCounted DEF Counted
  <1>7. CASE Receive(c)
    <2>1. peer' = peer /\ owed'[c] = owed[c] - 1
      BY <1>7 DEF Receive, TypeOK
    <2>2. /\ Done(c) # <<>> /\ Done(c)' = Tail(Done(c)) /\ Todo(c)' = Todo(c)
          /\ \A d \in Client : d # c => Same(d)
      BY <1>7, ReceiveMoves
    <2>3. InFlight(c)' = InFlight(c) - 1 /\ InFlight(c) # 0
      <3>1. Len(Done(c)') = Len(Done(c)) - 1 /\ Len(Done(c)) > 0
        BY <1>4, <2>2
      <3> QED BY <1>4, <2>2, <3>1 DEF InFlight
    <2>4. CountedAt(c)'
      <3>1. InFlight(c) \in Nat /\ owed[c] \in Int
        BY TodoType DEF TypeOK
      <3> QED BY <1>1, <1>3, <2>1, <2>3, <3>1, WindowAssumption DEF CountedAt
    <2> QED BY <1>1, <1>2, <2>2, <2>4, SameCounted DEF Counted
  <1>8. CASE Leave(c)
    <2>1. peer[c] = "up" /\ peer'[c] = "gone"
      BY <1>8 DEF Leave, TypeOK
    <2>2. /\ Len(Done(c)') <= Len(Done(c)) /\ Todo(c)' = Todo(c)
          /\ \A d \in Client : d # c => Same(d)
      BY <1>8, LeaveMoves
    <2>3. InFlight(c)' <= InFlight(c)
      BY <1>4, <2>2 DEF InFlight
    <2>4. CountedAt(c)'
      <3>1. InFlight(c) \in Nat /\ InFlight(c)' \in Nat
        BY TodoType, TodoTypeNext
      <3> QED BY <1>1, <1>3, <2>1, <2>3, <3>1, WindowAssumption DEF CountedAt
    <2> QED BY <1>1, <1>2, <2>2, <2>4, SameCounted DEF Counted
  <1> QED BY <1>5, <1>6, <1>7, <1>8 DEF ClientNext

LEMMA ReaderCounted ==
  ASSUME TypeOK, TypeOK', Links, Counted, NEW c \in Client, ReaderNext(c)
  PROVE  Counted'
  <1>1. UNCHANGED <<peer, owed, broker>> /\ (Alive' <=> Alive)
    BY DEF ReaderNext, ReaderGreets, ReaderForwards, ReaderEnds, peerVars, brokerVars, Alive
  <1>2. \A d \in Client : Same(d) => CountedAt(d)'
    BY <1>1, SameCounted DEF Counted
  <1>3. peer[c] # "out"
    BY DEF ReaderNext, ReaderGreets, ReaderForwards, ReaderEnds, Links
  <1>4. CASE Alive /\ ~ReaderEnds(c)
    BY <1>2, <1>4, ReaderGreetsMoves, ReaderForwardsMoves DEF ReaderNext, Counted
  <1>5. CASE ~Alive /\ ~ReaderEnds(c)
    <2>1. CountedAt(c)'
      BY <1>1, <1>3, <1>5 DEF CountedAt
    <2> QED BY <1>2, <1>5, <2>1, ReaderOfDeadMoves DEF ReaderNext, Counted
  <1>6. CASE ReaderEnds(c)
    <2>1. peer[c] = "gone"
      BY <1>6 DEF ReaderEnds
    <2>2. /\ Len(Todo(c)') <= Len(Todo(c)) /\ Done(c)' = Done(c)
          /\ \A d \in Client : d # c => Same(d)
      BY <1>6, ReaderEndsMoves
    <2>3. Len(Done(c)') <= Len(Done(c))
      BY <2>2, TodoType
    <2>4. CountedAt(c)'
      BY <1>1, <2>1, <2>2, <2>3, CountedKept DEF Counted
    <2> QED BY <1>2, <2>2, <2>4 DEF Counted
  <1> QED BY <1>4, <1>5, <1>6

LEMMA WriterCounted ==
  ASSUME TypeOK, TypeOK', Links, Counted, NEW c \in Client, WriterNext(c)
  PROVE  Counted'
  <1>1. UNCHANGED <<peer, owed, broker>> /\ (Alive' <=> Alive)
    BY DEF WriterNext, WriterTakes, WriterWrites, WriterFails, WriterStops, peerVars,
           brokerVars, Alive
  <1>2. \A d \in Client : Same(d) => CountedAt(d)'
    BY <1>1, SameCounted DEF Counted
  <1>3. peer[c] # "out"
    BY DEF WriterNext, WriterTakes, WriterWrites, WriterFails, WriterStops, Links
  <1>4. ASSUME \A d \in Client : d # c => Same(d),
               Todo(c)' = Todo(c), Len(Done(c)') <= Len(Done(c)),
               peer[c] = "up" => Same(c) \/ ~Alive
        PROVE  Counted'
    <2>1. Len(Todo(c)') <= Len(Todo(c))
      BY <1>4, TodoType
    <2>2. CASE Same(c)
      BY <1>2, <1>4, <2>2 DEF Counted
    <2>3. CASE ~Same(c)
      <3>1. ~(Alive' /\ peer[c] = "up")
        BY <1>1, <1>4, <2>3
      <3>2. CountedAt(c)'
        BY <1>1, <1>4, <2>1, <3>1, CountedKept DEF Counted
      <3> QED BY <1>2, <1>4, <3>2 DEF Counted
    <2> QED BY <2>2, <2>3
  <1>5. CASE WriterTakes(c)
    BY <1>2, <1>5, WriterTakesMoves DEF Counted
  <1>6. CASE WriterWrites(c)
    BY <1>4, <1>6, WriterWritesMoves
  <1>7. CASE WriterFails(c)
    <2>1. peer[c] # "up"
      BY <1>7 DEF WriterFails
    <2> QED BY <1>4, <1>7, <2>1, WriterFailsMoves
  <1>8. CASE WriterStops(c)
    <2>1. CASE Alive
      BY <1>2, <1>8, <2>1, WriterStopsMoves DEF Counted
    <2>2. CASE ~Alive
      BY <1>4, <1>8, <2>2, WriterStopsMoves
    <2> QED BY <2>1, <2>2
  <1> QED BY <1>5, <1>6, <1>7, <1>8 DEF WriterNext

\* The broker handles the oldest request of a client, of which it then has the reply.
LEMMA ServeMoves ==
  ASSUME TypeOK, BacklogBounded, BrokerGreets \/ BrokerAnswers \/ BrokerAddsStory,
         NEW c, NEW x, c = Head(events).peer, x = Head(events).req
  PROVE  /\ c \in Client /\ x \in Asked /\ Alive /\ Alive' /\ UNCHANGED <<peer, owed>>
         /\ Pops(Todo(c), x, Todo(c)')
         /\ Done(c)' = Append(Done(c), Handle(db, x).reply)
         /\ Handle(db, x).reply \in Reply /\ db' = Handle(db, x).db
         /\ \A d \in Client : d # c => Same(d)
  <1>1. /\ events # <<>> /\ broker.at = "select" /\ PopEvent
        /\ UNCHANGED <<peer, owed, c2s, s2c, held>>
    BY DEF BrokerGreets, BrokerAnswers, BrokerAddsStory, TakesEvent, peerVars, writerVars
  <1>2. c \in Client /\ x \in Asked
    BY <1>1, HeadEventType DEF Asked
  <1> DEFINE reply == Handle(db, x).reply
  <1>3. /\ db' = Handle(db, x).db
        /\ \/ SendReply(c, reply, "none") \/ SendReply(c, reply, Handle(db, x).write)
           \/ /\ UNCHANGED chan
              /\ broker' = [at |-> "story", peer |-> c, reply |-> reply, write |-> "after"]
    <2>1. CASE BrokerGreets
      <3>1. x = NewClient /\ db' = db /\ SendReply(c, NewClientHandler(db).reply, "none")
        BY <2>1 DEF BrokerGreets, TakesEvent
      <3>2. Handle(db, NewClient) = NewClientHandler(db) /\ NewClientHandler(db).db = db
        BY DEF Handle, NewClient, NewClientHandler, Unchanged
      <3> QED BY <3>1, <3>2
    <2>2. CASE BrokerAnswers
      BY <2>2 DEF BrokerAnswers
    <2>3. CASE BrokerAddsStory
      BY <2>3 DEF BrokerAddsStory
    <2> QED BY <2>1, <2>2, <2>3
  <1>4. reply \in Reply
    <2>1. Handle(db, x) \in Outcome
      BY <1>2, HandleType DEF TypeOK, Asked
    <2> QED BY <2>1 DEF Outcome
  <1> HIDE DEF reply
  <1>5. \/ /\ chan' = [chan EXCEPT ![c] = Append(@, reply)]
           /\ broker'.at = "flush"
        \/ /\ UNCHANGED chan
           /\ broker'.at = "story" /\ broker'.peer = c /\ broker'.reply = reply
    BY <1>3 DEF SendReply
  <1>6. Alive /\ Alive'
    BY <1>1, <1>5 DEF Alive
  <1>7. /\ Done(c)' = Append(Done(c), reply)
        /\ \A d \in Client : d # c => Done(d)' = Done(d)
    BY <1>1, <1>2, <1>4, <1>5, ReplyMoves
  <1>8. /\ Todo(c) # <<>> /\ Head(Todo(c)) = x /\ Todo(c)' = Tail(Todo(c))
        /\ \A d \in Client : d # c => Todo(d)' = Todo(d)
    BY <1>1, <1>2, PopMoves
  <1> QED BY <1>1, <1>2, <1>3, <1>4, <1>6, <1>7, <1>8 DEF Same, Pops, reply

LEMMA BrokerDiesCounted ==
  ASSUME TypeOK, TypeOK', Counted, broker.at \in {"load", "select", "write"},
         NEW how \in Dead, BrokerDies(how)
  PROVE  Counted'
  <1>1. Alive /\ ~Alive' /\ UNCHANGED <<peer, owed>>
    BY DEF BrokerDies, Idle, Alive, peerVars
  <1>2. ASSUME NEW c \in Client PROVE CountedAt(c)'
    <2>1. Len(Todo(c)') <= Len(Todo(c)) /\ Len(Done(c)') <= Len(Done(c))
      BY BrokerDiesMoves
    <2> QED BY <1>1, <2>1, CountedKept DEF Counted
  <1> QED BY <1>2 DEF Counted

LEMMA BrokerTakesCounted ==
  ASSUME TypeOK, TypeOK', BacklogBounded, Counted, BrokerTakes
  PROVE  Counted'
  <1>1. CASE BrokerPanics
    BY <1>1, BrokerDiesCounted DEF BrokerPanics, TakesEvent
  <1>2. CASE BrokerGreets \/ BrokerAnswers \/ BrokerAddsStory
    <2>1. PICK c, x : c = Head(events).peer /\ x = Head(events).req
      OBVIOUS
    <2>2. /\ c \in Client /\ Alive /\ Alive' /\ UNCHANGED <<peer, owed>>
          /\ Pops(Todo(c), x, Todo(c)')
          /\ Done(c)' = Append(Done(c), Handle(db, x).reply)
          /\ \A d \in Client : d # c => Same(d)
      BY <1>2, <2>1, ServeMoves
    <2>3. /\ Todo(c) \in Seq(Asked) /\ Done(c) \in Seq(Reply)
      BY <2>2, TodoType
    <2>4. InFlight(c)' = InFlight(c)
      <3>1. Len(Todo(c)') = Len(Todo(c)) - 1
        BY <2>2, <2>3 DEF Pops
      <3>2. Len(Done(c)') = Len(Done(c)) + 1
        BY <2>2, <2>3
      <3>3. Len(Todo(c)) \in Nat /\ Len(Done(c)) \in Nat
        BY <2>3
      <3> QED BY <3>1, <3>2, <3>3 DEF InFlight
    <2>5. CountedAt(c)'
      BY <2>2, <2>4 DEF Counted, CountedAt
    <2> QED BY <2>2, <2>5, SameCounted DEF Counted
  <1> QED BY <1>1, <1>2 DEF BrokerTakes

\* What the broker's awaits leave as it was: all but a failed story's reply.
LEMMA AwaitsMoves ==
  ASSUME TypeOK, Links, Served,
         Loaded \/ StoryWritten \/ StoryWriteFails \/ ReplySent \/ Written
  PROVE  /\ Alive /\ Alive' /\ UNCHANGED <<peer, owed, db>>
         /\ \A d \in Client : Todo(d)' = Todo(d) /\ Len(Done(d)') = Len(Done(d))
         /\ \A d \in Client : Same(d) \/ StoryWriteFails
  <1>1. UNCHANGED <<peer, owed, db, events, reader, c2s, s2c, held>>
    BY HasReceiver DEF Loaded, StoryWritten, StoryWriteFails, ReplySent, Written,
                       peerVars, readerVars, writerVars
  <1>2. /\ broker.at \in {"load", "story", "flush", "write"}
        /\ broker'.at \in {"select", "flush", "write"}
    <2>1. CASE StoryWritten \/ StoryWriteFails
      BY <2>1 DEF StoryWritten, StoryWriteFails, SendReply
    <2>2. CASE ReplySent
      <3>1. broker.at = "flush" /\ [broker EXCEPT !.at = "write"].at = "write"
        BY <2>2, FlushFacts DEF ReplySent
      <3>2. broker' = Idle \/ broker' = [broker EXCEPT !.at = "write"]
        BY <2>2, <3>1, HasReceiver DEF ReplySent
      <3>3. CASE broker' = Idle
        BY <3>1, <3>3 DEF Idle
      <3> QED BY <3>1, <3>2, <3>3
    <2>3. CASE Loaded \/ Written
      BY <2>3 DEF Loaded, Written, Idle
    <2> QED BY <2>1, <2>2, <2>3
  <1>3. Alive /\ Alive'
    BY <1>2 DEF Alive
  <1>4. CASE StoryWritten \/ StoryWriteFails
    <2>1. PICK c : c = broker.peer
      OBVIOUS
    <2>2. /\ c \in Client /\ broker.at = "story"
          /\ broker.reply \in Reply /\ broker.reply.epic \in Id
      BY <1>4, <2>1 DEF StoryWritten, StoryWriteFails, TypeOK, BrokerState, Reply
    <2>3. CASE StoryWritten
      <3>1. SendReply(c, broker.reply, broker.write)
        BY <2>1, <2>3 DEF StoryWritten
      <3> QED BY <1>1, <1>3, <2>1, <2>2, <3>1, StoryMoves DEF Same
    <2>4. CASE StoryWriteFails
      <3> DEFINE y == EpicDoesNotExist(db, broker.reply.epic)
      <3>1. y \in Reply
        BY <2>2, MissingReplyType DEF TypeOK
      <3>2. SendReply(c, y, "none")
        BY <2>1, <2>4 DEF StoryWriteFails
      <3> HIDE DEF y
      <3> QED BY <1>1, <1>3, <2>1, <2>2, <2>4, <3>1, <3>2, StoryMoves DEF Same
    <2> QED BY <1>4, <2>3, <2>4
  <1>5. CASE Loaded \/ ReplySent \/ Written
    <2>1. UNCHANGED chan /\ broker.at # "story" /\ broker'.at # "story"
      BY <1>2, <1>5, HasReceiver DEF Loaded, ReplySent, Written
    <2>2. \A d \in Client : Kept(d) = <<>> /\ Kept(d)' = <<>>
      BY <2>1 DEF Kept
    <2>3. \A d \in Client : Same(d)
      BY <1>1, <2>1, <2>2, TodoKept, DoneKept DEF Same
    <2> QED BY <1>1, <1>3, <2>3 DEF Same
  <1> QED BY <1>4, <1>5

LEMMA BrokerAwaitsCounted ==
  ASSUME TypeOK, TypeOK', Links, Served, Counted, BrokerAwaits
  PROVE  Counted'
  <1>1. CASE WriteFails \/ LoadFails
    BY <1>1, BrokerDiesCounted DEF WriteFails, LoadFails
  <1>2. CASE Loaded \/ StoryWritten \/ StoryWriteFails \/ ReplySent \/ Written
    <2> SUFFICES ASSUME NEW c \in Client PROVE CountedAt(c)'
      BY DEF Counted
    <2>1. /\ Alive /\ UNCHANGED <<peer, owed>>
          /\ Todo(c)' = Todo(c) /\ Len(Done(c)') = Len(Done(c))
      BY <1>2, AwaitsMoves
    <2>2. Len(Todo(c)') <= Len(Todo(c)) /\ Len(Done(c)') <= Len(Done(c))
      BY <2>1, TodoType
    <2> QED BY <2>1, <2>2, CountedKept DEF Counted
  <1> QED BY <1>1, <1>2 DEF BrokerAwaits

LEMMA ReapedHasLeft ==
  ASSUME TypeOK, Links, Known, BrokerReaps, NEW c, c = Head(disconnects)
  PROVE  /\ c \in Client /\ c \in clients /\ peer[c] = "gone" /\ Alive
         /\ chan' = [chan EXCEPT ![c] = <<>>]
         /\ UNCHANGED <<peer, owed, c2s, s2c, reader, events, broker, db, held>>
  <1>1. broker.at = "select" /\ disconnects # <<>> /\ Alive
    BY DEF BrokerReaps, Alive
  <1>2. c \in Client /\ c \in Range(disconnects)
    BY <1>1, SeqFacts, RangeTail DEF TypeOK
  <1>3. 1 \in DOMAIN disconnects /\ c = disconnects[1]
    BY <1>1, TailFacts DEF TypeOK
  <1>4. writer[c] = "done"
    BY <1>3 DEF Links
  <1>5. c \in clients /\ peer[c] = "gone"
    BY <1>1, <1>2, <1>4 DEF Links, ClientsMatchWriters, Known
  <1> QED BY <1>1, <1>2, <1>5 DEF BrokerReaps, peerVars, readerVars, writerVars

LEMMA BrokerReapsCounted ==
  ASSUME TypeOK, TypeOK', Links, Known, Counted, BrokerReaps
  PROVE  Counted'
  <1>1. PICK c : c = Head(disconnects)
    OBVIOUS
  <1>2. /\ c \in Client /\ peer[c] = "gone" /\ Alive /\ chan' = [chan EXCEPT ![c] = <<>>]
        /\ UNCHANGED <<peer, owed, c2s, s2c, reader, events, broker, held>>
    BY <1>1, ReapedHasLeft
  <1>3. /\ Todo(c)' = Todo(c) /\ Len(Done(c)') <= Len(Done(c))
        /\ \A d \in Client : d # c => Same(d)
    BY <1>2, ReapMoves
  <1>4. Len(Todo(c)') <= Len(Todo(c))
    BY <1>2, <1>3, TodoType
  <1>5. CountedAt(c)'
    BY <1>2, <1>3, <1>4, CountedKept DEF Counted, Alive
  <1> QED BY <1>2, <1>3, <1>5, SameCounted DEF Counted, Alive

LEMMA NothingMoves ==
  ASSUME UNCHANGED vars, NEW d
  PROVE  Same(d)
  BY TodoKept, DoneKept DEF Same, Kept, vars, readerVars, brokerVars, writerVars

LEMMA CountedStep == Inv /\ Counted /\ [Next]_vars => Counted'
  <1> SUFFICES ASSUME TypeOK, Links, Served, BacklogBounded, Known, Counted, [Next]_vars
               PROVE  Counted'
    BY DEF Inv
  <1>1. TypeOK'
    BY TypeStep
  <1>2. CASE BrokerNext
    BY <1>1, <1>2, BrokerTakesCounted, BrokerAwaitsCounted, BrokerReapsCounted DEF BrokerNext
  <1>3. CASE \E c \in Client : ClientNext(c) \/ ReaderNext(c) \/ WriterNext(c)
    BY <1>1, <1>3, ClientCounted, ReaderCounted, WriterCounted
  <1>4. CASE UNCHANGED vars
    <2>1. UNCHANGED <<peer, owed, broker>>
      BY <1>4 DEF vars, peerVars, brokerVars
    <2> QED BY <1>1, <1>4, <2>1, NothingMoves, SameCounted DEF Counted, Alive
  <1> QED BY <1>2, <1>3, <1>4 DEF Next

LEMMA CountedHolds == Spec => [](Inv /\ Counted)
  <1>1. Inv /\ Counted /\ [Next]_vars => (Inv /\ Counted)'
    BY InvStep, CountedStep
  <1> QED BY <1>1, InvInit, InitCounted, PTL DEF Spec

\* Every request of a connected client gets exactly one reply: none is lost,
\* duplicated or made up between the client and the broker.
THEOREM AlwaysOneReplyPerRequest == Spec => []OneReplyPerRequest
  <1>1. Counted => OneReplyPerRequest
    BY DEF Counted, CountedAt, OneReplyPerRequest
  <1> QED BY <1>1, CountedHolds, PTL

\* A client that does not read its replies never holds up the broker, if the
\* channels have room for what it may wait for.
THEOREM BrokerNeverHeldUp == Spec => []NeverHeldUp
  <1>1. Inv /\ Counted => NeverHeldUp
    <2> SUFFICES ASSUME TypeOK, Counted, Window <= ChanBuf, broker.at = "flush"
                 PROVE  Len(chan[broker.peer]) <= ChanBuf
      BY DEF Inv, NeverHeldUp
    <2>1. PICK p : p = broker.peer
      OBVIOUS
    <2>2. p \in Client
      BY <2>1 DEF TypeOK, BrokerState
    <2> DEFINE s == s2c[p]
               h == held[p]
               q == chan[p]
               k == Kept(p)
    <2>3. s \in Seq(Reply) /\ h \in Seq(Reply) /\ q \in Seq(Reply) /\ k \in Seq(Reply)
      BY <2>2, PartsType
    <2>4. Done(p) = Chain(s, h, q, k)
      BY DoneIs
    <2>5. InFlight(p) <= Window
      BY <2>2 DEF Counted, CountedAt, Alive
    <2>6. Todo(p) \in Seq(Asked)
      BY <2>2, TodoType
    <2> HIDE DEF s, h, q, k
    <2>7. Len(Done(p)) = Len(s) + Len(h) + Len(q) + Len(k)
      BY <2>3, <2>4, ChainType
    <2>8. /\ Len(s) \in Nat /\ Len(h) \in Nat /\ Len(q) \in Nat /\ Len(k) \in Nat
          /\ Len(Todo(p)) \in Nat
      BY <2>3, <2>6
    <2>9. Len(q) <= ChanBuf
      BY <2>5, <2>7, <2>8, ChanBufAssumption, WindowAssumption DEF InFlight
    <2> QED BY <2>1, <2>9 DEF q
  <1> QED BY <1>1, CountedHolds, PTL

-----------------------------------------------------------------------------
(***************************************************************************)
(* The server implements JiraService.  Both read the same Database.        *)
(***************************************************************************)
LEMMA SameHelpers ==
  /\ Service!Id = Id /\ Service!NoEntries = NoEntries /\ Service!EmptyDb = EmptyDb
  /\ Service!NewClient = NewClient
  /\ \A d, e : Service!HasEpic(d, e) = HasEpic(d, e)
  /\ \A d, e, s : Service!HasStory(d, e, s) = HasStory(d, e, s)
  /\ \A d : Service!HomeView(d) = HomeView(d)
  /\ \A d : Service!NextId(d) = NextId(d)
  <1>1. Service!Id = Id
    BY DEF Service!Id, Id
  <1>2. Service!NoEntries = NoEntries
    BY <1>1 DEF Service!NoEntries, NoEntries
  <1>3. Service!EmptyDb = EmptyDb
    BY <1>2 DEF Service!EmptyDb, EmptyDb
  <1>4. Service!NewClient = NewClient
    BY DEF Service!NewClient, NewClient
  <1>5. \A d, e : Service!HasEpic(d, e) = HasEpic(d, e)
    BY Zenon DEF Service!HasEpic, HasEpic
  <1>6. \A d, e, s : Service!HasStory(d, e, s) = HasStory(d, e, s)
    BY <1>5, Zenon DEF Service!HasStory, HasStory
  <1>7. \A d : Service!HomeView(d) = HomeView(d)
    BY <1>1, <1>5, Zenon DEF Service!HomeView, HomeView
  <1>8. \A d : Service!NextId(d) = NextId(d)
    BY DEF Service!NextId, NextId
  <1> QED BY <1>1, <1>2, <1>3, <1>4, <1>5, <1>6, <1>7, <1>8

LEMMA SameMethods ==
  /\ \A d : Service!AddEpic(d) = AddEpic(d)
  /\ \A d : Service!TakeId(d) = TakeId(d)
  /\ \A d, e : Service!DeleteEpic(d, e) = DeleteEpic(d, e)
  /\ \A d, e, st : Service!SetEpicStatus(d, e, st) = SetEpicStatus(d, e, st)
  /\ \A d, e : Service!AddStory(d, e) = AddStory(d, e)
  /\ \A d, e, s : Service!DeleteStory(d, e, s) = DeleteStory(d, e, s)
  /\ \A d, e, s, st : Service!SetStoryStatus(d, e, s, st) = SetStoryStatus(d, e, s, st)
  <1> USE DEF Service!Id, Id, Service!NextId, NextId, Service!NoEntries, NoEntries
  <1>1. \A d : Service!AddEpic(d) = AddEpic(d)
    BY Zenon DEF Service!AddEpic, AddEpic
  <1>2. \A d : Service!TakeId(d) = TakeId(d)
    BY Zenon DEF Service!TakeId, TakeId
  <1>3. \A d, e : Service!DeleteEpic(d, e) = DeleteEpic(d, e)
    BY Zenon DEF Service!DeleteEpic, DeleteEpic
  <1>4. \A d, e, st : Service!SetEpicStatus(d, e, st) = SetEpicStatus(d, e, st)
    BY Zenon DEF Service!SetEpicStatus, SetEpicStatus
  <1>5. \A d, e : Service!AddStory(d, e) = AddStory(d, e)
    BY Zenon DEF Service!AddStory, AddStory, Service!TakeId, TakeId
  <1>6. \A d, e, s : Service!DeleteStory(d, e, s) = DeleteStory(d, e, s)
    BY Zenon DEF Service!DeleteStory, DeleteStory
  <1>7. \A d, e, s, st : Service!SetStoryStatus(d, e, s, st) = SetStoryStatus(d, e, s, st)
    BY Zenon DEF Service!SetStoryStatus, SetStoryStatus
  <1> QED BY <1>1, <1>2, <1>3, <1>4, <1>5, <1>6, <1>7

LEMMA SameHandlers ==
  /\ \A d : Service!NewClientHandler(d) = NewClientHandler(d)
  /\ \A d : Service!UnparseableHandler(d) = UnparseableHandler(d)
  /\ \A d : Service!AddEpicHandler(d) = AddEpicHandler(d)
  /\ \A d, e : Service!DeleteEpicHandler(d, e) = DeleteEpicHandler(d, e)
  /\ \A d, e : Service!GetEpicHandler(d, e) = GetEpicHandler(d, e)
  /\ \A d, e, st :
       Service!UpdateEpicStatusHandler(d, e, st) = UpdateEpicStatusHandler(d, e, st)
  /\ \A d, e, s : Service!GetStoryHandler(d, e, s) = GetStoryHandler(d, e, s)
  /\ \A d, e : Service!AddStoryHandler(d, e) = AddStoryHandler(d, e)
  /\ \A d, e, s : Service!DeleteStoryHandler(d, e, s) = DeleteStoryHandler(d, e, s)
  /\ \A d, e, s, st :
       Service!UpdateStoryStatusHandler(d, e, s, st) = UpdateStoryStatusHandler(d, e, s, st)
  <1>1. /\ \A d, reply : Service!Unchanged(d, reply) = Unchanged(d, reply)
        /\ \A d, reply : Service!Changed(d, reply) = Changed(d, reply)
        /\ \A d, e : Service!EpicDoesNotExist(d, e) = EpicDoesNotExist(d, e)
        /\ \A d, e, s : Service!StoryDoesNotExist(d, e, s) = StoryDoesNotExist(d, e, s)
    BY SameHelpers DEF Service!Unchanged, Unchanged, Service!Changed, Changed,
                       Service!EpicDoesNotExist, EpicDoesNotExist,
                       Service!StoryDoesNotExist, StoryDoesNotExist
  <1>2. /\ \A d : Service!NewClientHandler(d) = NewClientHandler(d)
        /\ \A d : Service!UnparseableHandler(d) = UnparseableHandler(d)
    BY <1>1, SameHelpers DEF Service!NewClientHandler, NewClientHandler,
                             Service!UnparseableHandler, UnparseableHandler
  <1>3. \A d : Service!AddEpicHandler(d) = AddEpicHandler(d)
    BY <1>1, SameHelpers, SameMethods DEF Service!AddEpicHandler, AddEpicHandler
  <1>4. \A d, e : Service!DeleteEpicHandler(d, e) = DeleteEpicHandler(d, e)
    BY <1>1, SameHelpers, SameMethods DEF Service!DeleteEpicHandler, DeleteEpicHandler
  <1>5. \A d, e : Service!GetEpicHandler(d, e) = GetEpicHandler(d, e)
    BY <1>1, SameHelpers DEF Service!GetEpicHandler, GetEpicHandler
  <1>6. \A d, e, st :
          Service!UpdateEpicStatusHandler(d, e, st) = UpdateEpicStatusHandler(d, e, st)
    BY <1>1, SameHelpers, SameMethods
       DEF Service!UpdateEpicStatusHandler, UpdateEpicStatusHandler
  <1>7. \A d, e, s : Service!GetStoryHandler(d, e, s) = GetStoryHandler(d, e, s)
    BY <1>1, SameHelpers DEF Service!GetStoryHandler, GetStoryHandler
  <1>8. \A d, e : Service!AddStoryHandler(d, e) = AddStoryHandler(d, e)
    BY <1>1, SameHelpers, SameMethods DEF Service!AddStoryHandler, AddStoryHandler
  <1>9. \A d, e, s : Service!DeleteStoryHandler(d, e, s) = DeleteStoryHandler(d, e, s)
    BY <1>1, SameHelpers, SameMethods DEF Service!DeleteStoryHandler, DeleteStoryHandler
  <1>10. \A d, e, s, st :
           Service!UpdateStoryStatusHandler(d, e, s, st) = UpdateStoryStatusHandler(d, e, s, st)
    BY <1>1, SameHelpers, SameMethods
       DEF Service!UpdateStoryStatusHandler, UpdateStoryStatusHandler
  <1> QED BY <1>2, <1>3, <1>4, <1>5, <1>6, <1>7, <1>8, <1>9, <1>10

LEMMA SameHandle == \A d, r : Service!Handle(d, r) = Handle(d, r)
  BY SameHandlers DEF Service!Handle, Handle

\* What clients see, as JiraService has it.
ConnOf == [c \in Client |-> Conn(c)]

TodoOf == [c \in Client |-> IF Alive THEN Todo(c) ELSE <<>>]

DoneOf == [c \in Client |-> IF peer[c] = "up" THEN Done(c) ELSE <<>>]

LEMMA SeenAt ==
  ASSUME NEW c \in Client
  PROVE  /\ ConnOf[c] = Conn(c) /\ ConnOf'[c] = Conn(c)'
         /\ TodoOf[c] = (IF Alive THEN Todo(c) ELSE <<>>)
         /\ TodoOf'[c] = (IF Alive' THEN Todo(c)' ELSE <<>>)
         /\ DoneOf[c] = (IF peer[c] = "up" THEN Done(c) ELSE <<>>)
         /\ DoneOf'[c] = (IF peer'[c] = "up" THEN Done(c)' ELSE <<>>)
  BY DEF ConnOf, TodoOf, DoneOf

IsMap(f) == f = [c \in Client |-> f[c]]

LEMMA SeenAreMaps ==
  /\ IsMap(ConnOf) /\ IsMap(TodoOf) /\ IsMap(DoneOf)
  /\ IsMap(ConnOf') /\ IsMap(TodoOf') /\ IsMap(DoneOf')
  BY DEF ConnOf, TodoOf, DoneOf, IsMap

LEMMA MapKept ==
  ASSUME NEW f, NEW g, IsMap(f), IsMap(g), \A d \in Client : g[d] = f[d]
  PROVE  g = f
  BY DEF IsMap

LEMMA MapChanged ==
  ASSUME NEW f, NEW g, IsMap(f), IsMap(g), NEW c \in Client,
         \A d \in Client : d # c => g[d] = f[d]
  PROVE  g = [f EXCEPT ![c] = g[c]]
  BY DEF IsMap

LEMMA ServiceVars ==
  ASSUME db' = db, Alive' = Alive, ConnOf' = ConnOf, TodoOf' = TodoOf, DoneOf' = DoneOf
  PROVE  [Service!Next]_(Service!vars)
  BY Zenon DEF Service!vars, ConnOf, TodoOf, DoneOf

\* Steps no client can see.
LEMMA Unseen ==
  ASSUME db' = db, Alive' = Alive, peer' = peer,
         \A d \in Client : Alive => Todo(d)' = Todo(d),
         \A d \in Client : peer[d] = "up" => Done(d)' = Done(d)
  PROVE  [Service!Next]_(Service!vars)
  <1>1. \A d \in Client : /\ ConnOf'[d] = ConnOf[d] /\ TodoOf'[d] = TodoOf[d]
                          /\ DoneOf'[d] = DoneOf[d]
    BY SeenAt DEF Conn
  <1>2. ConnOf' = ConnOf /\ TodoOf' = TodoOf /\ DoneOf' = DoneOf
    BY <1>1, SeenAreMaps, MapKept
  <1> QED BY <1>2, ServiceVars

\* A step that changes what is seen of one client, and how.
LEMMA SeenOfOne ==
  ASSUME NEW c \in Client, Alive' = Alive,
         \A d \in Client : d # c => Same(d) /\ peer'[d] = peer[d]
  PROVE  /\ ConnOf' = [ConnOf EXCEPT ![c] = Conn(c)']
         /\ TodoOf' = [TodoOf EXCEPT ![c] = IF Alive THEN Todo(c)' ELSE <<>>]
         /\ DoneOf' = [DoneOf EXCEPT ![c] = IF peer'[c] = "up" THEN Done(c)' ELSE <<>>]
         /\ Conn(c)' = Conn(c) => ConnOf' = ConnOf
         /\ (Alive => Todo(c)' = Todo(c)) => TodoOf' = TodoOf
         /\ Done(c)' = Done(c) /\ peer'[c] = peer[c] => DoneOf' = DoneOf
  <1>1. \A d \in Client : d # c =>
          ConnOf'[d] = ConnOf[d] /\ TodoOf'[d] = TodoOf[d] /\ DoneOf'[d] = DoneOf[d]
    BY SeenAt DEF Conn, Same
  <1>2. /\ ConnOf' = [ConnOf EXCEPT ![c] = ConnOf'[c]]
        /\ TodoOf' = [TodoOf EXCEPT ![c] = TodoOf'[c]]
        /\ DoneOf' = [DoneOf EXCEPT ![c] = DoneOf'[c]]
    BY <1>1, SeenAreMaps, MapChanged
  <1>3. /\ ConnOf'[c] = Conn(c)'
        /\ TodoOf'[c] = (IF Alive THEN Todo(c)' ELSE <<>>)
        /\ DoneOf'[c] = (IF peer'[c] = "up" THEN Done(c)' ELSE <<>>)
    BY SeenAt
  <1>4. /\ Conn(c)' = Conn(c) => ConnOf' = ConnOf
        /\ (Alive => Todo(c)' = Todo(c)) => TodoOf' = TodoOf
        /\ Done(c)' = Done(c) /\ peer'[c] = peer[c] => DoneOf' = DoneOf
    <2>1. /\ Conn(c)' = Conn(c) => \A d \in Client : ConnOf'[d] = ConnOf[d]
          /\ (Alive => Todo(c)' = Todo(c)) => \A d \in Client : TodoOf'[d] = TodoOf[d]
          /\ Done(c)' = Done(c) /\ peer'[c] = peer[c] =>
               \A d \in Client : DoneOf'[d] = DoneOf[d]
      BY <1>1, SeenAt
    <2> QED BY <2>1, SeenAreMaps, MapKept
  <1> QED BY <1>2, <1>3, <1>4, Zenon

LEMMA ClientRefines ==
  ASSUME TypeOK, TypeOK', Counted, NEW c \in Client, ClientNext(c)
  PROVE  [Service!Next]_(Service!vars)
  <1>1. Alive' = Alive /\ db' = db
    BY DEF ClientNext, Connect, Ask, Receive, Leave, brokerVars, Alive
  <1>2. CASE Connect(c)
    <2>1. /\ peer[c] = "out" /\ peer'[c] = "up"
          /\ \A d \in Client : d # c => peer'[d] = peer[d]
      BY <1>2 DEF Connect, TypeOK
    <2>2. /\ Todo(c)' = <<NewClient>> /\ Done(c)' = <<>>
          /\ \A d \in Client : d # c => Same(d)
      BY <1>2, <2>1, ConnectMoves DEF Counted, CountedAt
    <2>3. /\ Conn(c) = "out" /\ Conn(c)' = "in" /\ ConnOf[c] = Conn(c)
          /\ DoneOf[c] = <<>>
      BY <2>1, SeenAt DEF Conn
    <2>4. ConnOf' = [ConnOf EXCEPT ![c] = "in"]
      BY <1>1, <2>1, <2>2, <2>3, SeenOfOne
    <2>5. TodoOf' = IF Alive THEN [TodoOf EXCEPT ![c] = <<NewClient>>] ELSE TodoOf
      BY <1>1, <2>1, <2>2, SeenOfOne
    <2>6. DoneOf' = DoneOf
      <3>1. \A d \in Client : DoneOf'[d] = DoneOf[d]
        BY <2>1, <2>2, <2>3, SeenAt DEF Same
      <3> QED BY <3>1, SeenAreMaps, MapKept
    <2>7. Service!Join(c)
      BY <1>1, <2>3, <2>4, <2>5, <2>6, SameHelpers, Zenon
         DEF Service!Join, ConnOf, TodoOf, DoneOf
    <2> QED BY <2>7, Zenon DEF Service!Next
  <1>3. ASSUME NEW r \in Requests, Ask(c, r)
        PROVE  [Service!Next]_(Service!vars)
    <2>1. peer[c] = "up" /\ peer' = peer
      BY <1>3 DEF Ask
    <2>2. /\ Todo(c)' = Append(Todo(c), r) /\ \A d \in Client : Done(d)' = Done(d)
          /\ \A d \in Client : d # c => Same(d)
      BY <1>3, AskMoves
    <2>3. CASE Alive
      <3>1. ConnOf[c] = "in" /\ TodoOf[c] = Todo(c)
        BY <2>1, <2>3, SeenAt DEF Conn
      <3>2. ConnOf' = ConnOf /\ DoneOf' = DoneOf
        BY <1>1, <2>1, <2>2, SeenOfOne DEF Conn
      <3>3. TodoOf' = [TodoOf EXCEPT ![c] = Todo(c)']
        BY <1>1, <2>1, <2>2, <2>3, SeenOfOne
      <3>4. TodoOf' = [TodoOf EXCEPT ![c] = Append(TodoOf[c], r)]
        BY <2>2, <3>1, <3>3, Zenon
      <3>5. Service!Ask(c, r)
        BY <1>1, <2>3, <3>1, <3>2, <3>4, Zenon DEF Service!Ask, ConnOf, TodoOf, DoneOf
      <3> QED BY <3>5, Zenon DEF Service!Next
    <2>4. CASE ~Alive
      BY <1>1, <2>1, <2>2, <2>4, Unseen
    <2> QED BY <2>3, <2>4
  <1>4. CASE Receive(c)
    <2>1. peer' = peer
      BY <1>4 DEF Receive
    <2>2. /\ Done(c) # <<>> /\ Done(c)' = Tail(Done(c))
          /\ \A d \in Client : Todo(d)' = Todo(d)
          /\ \A d \in Client : d # c => Same(d)
      BY <1>4, ReceiveMoves
    <2>3. CASE peer[c] = "up"
      <3>1. DoneOf[c] = Done(c)
        BY <2>3, SeenAt
      <3>2. ConnOf' = ConnOf /\ TodoOf' = TodoOf
        BY <1>1, <2>1, <2>2, SeenOfOne DEF Conn
      <3>3. DoneOf' = [DoneOf EXCEPT ![c] = Done(c)']
        BY <1>1, <2>1, <2>2, <2>3, SeenOfOne
      <3>4. DoneOf[c] # <<>> /\ DoneOf' = [DoneOf EXCEPT ![c] = Tail(DoneOf[c])]
        BY <2>2, <3>1, <3>3, Zenon
      <3>5. Service!Deliver(c)
        BY <1>1, <3>2, <3>4, Zenon DEF Service!Deliver, ConnOf, TodoOf, DoneOf
      <3> QED BY <3>5, Zenon DEF Service!Next
    <2>4. CASE peer[c] # "up"
      BY <1>1, <2>1, <2>2, <2>4, Unseen DEF Same
    <2> QED BY <2>3, <2>4
  <1>5. CASE Leave(c)
    <2>1. /\ peer[c] = "up" /\ peer'[c] = "gone"
          /\ \A d \in Client : d # c => peer'[d] = peer[d]
      BY <1>5 DEF Leave, TypeOK
    <2>2. /\ \A d \in Client : Todo(d)' = Todo(d)
          /\ \A d \in Client : d # c => Same(d)
      BY <1>5, LeaveMoves
    <2>3. ConnOf[c] = "in" /\ Conn(c)' = "left"
      BY <2>1, SeenAt DEF Conn
    <2>4. /\ ConnOf' = [ConnOf EXCEPT ![c] = "left"] /\ TodoOf' = TodoOf
          /\ DoneOf' = [DoneOf EXCEPT ![c] = <<>>]
      BY <1>1, <2>1, <2>2, <2>3, SeenOfOne
    <2>5. Service!Leave(c)
      BY <1>1, <2>3, <2>4, Zenon DEF Service!Leave, ConnOf, TodoOf, DoneOf
    <2> QED BY <2>5, Zenon DEF Service!Next
  <1> QED BY <1>2, <1>3, <1>4, <1>5 DEF ClientNext

LEMMA ReaderRefines ==
  ASSUME TypeOK, NEW c \in Client, ReaderNext(c)
  PROVE  [Service!Next]_(Service!vars)
  <1>1. Alive' = Alive /\ db' = db /\ peer' = peer
    BY DEF ReaderNext, ReaderGreets, ReaderForwards, ReaderEnds, peerVars, brokerVars, Alive
  <1>2. CASE Alive /\ ~ReaderEnds(c)
    BY <1>1, <1>2, ReaderGreetsMoves, ReaderForwardsMoves, Unseen DEF ReaderNext, Same
  <1>3. CASE ~Alive /\ ~ReaderEnds(c)
    BY <1>1, <1>3, ReaderOfDeadMoves, Unseen DEF ReaderNext
  <1>4. CASE ReaderEnds(c)
    <2>1. peer[c] = "gone"
      BY <1>4 DEF ReaderEnds
    <2>2. /\ \E n \in 0 .. Len(Todo(c)) : Todo(c)' = SubSeq(Todo(c), 1, n)
          /\ \A d \in Client : Done(d)' = Done(d)
          /\ \A d \in Client : d # c => Same(d)
      BY <1>4, ReaderEndsMoves
    <2>3. CASE Alive
      <3>1. PICK n \in 0 .. Len(Todo(c)) : Todo(c)' = SubSeq(Todo(c), 1, n)
        BY <2>2
      <3>2. ConnOf[c] = "left" /\ TodoOf[c] = Todo(c)
        BY <2>1, <2>3, SeenAt DEF Conn
      <3>3. ConnOf' = ConnOf /\ DoneOf' = DoneOf
        BY <1>1, <2>2, SeenOfOne DEF Conn
      <3>4. TodoOf' = [TodoOf EXCEPT ![c] = Todo(c)']
        BY <1>1, <2>2, <2>3, SeenOfOne
      <3>5. /\ n \in 0 .. Len(TodoOf[c])
            /\ TodoOf' = [TodoOf EXCEPT ![c] = SubSeq(TodoOf[c], 1, n)]
        BY <3>1, <3>2, <3>4, Zenon
      <3>6. Service!Forget(c)
        BY <1>1, <3>2, <3>3, <3>5, Zenon DEF Service!Forget, ConnOf, TodoOf, DoneOf
      <3> QED BY <3>6, Zenon DEF Service!Next
    <2>4. CASE ~Alive
      BY <1>1, <2>2, <2>4, Unseen
    <2> QED BY <2>3, <2>4
  <1> QED BY <1>2, <1>3, <1>4

LEMMA WriterRefines ==
  ASSUME TypeOK, NEW c \in Client, WriterNext(c)
  PROVE  [Service!Next]_(Service!vars)
  <1>1. Alive' = Alive /\ db' = db /\ peer' = peer
    BY DEF WriterNext, WriterTakes, WriterWrites, WriterFails, WriterStops, peerVars,
           brokerVars, Alive
  <1>2. CASE WriterTakes(c)
    BY <1>1, <1>2, WriterTakesMoves, Unseen DEF Same
  <1>3. CASE WriterWrites(c)
    BY <1>1, <1>3, WriterWritesMoves, Unseen DEF Same
  <1>4. CASE WriterFails(c)
    <2>1. peer[c] # "up"
      BY <1>4 DEF WriterFails
    <2> QED BY <1>1, <1>4, <2>1, WriterFailsMoves, Unseen DEF Same
  <1>5. CASE WriterStops(c)
    <2>1. /\ \A d \in Client : Todo(d)' = Todo(d)
          /\ \A d \in Client : d # c => Same(d)
          /\ Alive => Same(c)
          /\ ~Alive => \E n \in 0 .. Len(Done(c)) : Done(c)' = SubSeq(Done(c), 1, n)
      BY <1>5, WriterStopsMoves
    <2>2. CASE Alive \/ peer[c] # "up"
      BY <1>1, <2>1, <2>2, Unseen DEF Same
    <2>3. CASE ~Alive /\ peer[c] = "up"
      <3>1. PICK n \in 0 .. Len(Done(c)) : Done(c)' = SubSeq(Done(c), 1, n)
        BY <2>1, <2>3
      <3>2. DoneOf[c] = Done(c)
        BY <2>3, SeenAt
      <3>3. ConnOf' = ConnOf /\ TodoOf' = TodoOf
        BY <1>1, <2>1, SeenOfOne DEF Conn
      <3>4. DoneOf' = [DoneOf EXCEPT ![c] = Done(c)']
        BY <1>1, <2>1, <2>3, SeenOfOne
      <3>5. /\ n \in 0 .. Len(DoneOf[c])
            /\ DoneOf' = [DoneOf EXCEPT ![c] = SubSeq(DoneOf[c], 1, n)]
        BY <3>1, <3>2, <3>4, Zenon
      <3>6. Service!Lose(c)
        BY <1>1, <2>3, <3>3, <3>5, Zenon DEF Service!Lose, ConnOf, TodoOf, DoneOf
      <3> QED BY <3>6, Zenon DEF Service!Next
    <2> QED BY <2>2, <2>3
  <1> QED BY <1>2, <1>3, <1>4, <1>5 DEF WriterNext

LEMMA ServesRefine ==
  ASSUME TypeOK, BacklogBounded, BrokerGreets \/ BrokerAnswers \/ BrokerAddsStory
  PROVE  [Service!Next]_(Service!vars)
  <1>1. PICK c, x : c = Head(events).peer /\ x = Head(events).req
    OBVIOUS
  <1> DEFINE out == Handle(db, x)
  <1>2. /\ c \in Client /\ Alive /\ Alive' /\ peer' = peer
        /\ Pops(Todo(c), x, Todo(c)')
        /\ Done(c)' = Append(Done(c), out.reply)
        /\ db' = out.db
        /\ \A d \in Client : d # c => Same(d)
    BY <1>1, ServeMoves
  <1>3. Service!Handle(db, x) = out
    BY SameHandle
  <1> HIDE DEF out
  <1>4. /\ ConnOf[c] = "in" <=> peer[c] = "up"
        /\ TodoOf[c] = Todo(c)
        /\ peer[c] = "up" => DoneOf[c] = Done(c)
    BY <1>2, SeenAt DEF Conn
  <1>5. ConnOf' = ConnOf
    BY <1>2, SeenOfOne DEF Conn
  <1>6. TodoOf' = [TodoOf EXCEPT ![c] = Todo(c)']
    BY <1>2, SeenOfOne
  <1>7. DoneOf' = [DoneOf EXCEPT ![c] = IF peer[c] = "up" THEN Done(c)' ELSE <<>>]
    BY <1>2, SeenOfOne
  <1>8. /\ TodoOf[c] # <<>> /\ Head(TodoOf[c]) = x
        /\ TodoOf' = [TodoOf EXCEPT ![c] = Tail(TodoOf[c])]
    BY <1>2, <1>4, <1>6, Zenon DEF Pops
  <1>9. DoneOf' = [DoneOf EXCEPT ![c] = IF ConnOf[c] = "in" THEN Append(DoneOf[c], out.reply)
                                        ELSE <<>>]
    <2>1. CASE peer[c] = "up"
      BY <1>2, <1>4, <1>7, <2>1, Zenon
    <2>2. CASE peer[c] # "up"
      BY <1>4, <1>7, <2>2, Zenon
    <2> QED BY <2>1, <2>2
  <1>10. Service!Serve(c)
    <2>1. Service!Handle(db, Head(TodoOf[c])) = out /\ Alive' = Alive
      BY <1>2, <1>3, <1>8
    <2> QED BY <1>2, <1>5, <1>8, <1>9, <2>1, Zenon DEF Service!Serve, ConnOf, TodoOf, DoneOf
  <1> QED BY <1>2, <1>10, Zenon DEF Service!Next

\* The event that panics the broker is of a client that has left.
LEMMA PanicRefines ==
  ASSUME TypeOK, Links, Known, BrokerPanics
  PROVE  [Service!Next]_(Service!vars)
  <1>1. /\ events # <<>> /\ broker.at = "select" /\ Head(events).req # NewClient
        /\ Head(events).peer \notin clients /\ BrokerDies("panicked")
    BY DEF BrokerPanics, TakesEvent
  <1>2. Alive /\ ~Alive' /\ db' = EmptyDb /\ peer' = peer
    BY <1>1 DEF BrokerDies, Idle, Alive, peerVars
  <1>3. PICK c \in Client : ConnOf[c] = "left"
    <2>1. PICK c : c = Head(events).peer
      OBVIOUS
    <2>2. c \in Client /\ 1 \in DOMAIN events /\ events[1] = Head(events)
      BY <1>1, <2>1, HeadEventType, TailFacts DEF TypeOK
    <2>3. \A j \in 1 .. 1 : j = 1
      OBVIOUS
    <2>4. events[1] # [peer |-> c, req |-> NewClient]
      BY <1>1, <2>2
    <2>5. peer[c] = "gone"
      BY <1>1, <2>1, <2>2, <2>3, <2>4 DEF Known, UnknownClientHasLeft
    <2> QED BY <2>2, <2>5, SeenAt DEF Conn
  <1>4. ConnOf' = ConnOf /\ DoneOf' = DoneOf
    <2>1. \A d \in Client : peer[d] = "up" => Done(d)' = Done(d)
      <3>1. \A d \in Client : peer[d] = "up" => writer[d] # "done"
        BY <1>2 DEF Known
      <3> QED BY <1>1, <3>1, BrokerDiesMoves
    <2>2. \A d \in Client : ConnOf'[d] = ConnOf[d] /\ DoneOf'[d] = DoneOf[d]
      BY <1>2, <2>1, SeenAt DEF Conn
    <2> QED BY <2>2, SeenAreMaps, MapKept
  <1>5. TodoOf' = [d \in Client |-> <<>>]
    BY <1>2 DEF TodoOf
  <1>6. Alive' = FALSE
    BY <1>2
  <1>7. Service!Stop
    BY <1>2, <1>3, <1>4, <1>5, <1>6, SameHelpers, Zenon
       DEF Service!Stop, ConnOf, TodoOf, DoneOf
  <1> QED BY <1>7, Zenon DEF Service!Next

LEMMA BrokerRefines ==
  ASSUME DiskFails = FALSE, TypeOK, Links, Served, BacklogBounded, Known, BrokerNext
  PROVE  [Service!Next]_(Service!vars)
  <1>1. CASE BrokerGreets \/ BrokerAnswers \/ BrokerAddsStory
    BY <1>1, ServesRefine
  <1>2. CASE BrokerPanics
    BY <1>2, PanicRefines
  <1>3. CASE Loaded \/ StoryWritten \/ ReplySent \/ Written
    <2>1. ~StoryWriteFails
      BY DEF StoryWriteFails
    <2>2. /\ Alive' = Alive /\ peer' = peer /\ db' = db
          /\ \A d \in Client : Same(d)
      BY <1>3, <2>1, AwaitsMoves
    <2> QED BY <2>2, Unseen DEF Same
  <1>4. CASE StoryWriteFails \/ WriteFails \/ LoadFails
    BY <1>4 DEF StoryWriteFails, WriteFails, LoadFails
  <1>5. CASE BrokerReaps
    <2>1. PICK c : c = Head(disconnects)
      OBVIOUS
    <2>2. /\ c \in Client /\ peer[c] = "gone" /\ chan' = [chan EXCEPT ![c] = <<>>]
          /\ UNCHANGED <<peer, c2s, s2c, reader, events, broker, db, held>>
      BY <1>5, <2>1, ReapedHasLeft
    <2>3. /\ \A d \in Client : Todo(d)' = Todo(d)
          /\ \A d \in Client : d # c => Same(d)
      BY <2>2, ReapMoves
    <2>4. Alive' = Alive
      BY <2>2 DEF Alive
    <2> QED BY <2>2, <2>3, <2>4, Unseen DEF Same
  <1> QED BY <1>1, <1>2, <1>3, <1>4, <1>5 DEF BrokerNext, BrokerTakes, BrokerAwaits

LEMMA InitRefines == Init => Service!Init
  <1> SUFFICES ASSUME Init PROVE Service!Init
    OBVIOUS
  <1>1. TypeOK
    BY InitType
  <1>2. Alive = TRUE
    BY DEF Init, Loading, Idle, Alive
  <1>3. ASSUME NEW c \in Client
        PROVE  ConnOf[c] = "out" /\ TodoOf[c] = <<>> /\ DoneOf[c] = <<>>
    <2>1. InFlight(c) = 0 /\ peer[c] = "out"
      BY InitCounted DEF Counted, CountedAt, Init
    <2>2. Todo(c) = <<>>
      BY <1>1, <2>1, NothingOnItsWay
    <2> QED BY <2>1, <2>2, SeenAt DEF Conn
  <1>4. /\ ConnOf = [c \in Client |-> "out"]
        /\ TodoOf = [c \in Client |-> <<>>]
        /\ DoneOf = [c \in Client |-> <<>>]
    BY <1>3 DEF ConnOf, TodoOf, DoneOf
  <1>5. db \in Service!Db
    <2>1. Service!Db = Db
      BY DEF Service!Db, Db, Service!Epic, Epic, Service!Map, Map, Service!Id, Id,
             Service!Status, Status
    <2> QED BY <1>1, <2>1 DEF TypeOK
  <1> QED BY <1>2, <1>4, <1>5, Zenon DEF Service!Init, ConnOf, TodoOf, DoneOf

\* What clients can tell of the server is what JiraService allows, as long as no
\* read or write of the disk fails (a failed write makes add_story_async answer
\* an executed request as if there were no such epic).
THEOREM ServerImplementsService ==
  ASSUME DiskFails = FALSE
  PROVE  Spec => ImplementsService
  <1>1. Inv /\ Counted /\ [Next]_vars => [Service!Next]_(Service!vars)
    <2> SUFFICES ASSUME TypeOK, Links, Served, BacklogBounded, Known, Counted, [Next]_vars
                 PROVE  [Service!Next]_(Service!vars)
      BY DEF Inv
    <2>1. TypeOK'
      BY TypeStep
    <2>2. CASE BrokerNext
      BY <2>2, BrokerRefines, Zenon
    <2>3. CASE \E c \in Client : ClientNext(c) \/ ReaderNext(c) \/ WriterNext(c)
      BY <2>1, <2>3, ClientRefines, ReaderRefines, WriterRefines
    <2>4. CASE UNCHANGED vars
      <3>1. Alive' = Alive /\ db' = db /\ peer' = peer
        BY <2>4 DEF vars, peerVars, brokerVars, Alive
      <3> QED BY <2>4, <3>1, NothingMoves, Unseen DEF Same
    <2> QED BY <2>2, <2>3, <2>4 DEF Next
  <1> QED BY <1>1, InitRefines, CountedHolds, PTL DEF Spec, ImplementsService, Service!Spec
=============================================================================
