----------------------------- MODULE LobbyProofs -----------------------------
(***************************************************************************)
(* Proofs about the options and the people of a game on the pages of those *)
(* in it, for any users, options, decks and bounds.  Each promise is kept  *)
(* until a slip that breaks it.                                            *)
(***************************************************************************)
EXTENDS Lobby, SequenceTheorems, FiniteSetTheorems, TLAPS

States == {"LOBBY", "PLAYING"}
Forms == [Fields -> Values]

Games ==
    [state : States, players : Seq(Users), spectators : SUBSET Users, host : Users,
     options : Forms, decks : SUBSET Decks]

Events ==
    [type : {"join", "leave", "spectatorJoin", "spectatorLeave"}, who : Users]
    \cup [type : {"info"}, who : Users, host : BOOLEAN]
    \cup [type : {"state"}, state : States]
    \cup [type : {"options"}, info : Games]
    \cup [type : {"addCardset", "removeCardset"}, who : Decks]

Tasks ==
    [task : {"leave"}, user : Users]
    \cup [task : {"change"}, user : Watched, form : Forms, field : Fields]

Ops == {"GET_GAME_INFO", "LIST_CARDSETS", "CHANGE_GAME_OPTIONS"}

Requests ==
    [user : Watched, op : Ops, form : Forms \cup {None}, field : Fields \cup {None},
     answered : BOOLEAN, data : Games \cup {None}, ahead : Nat]

Pages ==
    [open : BOOLEAN, state : States, host : Users \cup {None}, form : Forms, shown : BOOLEAN,
     enabled : BOOLEAN, start : BOOLEAN, stop : BOOLEAN, panels : SUBSET Users,
     decks : [Decks -> Nat]]

\* Only what was read is answered, and what is answered is what was read.
RequestOK(m) ==
    /\ m \in Requests
    /\ m.op = "CHANGE_GAME_OPTIONS" => m.form \in Forms /\ m.field \in Fields /\ ~m.answered
    /\ m.answered => m.data \in Games
    /\ ~m.answered => m.ahead = 0

\* The list of players has somebody, and nobody twice.
ListOK(s) == s # <<>> /\ \A i, j \in 1..Len(s) : s[i] = s[j] => i = j

TypeOK ==
    /\ game \in Games /\ ListOK(game.players)
    /\ halfway \subseteq Tasks
    /\ events \in [Watched -> Seq(Events)]
    /\ IsABag(inFlight) /\ \A m \in Messages : RequestOK(m)
    /\ page \in [Watched -> Pages]
    /\ slips \subseteq Races

\* Nobody plays and looks on.  Who is leaving is in the game no more, and a host that is
\* gone is leaving.
Staying ==
    /\ Players(game) \cap game.spectators = {}
    /\ Leaving \cap Members(game) = {}
    /\ HostIsGone(game) => game.host \in Leaving

Base == TypeOK /\ Staying

-----------------------------------------------------------------------------
(* What is to come to the page of u, when it has handled n events of q.    *)

After(q, n) == {q[i] : i \in {j \in 1..Len(q) : j > n}}

Refreshing(u, S) == \E e \in S : Refreshes(e, u)

WithOptions(S) == \E e \in S : e.type = "options"

Renewing(u, S) == Refreshing(u, S) \/ WithOptions(S)

StateComes(s, S) == \E e \in S : e.type = "state" /\ e.state = s

HostComes(u, S) == \E e \in S : e.type = "info" /\ e.who = u /\ e.host

Leaves(w, S) == \E e \in S : e.type \in {"leave", "spectatorLeave"} /\ e.who = w

Mine(u) == {m \in Messages : m.user = u}
Infos(u) == {m \in Mine(u) : m.op = "GET_GAME_INFO"}
Lists(u) == {m \in Mine(u) : m.op = "LIST_CARDSETS"}
Changes(u) == {m \in Mine(u) : m.op = "CHANGE_GAME_OPTIONS"}

ToCome(u) == After(events[u], 0)

-----------------------------------------------------------------------------
(* Bags of messages: one is added, two are, one is taken out or replaced.  *)

Adds(B, C, m) ==
    /\ IsABag(C) /\ BagToSet(C) = BagToSet(B) \cup {m}
    /\ \A n \in BagToSet(B) : n # m => C[n] = B[n]
    /\ m \notin BagToSet(B) => C[m] = 1

Drops(B, C, m) ==
    /\ IsABag(C) /\ BagToSet(C) \subseteq BagToSet(B)
    /\ \A n \in BagToSet(B) : n # m => n \in BagToSet(C) /\ C[n] = B[n]
    /\ B[m] = 1 => m \notin BagToSet(C)

LEMMA AddOne ==
    ASSUME NEW B, IsABag(B), NEW m
    PROVE  Adds(B, B (+) SetToBag({m}), m)
  <1> DEFINE C == B (+) SetToBag({m})
  <1>1. B \in [DOMAIN B -> {n \in Nat : n > 0}]
    BY DEF IsABag
  <1>2. /\ DOMAIN C = DOMAIN B \cup {m}
        /\ \A n \in DOMAIN C : C[n] = (IF n \in DOMAIN B THEN B[n] ELSE 0) + (IF n = m THEN 1 ELSE 0)
        /\ C = [n \in DOMAIN B \cup {m} |->
                  (IF n \in DOMAIN B THEN B[n] ELSE 0) + (IF n \in {m} THEN 1 ELSE 0)]
    BY DEF (+), SetToBag
  <1> HIDE DEF C
  <1>3. \A n \in DOMAIN C : C[n] \in {k \in Nat : k > 0}
    BY <1>1, <1>2
  <1>4. IsABag(C)
    BY <1>2, <1>3 DEF IsABag
  <1>5. Adds(B, C, m)
    BY <1>1, <1>2, <1>4 DEF Adds, BagToSet
  <1> QED
    BY <1>5 DEF C

LEMMA DropOne ==
    ASSUME NEW B, IsABag(B), NEW m \in BagToSet(B)
    PROVE  Drops(B, B (-) SetToBag({m}), m)
  <1> DEFINE C == B (-) SetToBag({m})
             D == [n \in DOMAIN B |-> IF n \in {m} THEN B[n] - 1 ELSE B[n]]
  <1>1. B \in [DOMAIN B -> {n \in Nat : n > 0}] /\ m \in DOMAIN B
    BY DEF IsABag, BagToSet
  <1>2. C = [n \in {d \in DOMAIN D : D[d] > 0} |-> D[n]]
    BY DEF (-), SetToBag
  <1>3. DOMAIN D = DOMAIN B /\ \A n \in DOMAIN B : D[n] = IF n = m THEN B[n] - 1 ELSE B[n]
    OBVIOUS
  <1> HIDE DEF C, D
  <1>4. /\ DOMAIN C = {d \in DOMAIN B : D[d] > 0}
        /\ \A n \in DOMAIN C : C[n] = D[n]
        /\ C = [n \in DOMAIN C |-> C[n]]
    BY <1>2, <1>3
  <1>5. \A n \in DOMAIN C : C[n] \in {k \in Nat : k > 0}
    BY <1>1, <1>3, <1>4
  <1>6. IsABag(C)
    BY <1>4, <1>5 DEF IsABag
  <1>7. Drops(B, C, m)
    BY <1>1, <1>3, <1>4, <1>6 DEF Drops, BagToSet
  <1> QED
    BY <1>7 DEF C

\* One takes the place of another.
Turns(B, C, m, r) ==
    /\ IsABag(C) /\ r \in BagToSet(C) /\ BagToSet(C) \subseteq BagToSet(B) \cup {r}
    /\ \A n \in BagToSet(B) : n # m /\ n # r => n \in BagToSet(C) /\ C[n] = B[n]
    /\ B[m] = 1 => m \notin BagToSet(C)
    /\ r \notin BagToSet(B) => C[r] = 1

LEMMA TurnOne ==
    ASSUME NEW B, IsABag(B), NEW m \in BagToSet(B), NEW r, r # m
    PROVE  Turns(B, (B (-) SetToBag({m})) (+) SetToBag({r}), m, r)
  <1> DEFINE X == B (-) SetToBag({m})
             C == X (+) SetToBag({r})
  <1>1. Drops(B, X, m)
    BY DropOne
  <1>2. Adds(X, C, r)
    BY <1>1, AddOne DEF Drops
  <1> HIDE DEF X, C
  <1>3. Turns(B, C, m, r)
    BY <1>1, <1>2 DEF Drops, Adds, Turns
  <1> QED
    BY <1>3 DEF C, X

LEMMA AddNone ==
    ASSUME NEW B, IsABag(B)
    PROVE  B (+) EmptyBag = B
  <1> DEFINE C == B (+) EmptyBag
  <1>1. B \in [DOMAIN B -> {n \in Nat : n > 0}] /\ B = [n \in DOMAIN B |-> B[n]]
    BY DEF IsABag
  <1>2. DOMAIN EmptyBag = {}
    BY DEF EmptyBag, SetToBag
  <1>3. C = [n \in DOMAIN B \cup DOMAIN EmptyBag |->
               (IF n \in DOMAIN B THEN B[n] ELSE 0) + (IF n \in DOMAIN EmptyBag THEN EmptyBag[n] ELSE 0)]
    BY DEF (+)
  <1> HIDE DEF C
  <1>4. DOMAIN C = DOMAIN B /\ C = [n \in DOMAIN B |-> C[n]]
    BY <1>2, <1>3
  <1>5. \A n \in DOMAIN B : C[n] = B[n] + 0
    BY <1>2, <1>3, <1>4
  <1>6. \A n \in DOMAIN B : C[n] = B[n]
    BY <1>1, <1>5
  <1> QED
    BY <1>1, <1>4, <1>6 DEF C

AddsTwo(B, C, m, n) ==
    /\ IsABag(C) /\ BagToSet(C) = BagToSet(B) \cup {m, n}
    /\ \A k \in BagToSet(B) : k \notin {m, n} => C[k] = B[k]

LEMMA AddTwo ==
    ASSUME NEW B, IsABag(B), NEW m, NEW n, m # n
    PROVE  AddsTwo(B, B (+) (SetToBag({m}) (+) SetToBag({n})), m, n)
  <1> DEFINE A == SetToBag({m}) (+) SetToBag({n})
             C == B (+) A
  <1>1. B \in [DOMAIN B -> {k \in Nat : k > 0}]
    BY DEF IsABag
  <1>2. /\ A = [k \in {m} \cup {n} |-> (IF k \in {m} THEN 1 ELSE 0) + (IF k \in {n} THEN 1 ELSE 0)]
        /\ DOMAIN A = {m, n}
    BY DEF (+), SetToBag
  <1>3. A[m] = 1 /\ A[n] = 1
    BY <1>2
  <1>4. C = [k \in DOMAIN B \cup DOMAIN A |->
               (IF k \in DOMAIN B THEN B[k] ELSE 0) + (IF k \in DOMAIN A THEN A[k] ELSE 0)]
    BY DEF (+)
  <1> HIDE DEF A, C
  <1>5. /\ DOMAIN C = DOMAIN B \cup {m, n} /\ C = [k \in DOMAIN C |-> C[k]]
        /\ \A k \in DOMAIN C : C[k] = (IF k \in DOMAIN B THEN B[k] ELSE 0) + (IF k \in {m, n} THEN 1 ELSE 0)
    BY <1>2, <1>3, <1>4
  <1>6. \A k \in DOMAIN C : C[k] \in {i \in Nat : i > 0}
    BY <1>1, <1>5
  <1>7. IsABag(C)
    BY <1>5, <1>6 DEF IsABag
  <1>8. \A k \in BagToSet(B) : k \notin {m, n} => C[k] = B[k]
    BY <1>1, <1>5 DEF BagToSet
  <1>9. AddsTwo(B, C, m, n)
    BY <1>5, <1>7, <1>8 DEF AddsTwo, BagToSet
  <1> QED
    BY <1>9 DEF C, A

LEMMA NoneIsABag == IsABag(EmptyBag) /\ BagToSet(EmptyBag) = {}
  BY DEF EmptyBag, SetToBag, IsABag, BagToSet

LEMMA CloserFacts ==
    ASSUME NEW m, RequestOK(m), NEW u
    PROVE  LET c == Closer(m, u)
           IN  /\ RequestOK(c)
               /\ c.user = m.user /\ c.op = m.op /\ c.answered = m.answered /\ c.data = m.data
               /\ c.form = m.form /\ c.field = m.field
               /\ m.user # u \/ m.ahead = 0 => c = m
               /\ m.user = u /\ m.ahead > 0 => c.ahead = m.ahead - 1 /\ [c EXCEPT !.ahead = @ + 1] = m
  <1>0. m \in Requests /\ m.ahead \in Nat
    BY DEF RequestOK, Requests
  <1>1. CASE m.user = u /\ m.ahead > 0
    <2>1. m.ahead - 1 \in Nat /\ (m.ahead - 1) + 1 = m.ahead
      BY <1>0, <1>1
    <2> DEFINE a == m.ahead - 1
               c == [m EXCEPT !.ahead = a]
    <2>2. Closer(m, u) = c
      BY <1>1 DEF Closer
    <2> HIDE DEF a
    <2>3. a \in Nat /\ a + 1 = m.ahead
      BY <2>1 DEF a
    <2>4. /\ c \in Requests /\ c.ahead = a
          /\ c.user = m.user /\ c.op = m.op /\ c.answered = m.answered /\ c.data = m.data
          /\ c.form = m.form /\ c.field = m.field
      BY <1>0, <2>3 DEF Requests
    <2>5. [c EXCEPT !.ahead = @ + 1] = m
      <3>1. [c EXCEPT !.ahead = @ + 1] = [m EXCEPT !.ahead = m.ahead]
        BY <1>0, <2>3, <2>4 DEF Requests
      <3>2. [m EXCEPT !.ahead = m.ahead] = m
        BY <1>0 DEF Requests
      <3> QED
        BY <3>1, <3>2
    <2> HIDE DEF c
    <2>6. RequestOK(c)
      BY <1>1, <2>4, <2>3, <1>0 DEF RequestOK
    <2>7. m.user = u /\ m.ahead > 0 => c.ahead = m.ahead - 1
      BY <2>4 DEF a
    <2>8. ~(m.user # u \/ m.ahead = 0)
      BY <1>1
    <2> QED
      BY <2>2, <2>4, <2>5, <2>6, <2>7, <2>8
  <1>2. CASE ~(m.user = u /\ m.ahead > 0)
    <2>1. Closer(m, u) = m
      BY <1>2 DEF Closer
    <2> QED
      BY <2>1, <1>2
  <1> QED
    BY <1>1, <1>2

\* What is under way when the page of u has handled an event.
LEMMA OneLessFacts ==
    ASSUME IsABag(inFlight), \A m \in Messages : RequestOK(m), NEW u
    PROVE  LET C == OneLess(u)
           IN  /\ IsABag(C)
               /\ BagToSet(C) = {Closer(n, u) : n \in Messages}
               /\ \A m \in BagToSet(C) : RequestOK(m)
               /\ \A m \in Messages : m.user # u \/ ~m.answered => m \in BagToSet(C) /\ C[m] = inFlight[m]
  <1> DEFINE C == OneLess(u)
             K(m) == (IF m.user # u \/ m.ahead = 0 THEN Copies(m) ELSE 0)
                     + (IF m.user = u THEN Copies([m EXCEPT !.ahead = @ + 1]) ELSE 0)
  <1>1. inFlight \in [DOMAIN inFlight -> {n \in Nat : n > 0}] /\ Messages = DOMAIN inFlight
    BY DEF IsABag, Messages, BagToSet
  <1>2. \A x : Copies(x) \in Nat /\ (x \in Messages => Copies(x) = inFlight[x] /\ Copies(x) > 0)
               /\ (x \notin Messages => Copies(x) = 0)
    BY <1>1 DEF Copies
  <1>3. /\ DOMAIN C = {Closer(n, u) : n \in Messages}
        /\ \A m \in DOMAIN C : C[m] = K(m)
        /\ C = [m \in DOMAIN C |-> C[m]]
    BY DEF OneLess
  <1>4. \A m : K(m) \in Nat
    BY <1>2
  <1>5. ASSUME NEW n \in Messages
        PROVE  K(Closer(n, u)) > 0
    <2>1. CASE n.user = u /\ n.ahead > 0
      <3> DEFINE c == Closer(n, u)
      <3>1. c.user = u /\ [c EXCEPT !.ahead = @ + 1] = n
        BY <2>1, CloserFacts
      <3> HIDE DEF c
      <3>2. K(c) = (IF c.user # u \/ c.ahead = 0 THEN Copies(c) ELSE 0) + Copies(n)
        BY <3>1
      <3>3. Copies(n) \in Nat /\ Copies(n) > 0 /\ Copies(c) \in Nat
        BY <1>2
      <3>4. K(c) > 0
        BY <3>2, <3>3
      <3> QED
        BY <3>4 DEF c
    <2>2. CASE ~(n.user = u /\ n.ahead > 0)
      <3>0. RequestOK(n) /\ n.ahead \in Nat
        BY DEF RequestOK, Requests
      <3>1. Closer(n, u) = n /\ (n.user # u \/ n.ahead = 0)
        BY <2>2, <3>0 DEF Closer
      <3>2. Copies(n) \in Nat /\ Copies(n) > 0 /\ Copies([n EXCEPT !.ahead = @ + 1]) \in Nat
        BY <1>2
      <3>3. K(n) = Copies(n) + (IF n.user = u THEN Copies([n EXCEPT !.ahead = @ + 1]) ELSE 0)
        BY <3>1
      <3>4. K(n) > 0
        BY <3>2, <3>3
      <3> QED
        BY <3>1, <3>4
    <2> QED
      BY <2>1, <2>2
  <1>6. ASSUME NEW m \in Messages, m.user # u \/ ~m.answered
        PROVE  Closer(m, u) = m /\ K(m) = inFlight[m]
    <2>1. RequestOK(m) /\ m \in Requests /\ m.ahead \in Nat /\ (~m.answered => m.ahead = 0)
      BY DEF RequestOK, Requests
    <2>2. Closer(m, u) = m
      BY <1>6, <2>1, CloserFacts
    <2>3. m.user = u => [m EXCEPT !.ahead = @ + 1] \notin Messages
      <3> SUFFICES ASSUME m.user = u, [m EXCEPT !.ahead = @ + 1] \in Messages
                   PROVE  FALSE
        OBVIOUS
      <3> DEFINE r == [m EXCEPT !.ahead = @ + 1]
      <3>1. r.answered = m.answered /\ r.ahead = m.ahead + 1
        BY <2>1 DEF Requests
      <3>2. RequestOK(r)
        OBVIOUS
      <3> HIDE DEF r
      <3> QED
        BY <1>6, <2>1, <3>1, <3>2 DEF RequestOK
    <2>4. Copies(m) = inFlight[m] /\ Copies(m) \in Nat
      BY <1>2
    <2>5. m.user = u => Copies([m EXCEPT !.ahead = @ + 1]) = 0
      BY <1>2, <2>3
    <2>6. m.user # u \/ m.ahead = 0
      BY <1>6, <2>1
    <2> QED
      BY <2>2, <2>4, <2>5, <2>6
  <1> HIDE DEF C, K
  <1>7. \A m \in DOMAIN C : C[m] \in {n \in Nat : n > 0}
    BY <1>3, <1>4, <1>5
  <1>8. IsABag(C)
    BY <1>3, <1>7 DEF IsABag
  <1>9. \A m \in DOMAIN C : RequestOK(m)
    BY <1>3, CloserFacts
  <1>10. \A m \in Messages : m.user # u \/ ~m.answered => m \in DOMAIN C /\ C[m] = inFlight[m]
    BY <1>3, <1>6
  <1>11. /\ IsABag(C) /\ BagToSet(C) = {Closer(n, u) : n \in Messages}
         /\ \A m \in BagToSet(C) : RequestOK(m)
         /\ \A m \in Messages : m.user # u \/ ~m.answered => m \in BagToSet(C) /\ C[m] = inFlight[m]
    BY <1>3, <1>8, <1>9, <1>10 DEF BagToSet
  <1> QED
    BY <1>11 DEF C

-----------------------------------------------------------------------------
(* Lists of players and queues of events.                                  *)

LEMMA WithoutFacts ==
    ASSUME NEW s \in Seq(Users), ListOK(s), NEW u \in ToSet(s), Len(s) > 1
    PROVE  LET q == Without(s, u)
           IN  q \in Seq(Users) /\ ListOK(q) /\ ToSet(q) = ToSet(s) \ {u} /\ Len(q) = Len(s) - 1
  <1> DEFINE n == Len(s)
             k == CHOOSE i \in 1..n : s[i] = u
             a == SubSeq(s, 1, k - 1)
             b == SubSeq(s, k + 1, n)
             q == a \o b
  <1>1. n \in Nat /\ s \in Seq(Users) /\ \A i \in 1..n : s[i] \in Users
    OBVIOUS
  <1>2. k \in 1..n /\ s[k] = u
    <2>1. \E i \in 1..n : s[i] = u
      BY DEF ToSet
    <2> QED
      BY <2>1
  <1>3. Without(s, u) = q
    BY DEF Without, RemoveAt
  <1> HIDE DEF k
  <1>4. a \in Seq(Users) /\ Len(a) = k - 1 /\ \A i \in 1..(k - 1) : a[i] = s[i]
    BY <1>1, <1>2
  <1>5. b \in Seq(Users) /\ Len(b) = n - k /\ \A i \in 1..(n - k) : b[i] = s[k + i]
    BY <1>1, <1>2
  <1> HIDE DEF a, b, n
  <1>6. q \in Seq(Users) /\ Len(q) = n - 1
    <2>1. q \in Seq(Users) /\ Len(q) = Len(a) + Len(b)
      BY <1>4, <1>5, ConcatProperties
    <2>2. (k - 1) + (n - k) = n - 1
      BY <1>1, <1>2
    <2> QED
      BY <1>4, <1>5, <2>1, <2>2
  <1>7. \A i \in 1..(n - 1) : q[i] = IF i < k THEN s[i] ELSE s[i + 1]
    <2> TAKE i \in 1..(n - 1)
    <2>1. CASE i < k
      <3>1. i \in 1..Len(a) /\ i \in 1..(k - 1)
        BY <1>1, <1>2, <1>4, <2>1
      <3>2. q[i] = a[i]
        BY <1>4, <1>5, <3>1
      <3> QED
        BY <1>4, <2>1, <3>1, <3>2
    <2>2. CASE ~(i < k)
      <3>1. i - (k - 1) \in 1..(n - k) /\ i > Len(a) /\ i <= Len(a) + Len(b) /\ k + (i - (k - 1)) = i + 1
        BY <1>1, <1>2, <1>4, <1>5, <2>2
      <3>2. q[i] = b[i - (k - 1)]
        BY <1>4, <1>5, <3>1
      <3>3. b[i - (k - 1)] = s[i + 1]
        BY <1>5, <3>1
      <3> QED
        BY <2>2, <3>2, <3>3
    <2> QED
      BY <2>1, <2>2
  <1> HIDE DEF q
  <1>8. \A i, j \in 1..n : s[i] = s[j] => i = j
    BY DEF ListOK, n
  <1>9. n > 1
    BY DEF n
  <1>10. ListOK(q)
    <2>1. \A i, j \in 1..(n - 1) : q[i] = q[j] => i = j
      BY <1>1, <1>2, <1>7, <1>8
    <2>2. q # <<>>
      BY <1>1, <1>6, <1>9
    <2> QED
      BY <1>6, <2>1, <2>2 DEF ListOK
  <1>11. ToSet(q) = ToSet(s) \ {u}
    <2>1. ASSUME NEW i \in 1..(n - 1)
          PROVE  (\E j \in 1..n : s[j] = q[i]) /\ q[i] # u
      BY <1>1, <1>2, <1>7, <1>8
    <2>2. ASSUME NEW j \in 1..n, s[j] # u
          PROVE  \E i \in 1..(n - 1) : q[i] = s[j]
      <3>1. CASE j < k
        <4>1. j \in 1..(n - 1) /\ q[j] = s[j]
          BY <1>1, <1>2, <1>7, <3>1
        <4> QED
          BY <4>1
      <3>2. CASE j > k
        <4>1. j - 1 \in 1..(n - 1) /\ ~(j - 1 < k) /\ (j - 1) + 1 = j
          BY <1>1, <1>2, <3>2
        <4>2. q[j - 1] = s[j]
          BY <1>7, <4>1
        <4> QED
          BY <4>1, <4>2
      <3> QED
        BY <1>1, <1>2, <2>2, <3>1, <3>2
    <2>3. ToSet(s) = {s[i] : i \in 1..n} /\ ToSet(q) = {q[i] : i \in 1..(n - 1)}
      BY <1>6 DEF ToSet, n
    <2> QED
      BY <2>1, <2>2, <2>3
  <1> QED
    BY <1>3, <1>6, <1>10, <1>11 DEF n

LEMMA AppendFacts ==
    ASSUME NEW s \in Seq(Users), ListOK(s), NEW u \in Users, u \notin ToSet(s)
    PROVE  LET q == Append(s, u)
           IN  q \in Seq(Users) /\ ListOK(q) /\ ToSet(q) = ToSet(s) \cup {u} /\ Head(q) = Head(s)
  <1> DEFINE n == Len(s)
             q == Append(s, u)
  <1>1. n \in Nat /\ q \in Seq(Users) /\ Len(q) = n + 1
    OBVIOUS
  <1>2. q[n + 1] = u /\ \A i \in 1..n : q[i] = s[i]
    OBVIOUS
  <1>3. ToSet(s) = {s[i] : i \in 1..n} /\ ToSet(q) = {q[i] : i \in 1..(n + 1)}
    BY <1>1 DEF ToSet
  <1>4. n > 0 /\ \A i, j \in 1..n : s[i] = s[j] => i = j
    BY <1>1 DEF ListOK
  <1> HIDE DEF n, q
  <1>5. \A i, j \in 1..(n + 1) : q[i] = q[j] => i = j
    <2>1. \A i \in 1..n : s[i] # u
      BY <1>3
    <2> QED
      BY <1>1, <1>2, <1>4, <2>1
  <1>6. ListOK(q)
    BY <1>1, <1>5 DEF ListOK
  <1>7. ToSet(q) = ToSet(s) \cup {u}
    BY <1>1, <1>2, <1>3
  <1>8. Head(q) = Head(s)
    BY <1>1, <1>2, <1>4 DEF n, q
  <1> QED
    BY <1>1, <1>6, <1>7, <1>8 DEF q

LEMMA HeadFacts ==
    ASSUME NEW s \in Seq(Users), ListOK(s)
    PROVE  Head(s) \in ToSet(s) /\ ToSet(s) \subseteq Users /\ Len(s) > 0
  BY DEF ListOK, ToSet

LEMMA AfterAppend ==
    ASSUME NEW S, NEW q \in Seq(S), NEW t \in Seq(S), NEW n \in Nat, n <= Len(q)
    PROVE  After(q \o t, n) = After(q, n) \cup ToSet(t)
  <1> DEFINE r == q \o t
  <1>1. /\ Len(q) \in Nat /\ Len(t) \in Nat /\ Len(r) = Len(q) + Len(t)
        /\ \A i \in 1..Len(q) : r[i] = q[i]
        /\ \A i \in 1..Len(t) : r[Len(q) + i] = t[i]
    OBVIOUS
  <1> HIDE DEF r
  <1>2. ASSUME NEW i \in 1..Len(r), i > n
        PROVE  r[i] \in After(q, n) \cup ToSet(t)
    <2>1. CASE i <= Len(q)
      <3>1. i \in 1..Len(q) /\ r[i] = q[i]
        BY <1>1, <2>1
      <3> QED
        BY <1>2, <3>1 DEF After
    <2>2. CASE i > Len(q)
      <3>1. i - Len(q) \in 1..Len(t) /\ Len(q) + (i - Len(q)) = i
        BY <1>1, <2>2
      <3>2. r[i] = t[i - Len(q)]
        BY <1>1, <3>1
      <3> QED
        BY <3>1, <3>2 DEF ToSet
    <2> QED
      BY <1>1, <2>1, <2>2
  <1>3. ASSUME NEW i \in 1..Len(q), i > n
        PROVE  q[i] \in After(r, n)
    <2>1. i \in 1..Len(r) /\ r[i] = q[i]
      BY <1>1
    <2> QED
      BY <1>3, <2>1 DEF After
  <1>4. ASSUME NEW i \in 1..Len(t)
        PROVE  t[i] \in After(r, n)
    <2>1. Len(q) + i \in 1..Len(r) /\ Len(q) + i > n /\ r[Len(q) + i] = t[i]
      BY <1>1
    <2> QED
      BY <2>1 DEF After
  <1>5. ToSet(t) = {t[i] : i \in 1..Len(t)}
    BY <1>1 DEF ToSet
  <1>6. After(r, n) \subseteq After(q, n) \cup ToSet(t)
    BY <1>2 DEF After
  <1>7. After(q, n) \cup ToSet(t) \subseteq After(r, n)
    BY <1>3, <1>4, <1>5 DEF After
  <1>8. After(r, n) = After(q, n) \cup ToSet(t)
    BY <1>6, <1>7
  <1> QED
    BY <1>8 DEF r

LEMMA AfterTail ==
    ASSUME NEW S, NEW q \in Seq(S), q # <<>>
    PROVE  /\ \A n \in Nat : After(Tail(q), n) = After(q, n + 1)
           /\ After(q, 0) = {Head(q)} \cup After(q, 1)
           /\ Head(q) \in S /\ Head(q) = q[1]
  <1> DEFINE r == Tail(q)
  <1>1. /\ Len(q) \in Nat /\ Len(q) > 0 /\ Len(r) = Len(q) - 1
        /\ \A i \in 1..Len(r) : r[i] = q[i + 1]
        /\ Head(q) = q[1] /\ Head(q) \in S
    OBVIOUS
  <1> HIDE DEF r
  <1>2. ASSUME NEW n \in Nat
        PROVE  After(r, n) = After(q, n + 1)
    <2>1. ASSUME NEW i \in 1..Len(r), i > n
          PROVE  r[i] \in After(q, n + 1)
      <3>1. i + 1 \in 1..Len(q) /\ i + 1 > n + 1 /\ r[i] = q[i + 1]
        BY <1>1, <2>1
      <3> QED
        BY <3>1 DEF After
    <2>2. ASSUME NEW i \in 1..Len(q), i > n + 1
          PROVE  q[i] \in After(r, n)
      <3>1. i - 1 \in 1..Len(r) /\ i - 1 > n /\ (i - 1) + 1 = i
        BY <1>1, <2>2
      <3>2. r[i - 1] = q[i]
        BY <1>1, <3>1
      <3> QED
        BY <3>1, <3>2 DEF After
    <2> QED
      BY <2>1, <2>2 DEF After
  <1>3. After(q, 0) = {q[1]} \cup After(q, 1)
    <2>1. ASSUME NEW i \in 1..Len(q)
          PROVE  q[i] \in {q[1]} \cup After(q, 1)
      <3>1. CASE i = 1
        BY <3>1
      <3>2. CASE i # 1
        BY <3>2 DEF After
      <3> QED
        BY <3>1, <3>2
    <2>2. q[1] \in After(q, 0)
      BY <1>1 DEF After
    <2> QED
      BY <2>1, <2>2 DEF After
  <1> QED
    BY <1>1, <1>2, <1>3 DEF r

LEMMA AfterLess ==
    ASSUME NEW q, NEW m \in Nat, NEW n \in Nat, m <= n
    PROVE  After(q, n) \subseteq After(q, m)
  BY DEF After

-----------------------------------------------------------------------------
(* Types, and who stays.                                                   *)

LEMMA InitialLists ==
    ASSUME NEW ps \in SetToAllKPermutations(Users) \ {<<>>}
    PROVE  ps \in Seq(Users) /\ ListOK(ps)
  <1>1. PICK s \in SUBSET Users : ps \in SetToSeqs(s)
    BY DEF SetToAllKPermutations
  <1> DEFINE n == Cardinality(s)
  <1>2. n \in Nat
    BY LobbyAssumption, FS_Subset, FS_CardinalityType
  <1>3. ps \in [1..n -> s] /\ \A i, j \in 1..n : i # j => ps[i] # ps[j]
    BY <1>1 DEF SetToSeqs
  <1> HIDE DEF n
  <1>4. ps \in Seq(Users) /\ Len(ps) = n
    BY <1>2, <1>3
  <1> QED
    BY <1>3, <1>4 DEF ListOK

LEMMA GameFacts ==
    ASSUME game \in Games
    PROVE  /\ game.state \in States /\ game.players \in Seq(Users) /\ game.spectators \subseteq Users
           /\ game.host \in Users /\ game.options \in Forms /\ game.decks \subseteq Decks
           /\ Players(game) \subseteq Users /\ Members(game) \subseteq Users
  BY DEF Games, Players, Members, ToSet

LEMMA ToldType ==
    ASSUME events \in [Watched -> Seq(Events)], NEW g, NEW t \in Seq(Events)
    PROVE  /\ Told(g, t) \in [Watched -> Seq(Events)]
           /\ \A u \in Watched : Told(g, t)[u] = IF u \in Members(g) THEN events[u] \o t ELSE events[u]
  BY DEF Told

LEMMA NewsType ==
    /\ \A u \in Users, t \in {"join", "leave", "spectatorJoin", "spectatorLeave"} : News(t, u) \in Seq(Events)
    /\ \A d \in Decks, t \in {"addCardset", "removeCardset"} : News(t, d) \in Seq(Events)
    /\ \A s \in States : StateChange(s) \in Seq(Events)
    /\ \A u \in Users : \A g : InfoChange(g, u) \in Seq(Events)
    /\ \A g \in Games : OptionsChanged(g) \in Seq(Events)
  <1>1. ASSUME NEW u \in Users, NEW t \in {"join", "leave", "spectatorJoin", "spectatorLeave"}
        PROVE  [type |-> t, who |-> u] \in Events
    BY DEF Events
  <1>2. ASSUME NEW d \in Decks, NEW t \in {"addCardset", "removeCardset"}
        PROVE  [type |-> t, who |-> d] \in Events
    BY DEF Events
  <1>3. ASSUME NEW s \in States
        PROVE  [type |-> "state", state |-> s] \in Events
    BY DEF Events
  <1>4. ASSUME NEW g, NEW u \in Users
        PROVE  [type |-> "info", who |-> u, host |-> g.state = "LOBBY" /\ g.host = u] \in Events
    BY DEF Events
  <1>5. ASSUME NEW g \in Games
        PROVE  [type |-> "options", info |-> g] \in Events
    BY DEF Events
  <1> HIDE DEF Events
  <1> QED
    BY <1>1, <1>2, <1>3, <1>4, <1>5 DEF News, StateChange, InfoChange, OptionsChanged

LEMMA RequestType ==
    ASSUME NEW u \in Watched, NEW op \in Ops, NEW form \in Forms \cup {None},
           NEW field \in Fields \cup {None},
           op = "CHANGE_GAME_OPTIONS" => form \in Forms /\ field \in Fields
    PROVE  RequestOK(Request(u, op, form, field))
  BY DEF RequestOK, Request, Requests

LEMMA UpdateGameStatusType ==
    ASSUME NEW p \in Pages, NEW u, NEW g \in Games
    PROVE  UpdateGameStatus(p, u, g) \in Pages
  <1> DEFINE a == g.host = u /\ g.state = "LOBBY"
             b == g.host = u /\ g.state # "LOBBY"
             q == [p EXCEPT !.host = g.host, !.form = g.options, !.start = a, !.stop = b]
             c == q.host = u /\ q.state = "LOBBY"
  <1>1. a \in BOOLEAN /\ b \in BOOLEAN /\ c \in BOOLEAN
    OBVIOUS
  <1>2. UpdateGameStatus(p, u, g) = IF g.state = "LOBBY" THEN [q EXCEPT !.shown = TRUE, !.enabled = c]
                                                        ELSE [q EXCEPT !.shown = FALSE]
    BY DEF UpdateGameStatus, ShowOptions, HideOptions
  <1> HIDE DEF a, b, c
  <1>3. q \in Pages
    BY <1>1 DEF Pages, Games
  <1> HIDE DEF q
  <1>4. [q EXCEPT !.shown = TRUE, !.enabled = c] \in Pages /\ [q EXCEPT !.shown = FALSE] \in Pages
    BY <1>1, <1>3 DEF Pages
  <1> QED
    BY <1>2, <1>4

LEMMA ShowType ==
    ASSUME NEW p \in Pages, NEW u
    PROVE  ShowOptions(p, u) \in Pages /\ HideOptions(p) \in Pages
  <1> DEFINE c == p.host = u /\ p.state = "LOBBY"
  <1>1. c \in BOOLEAN
    OBVIOUS
  <1> HIDE DEF c
  <1>2. [p EXCEPT !.shown = TRUE, !.enabled = c] \in Pages /\ [p EXCEPT !.shown = FALSE] \in Pages
    BY <1>1 DEF Pages
  <1> QED
    BY <1>2 DEF c, ShowOptions, HideOptions

LEMMA EventKinds ==
    ASSUME NEW e \in Events
    PROVE  /\ e.type \in {"join", "leave", "spectatorJoin", "spectatorLeave", "info", "state",
                          "options", "addCardset", "removeCardset"}
           /\ e.type \in {"join", "leave", "spectatorJoin", "spectatorLeave", "info"} => e.who \in Users
           /\ e.type = "info" => e.host \in BOOLEAN
           /\ e.type = "state" => e.state \in States
           /\ e.type = "options" => e.info \in Games
           /\ e.type \in {"addCardset", "removeCardset"} => e.who \in Decks
  BY DEF Events

LEMMA HandledPeople ==
    ASSUME NEW p \in Pages, NEW u, NEW e
    PROVE  /\ e.type = "join" => Handled(p, u, e) = p
           /\ e.type \in {"leave", "spectatorLeave"} => Handled(p, u, e) = [p EXCEPT !.panels = @ \ {e.who}]
           /\ e.type = "spectatorJoin" => Handled(p, u, e) = [p EXCEPT !.panels = @ \cup {e.who}]
  BY DEF Handled, WithoutPanel

LEMMA HandledState ==
    ASSUME NEW p \in Pages, NEW u, NEW e, e.type = "state"
    PROVE  /\ e.state = "LOBBY" =>
                Handled(p, u, e) = ShowOptions([p EXCEPT !.state = "LOBBY", !.stop = FALSE], u)
           /\ e.state = "PLAYING" => Handled(p, u, e) = HideOptions([p EXCEPT !.state = "PLAYING"])
  BY DEF Handled

LEMMA HandledOptions ==
    ASSUME NEW p \in Pages, NEW u, NEW e, e.type = "options"
    PROVE  Handled(p, u, e) = [UpdateGameStatus(p, u, e.info) EXCEPT !.panels = @ \cup e.info.spectators]
  BY DEF Handled

LEMMA HandledDeck ==
    ASSUME NEW p \in Pages, NEW u, NEW e
    PROVE  /\ e.type = "addCardset" =>
                Handled(p, u, e) = [p EXCEPT !.decks = [p.decks EXCEPT ![e.who] = @ + 1]]
           /\ e.type = "removeCardset" =>
                Handled(p, u, e) = [p EXCEPT !.decks = [p.decks EXCEPT ![e.who] = 0]]
  BY DEF Handled, Pages

LEMMA HandledType ==
    ASSUME NEW p \in Pages, NEW u, NEW e \in Events
    PROVE  Handled(p, u, e) \in Pages
  <1>1. CASE e.type = "join"
    BY <1>1, HandledPeople
  <1>2. CASE e.type \in {"leave", "spectatorLeave"}
    BY <1>2, HandledPeople, EventKinds DEF Pages
  <1>3. CASE e.type = "spectatorJoin"
    BY <1>3, HandledPeople, EventKinds DEF Pages
  <1>4. CASE e.type = "info"
    <2> DEFINE b == p.start \/ (e.who = u /\ e.host)
    <2>1. b \in BOOLEAN /\ (b <=> p.start \/ (e.who = u /\ e.host))
      OBVIOUS
    <2> HIDE DEF b
    <2>2. Handled(p, u, e) = [p EXCEPT !.panels = @ \cup {e.who}, !.start = b]
      BY <1>4, <2>1 DEF Handled, Pages
    <2>3. e.who \in Users
      BY <1>4, EventKinds
    <2>4. [p EXCEPT !.panels = @ \cup {e.who}, !.start = b] \in Pages
      BY <2>1, <2>3 DEF Pages
    <2> QED
      BY <2>2, <2>4
  <1>5. CASE e.type = "state" /\ e.state = "LOBBY"
    <2> DEFINE q == [p EXCEPT !.state = "LOBBY", !.stop = FALSE]
    <2>1. q \in Pages
      BY DEF Pages, States
    <2>2. Handled(p, u, e) = ShowOptions(q, u)
      BY <1>5, HandledState
    <2> HIDE DEF q
    <2> QED
      BY <2>1, <2>2, ShowType
  <1>6. CASE e.type = "state" /\ e.state = "PLAYING"
    <2> DEFINE q == [p EXCEPT !.state = "PLAYING"]
    <2>1. q \in Pages
      BY DEF Pages, States
    <2>2. Handled(p, u, e) = HideOptions(q)
      BY <1>6, HandledState
    <2> HIDE DEF q
    <2> QED
      BY <2>1, <2>2, ShowType
  <1>7. CASE e.type = "options"
    <2>1. e.info \in Games /\ e.info.spectators \subseteq Users
      BY <1>7, EventKinds DEF Games
    <2>2. UpdateGameStatus(p, u, e.info) \in Pages
      BY <2>1, UpdateGameStatusType
    <2>3. Handled(p, u, e) = [UpdateGameStatus(p, u, e.info) EXCEPT !.panels = @ \cup e.info.spectators]
      BY <1>7, HandledOptions
    <2> QED
      BY <2>1, <2>2, <2>3 DEF Pages
  <1>8. CASE e.type \in {"addCardset", "removeCardset"}
    <2>1. p.decks \in [Decks -> Nat] /\ e.who \in Decks
      BY <1>8, EventKinds DEF Pages
    <2>2. [p.decks EXCEPT ![e.who] = @ + 1] \in [Decks -> Nat] /\ [p.decks EXCEPT ![e.who] = 0] \in [Decks -> Nat]
      BY <2>1
    <2>3. \/ Handled(p, u, e) = [p EXCEPT !.decks = [p.decks EXCEPT ![e.who] = @ + 1]]
          \/ Handled(p, u, e) = [p EXCEPT !.decks = [p.decks EXCEPT ![e.who] = 0]]
      BY <1>8, HandledDeck
    <2> QED
      BY <2>2, <2>3 DEF Pages
  <1> QED
    BY <1>1, <1>2, <1>3, <1>4, <1>5, <1>6, <1>7, <1>8, EventKinds DEF States

LEMMA NewPageType == NewPage \in Pages /\ Closed \in Pages
  <1>1. [f \in Fields |-> Default] \in Forms /\ [d \in Decks |-> 0] \in [Decks -> Nat]
    BY LobbyAssumption DEF Forms
  <1>2. NewPage \in Pages
    BY <1>1 DEF NewPage, Pages, States
  <1> HIDE DEF NewPage
  <1> QED
    BY <1>2 DEF Closed, Pages

-----------------------------------------------------------------------------
(* What the steps of the server do.                                        *)

SameBut(g, h, fields) ==
    /\ "players" \notin fields => h.players = g.players
    /\ "spectators" \notin fields => h.spectators = g.spectators
    /\ "state" \notin fields => h.state = g.state
    /\ "host" \notin fields => h.host = g.host
    /\ "options" \notin fields => h.options = g.options
    /\ "decks" \notin fields => h.decks = g.decks

\* The game becomes h, and all in it are told t.
Announced(h, t) ==
    /\ h \in Games /\ ListOK(h.players) /\ t \in Seq(Events)
    /\ game' = h /\ events' = Told(h, t)

LEMMA SlipFacts ==
    ASSUME NEW names, Slip(names), slips \subseteq Races
    PROVE  slips' \subseteq Races /\ slips \subseteq slips' /\ names \subseteq slips'
  BY DEF Slip

LEMMA ToldNothing ==
    ASSUME TypeOK, NEW g
    PROVE  Told(g, <<>>) = events
  <1>1. events \in [Watched -> Seq(Events)]
    BY DEF TypeOK
  <1>2. ASSUME NEW u \in Watched
        PROVE  events[u] \o <<>> = events[u]
    <2>1. events[u] \in Seq(Events)
      BY <1>1
    <2> QED
      BY <2>1
  <1> QED
    BY <1>1, <1>2 DEF Told

LEMMA JoinFacts ==
    ASSUME Base, NEW u \in Users, JoinGame(u)
    PROVE  /\ \E h, t : Announced(h, t) /\ t = News("join", u)
           /\ SameBut(game, game', {"players"}) /\ Players(game') = Players(game) \cup {u}
           /\ u \notin Members(game) \cup Leaving /\ (u \in Watched => ~page[u].open)
           /\ UNCHANGED <<halfway, inFlight, page>>
           /\ Slip(If("soonBack", SoonBack(u)))
  <1>0. game \in Games /\ ListOK(game.players)
    BY DEF Base, TypeOK
  <1>1. /\ u \notin Members(game) \cup Leaving /\ (u \in Watched => ~page[u].open)
        /\ game' = [game EXCEPT !.players = Append(@, u)]
        /\ events' = Told(game', News("join", u))
        /\ UNCHANGED <<halfway, inFlight, page>>
        /\ Slip(If("soonBack", SoonBack(u)))
    BY DEF JoinGame
  <1> DEFINE q == Append(game.players, u)
  <1>2. game.players \in Seq(Users) /\ u \notin ToSet(game.players)
    BY <1>0, <1>1, GameFacts DEF Members, Players
  <1>3. q \in Seq(Users) /\ ListOK(q) /\ ToSet(q) = ToSet(game.players) \cup {u}
    BY <1>0, <1>2, AppendFacts
  <1> HIDE DEF q
  <1>4. game' = [game EXCEPT !.players = q]
    BY <1>1 DEF q
  <1>5. game' \in Games /\ game'.players = q
    BY <1>0, <1>3, <1>4 DEF Games
  <1>6. SameBut(game, game', {"players"})
    BY <1>0, <1>4 DEF Games, SameBut
  <1>7. Players(game') = Players(game) \cup {u}
    BY <1>3, <1>5 DEF Players
  <1>8. Announced(game', News("join", u))
    BY <1>1, <1>3, <1>5, NewsType DEF Announced
  <1> QED
    BY <1>1, <1>6, <1>7, <1>8

LEMMA SpectateFacts ==
    ASSUME Base, NEW u \in Users, SpectateGame(u)
    PROVE  /\ \E h, t : Announced(h, t) /\ t = News("spectatorJoin", u)
           /\ SameBut(game, game', {"spectators"}) /\ game'.spectators = game.spectators \cup {u}
           /\ u \notin Members(game) \cup Leaving /\ (u \in Watched => ~page[u].open)
           /\ UNCHANGED <<halfway, inFlight, page>>
           /\ Slip(If("soonBack", SoonBack(u)))
  <1>0. game \in Games /\ ListOK(game.players)
    BY DEF Base, TypeOK
  <1>1. /\ u \notin Members(game) \cup Leaving /\ (u \in Watched => ~page[u].open)
        /\ game' = [game EXCEPT !.spectators = @ \cup {u}]
        /\ events' = Told(game', News("spectatorJoin", u))
        /\ UNCHANGED <<halfway, inFlight, page>>
        /\ Slip(If("soonBack", SoonBack(u)))
    BY DEF SpectateGame
  <1>2. game' \in Games /\ game'.players = game.players /\ game'.spectators = game.spectators \cup {u}
    BY <1>0, <1>1 DEF Games
  <1>3. SameBut(game, game', {"spectators"})
    BY <1>0, <1>1 DEF Games, SameBut
  <1>4. Announced(game', News("spectatorJoin", u))
    BY <1>0, <1>1, <1>2, NewsType DEF Announced
  <1> QED
    BY <1>1, <1>2, <1>3, <1>4

LEMMA LeaveSpectatorFacts ==
    ASSUME Base, NEW u \in Users, LeaveSpectator(u)
    PROVE  /\ \E h, t : Announced(h, t) /\ t = News("spectatorLeave", u)
           /\ SameBut(game, game', {"spectators"}) /\ game'.spectators = game.spectators \ {u}
           /\ u \in game.spectators
           /\ UNCHANGED <<halfway, inFlight, page, slips>>
  <1>0. game \in Games /\ ListOK(game.players)
    BY DEF Base, TypeOK
  <1>1. /\ u \in game.spectators
        /\ game' = [game EXCEPT !.spectators = @ \ {u}]
        /\ events' = Told(game', News("spectatorLeave", u))
        /\ UNCHANGED <<halfway, inFlight, page, slips>>
    BY DEF LeaveSpectator
  <1>2. game' \in Games /\ game'.players = game.players /\ game'.spectators = game.spectators \ {u}
    BY <1>0, <1>1 DEF Games
  <1>3. SameBut(game, game', {"spectators"})
    BY <1>0, <1>1 DEF Games, SameBut
  <1>4. Announced(game', News("spectatorLeave", u))
    BY <1>0, <1>1, <1>2, NewsType DEF Announced
  <1> QED
    BY <1>1, <1>2, <1>3, <1>4

LEMMA LeaveFacts ==
    ASSUME Base, NEW u \in Users, LeaveGame(u)
    PROVE  /\ \E h, t : Announced(h, t) /\ t = News("leave", u)
           /\ SameBut(game, game', {"players"}) /\ Players(game') = Players(game) \ {u}
           /\ u \in Players(game)
           /\ halfway' = halfway \cup {[task |-> "leave", user |-> u]}
           /\ UNCHANGED <<inFlight, page, slips>>
  <1>0. game \in Games /\ ListOK(game.players)
    BY DEF Base, TypeOK
  <1>1. /\ u \in Players(game) /\ Len(game.players) > 1
        /\ game' = [game EXCEPT !.players = Without(@, u)]
        /\ events' = Told(game', News("leave", u))
        /\ halfway' = halfway \cup {[task |-> "leave", user |-> u]}
        /\ UNCHANGED <<inFlight, page, slips>>
    BY DEF LeaveGame
  <1> DEFINE q == Without(game.players, u)
  <1>2. game.players \in Seq(Users) /\ u \in ToSet(game.players)
    BY <1>0, <1>1, GameFacts DEF Players
  <1>3. q \in Seq(Users) /\ ListOK(q) /\ ToSet(q) = ToSet(game.players) \ {u}
    BY <1>0, <1>1, <1>2, WithoutFacts
  <1> HIDE DEF q
  <1>4. game' = [game EXCEPT !.players = q]
    BY <1>1 DEF q
  <1>5. game' \in Games /\ game'.players = q
    BY <1>0, <1>3, <1>4 DEF Games
  <1>6. SameBut(game, game', {"players"})
    BY <1>0, <1>4 DEF Games, SameBut
  <1>7. Players(game') = Players(game) \ {u}
    BY <1>3, <1>5 DEF Players
  <1>8. Announced(game', News("leave", u))
    BY <1>1, <1>3, <1>5, NewsType DEF Announced
  <1> QED
    BY <1>1, <1>6, <1>7, <1>8

\* The game g goes back to the lobby.
LEMMA ResetFacts ==
    ASSUME TypeOK, NEW g \in Games, ListOK(g.players), Reset(g)
    PROVE  /\ \E h, t : Announced(h, t) /\ t = StateChange("LOBBY") \o InfoChange(h, h.host)
           /\ SameBut(g, game', {"state"}) /\ game'.state = "LOBBY"
           /\ Slip(If("lateHost", HostIsGone(g)))
  <1>1. /\ game' = [g EXCEPT !.state = "LOBBY"]
        /\ events' = Told(game', StateChange("LOBBY") \o InfoChange(game', g.host))
        /\ Slip(If("lateHost", HostIsGone(g)))
    BY DEF Reset
  <1>2. game' \in Games /\ game'.state = "LOBBY" /\ game'.players = g.players /\ game'.host = g.host
    BY <1>1 DEF Games, States
  <1>3. SameBut(g, game', {"state"})
    BY <1>1 DEF Games, SameBut
  <1>4. g.host \in Users
    BY DEF Games
  <1>5. StateChange("LOBBY") \in Seq(Events) /\ InfoChange(game', g.host) \in Seq(Events)
    BY <1>4, NewsType DEF States
  <1>6. StateChange("LOBBY") \o InfoChange(game', g.host) \in Seq(Events)
    BY <1>5, ConcatProperties
  <1>7. Announced(game', StateChange("LOBBY") \o InfoChange(game', game'.host))
    BY <1>1, <1>2, <1>6 DEF Announced
  <1> QED
    BY <1>1, <1>2, <1>3, <1>7

\* The host is replaced if it is the one that has left.
HostAfter(h) == IF game.host = h.user THEN Head(game.players) ELSE game.host

LEMMA FinishLeavingFacts ==
    ASSUME Base, NEW h \in halfway, FinishLeaving(h)
    PROVE  /\ h.task = "leave" /\ h.user \in Users /\ halfway' = halfway \ {h}
           /\ HostAfter(h) \in Users
           /\ game'.host = HostAfter(h)
           /\ UNCHANGED <<inFlight, page>>
           /\ \/ /\ \E g, t : Announced(g, t) /\ t = <<>>
                 /\ SameBut(game, game', {"host"}) /\ slips' = slips
              \/ /\ \E g, t : Announced(g, t) /\ t = StateChange("LOBBY") \o InfoChange(g, g.host)
                 /\ SameBut(game, game', {"host", "state"})
                 /\ game.state # "LOBBY" /\ game'.state = "LOBBY"
                 /\ Slip(If("lateHost", HostAfter(h) \notin Players(game)))
  <1>0. TypeOK /\ game \in Games /\ ListOK(game.players) /\ h \in Tasks
    BY DEF Base, TypeOK
  <1> DEFINE g == [game EXCEPT !.host = HostAfter(h)]
             k == IF game.host = h.user THEN [game EXCEPT !.host = Head(game.players)] ELSE game
  <1>1. /\ h.task = "leave" /\ halfway' = halfway \ {h} /\ UNCHANGED <<inFlight, page>>
        /\ IF Len(k.players) < 3 /\ k.state # "LOBBY"
             THEN Reset(k)
             ELSE game' = k /\ UNCHANGED <<events, slips>>
    BY DEF FinishLeaving
  <1>2. h.user \in Users
    BY <1>0, <1>1, LobbyAssumption DEF Tasks
  <1>3. HostAfter(h) \in Users
    BY <1>0, HeadFacts, GameFacts DEF HostAfter
  <1>4. g \in Games /\ g.players = game.players /\ g.host = HostAfter(h) /\ g.state = game.state
        /\ g.spectators = game.spectators /\ g.options = game.options /\ g.decks = game.decks
    BY <1>0, <1>3 DEF Games
  <1>5. k = g
    <2>1. game = [game EXCEPT !.host = game.host]
      BY <1>0 DEF Games
    <2> QED
      BY <2>1 DEF HostAfter
  <1>6. IF Len(g.players) < 3 /\ g.state # "LOBBY"
          THEN Reset(g)
          ELSE game' = g /\ UNCHANGED <<events, slips>>
    BY <1>1, <1>5
  <1>7. SameBut(game, g, {"host"})
    BY <1>4 DEF SameBut
  <1> HIDE DEF g, k
  <1>8. CASE Len(g.players) < 3 /\ g.state # "LOBBY"
    <2>1. Reset(g)
      BY <1>6, <1>8
    <2>2. /\ \E x, t : Announced(x, t) /\ t = StateChange("LOBBY") \o InfoChange(x, x.host)
          /\ SameBut(g, game', {"state"}) /\ game'.state = "LOBBY"
          /\ Slip(If("lateHost", HostIsGone(g)))
      BY <1>0, <1>4, <2>1, ResetFacts
    <2>3. SameBut(game, game', {"host", "state"}) /\ game'.host = HostAfter(h)
      BY <1>4, <1>7, <2>2 DEF SameBut
    <2>4. HostIsGone(g) <=> HostAfter(h) \notin Players(game)
      BY <1>4 DEF HostIsGone, Players
    <2>5. If("lateHost", HostIsGone(g)) = If("lateHost", HostAfter(h) \notin Players(game))
      BY <2>4 DEF If
    <2> QED
      BY <1>1, <1>2, <1>3, <1>4, <1>8, <2>2, <2>3, <2>5
  <1>9. CASE ~(Len(g.players) < 3 /\ g.state # "LOBBY")
    <2>1. game' = g /\ events' = events /\ slips' = slips
      BY <1>6, <1>9
    <2>2. <<>> \in Seq(Events) /\ Told(g, <<>>) = events
      BY <1>0, ToldNothing
    <2>3. Announced(g, <<>>)
      BY <1>0, <1>4, <2>1, <2>2 DEF Announced
    <2> QED
      BY <1>1, <1>2, <1>3, <1>4, <1>7, <2>1, <2>3
  <1> QED
    BY <1>8, <1>9

LEMMA ChangeHostFacts ==
    ASSUME Base, NEW u \in Users, ChangeHost(u)
    PROVE  /\ \E h, t : /\ Announced(h, t)
                        /\ t = InfoChange(h, game.host) \o InfoChange(h, u) \o OptionsChanged(h)
           /\ SameBut(game, game', {"host"}) /\ game'.host = u
           /\ u \in Players(game) /\ u # game.host
           /\ UNCHANGED <<halfway, inFlight, page>>
           /\ Slip(If("lateHost", HostIsGone(game)))
  <1>0. game \in Games /\ ListOK(game.players)
    BY DEF Base, TypeOK
  <1>1. /\ u \in Players(game) /\ u # game.host
        /\ game' = [game EXCEPT !.host = u]
        /\ events' = Told(game', InfoChange(game', game.host) \o InfoChange(game', u) \o OptionsChanged(game'))
        /\ UNCHANGED <<halfway, inFlight, page>>
        /\ Slip(If("lateHost", HostIsGone(game)))
    BY DEF ChangeHost
  <1>2. game' \in Games /\ game'.players = game.players /\ game'.host = u
    BY <1>0, <1>1 DEF Games
  <1>3. SameBut(game, game', {"host"})
    BY <1>0, <1>1 DEF Games, SameBut
  <1>4. /\ InfoChange(game', game.host) \in Seq(Events) /\ InfoChange(game', u) \in Seq(Events)
        /\ OptionsChanged(game') \in Seq(Events)
    BY <1>0, <1>2, GameFacts, NewsType
  <1>5. InfoChange(game', game.host) \o InfoChange(game', u) \o OptionsChanged(game') \in Seq(Events)
    BY <1>4, ConcatProperties
  <1>6. Announced(game', InfoChange(game', game.host) \o InfoChange(game', u) \o OptionsChanged(game'))
    BY <1>0, <1>1, <1>2, <1>5 DEF Announced
  <1> QED
    BY <1>1, <1>2, <1>3, <1>6

LEMMA StartFacts ==
    ASSUME Base, Start
    PROVE  /\ \E h, t : Announced(h, t) /\ t = StateChange("PLAYING")
           /\ SameBut(game, game', {"state"}) /\ game.state = "LOBBY" /\ game'.state = "PLAYING"
           /\ ~HostIsGone(game)
           /\ UNCHANGED <<halfway, inFlight, page, slips>>
  <1>0. game \in Games /\ ListOK(game.players)
    BY DEF Base, TypeOK
  <1>1. /\ game.state = "LOBBY" /\ ~HostIsGone(game)
        /\ game' = [game EXCEPT !.state = "PLAYING"]
        /\ events' = Told(game', StateChange("PLAYING"))
        /\ UNCHANGED <<halfway, inFlight, page, slips>>
    BY DEF Start
  <1>2. game' \in Games /\ game'.players = game.players /\ game'.state = "PLAYING"
    BY <1>0, <1>1 DEF Games, States
  <1>3. SameBut(game, game', {"state"})
    BY <1>0, <1>1 DEF Games, SameBut
  <1>4. Announced(game', StateChange("PLAYING"))
    BY <1>0, <1>1, <1>2, NewsType DEF Announced, States
  <1> QED
    BY <1>1, <1>2, <1>3, <1>4

LEMMA NextRoundFacts ==
    ASSUME Base, NextRound
    PROVE  /\ \E h, t : Announced(h, t) /\ t = StateChange("PLAYING")
           /\ game' = game /\ game.state = "PLAYING"
           /\ UNCHANGED <<halfway, inFlight, page, slips>>
  <1>0. game \in Games /\ ListOK(game.players)
    BY DEF Base, TypeOK
  <1>1. /\ game.state # "LOBBY" /\ events' = Told(game, StateChange("PLAYING"))
        /\ UNCHANGED <<game, halfway, inFlight, page, slips>>
    BY DEF NextRound
  <1>2. Announced(game', StateChange("PLAYING"))
    BY <1>0, <1>1, NewsType DEF Announced, States
  <1>3. game.state = "PLAYING"
    BY <1>0, <1>1 DEF Games, States
  <1> QED
    BY <1>1, <1>2, <1>3

LEMMA StopFacts ==
    ASSUME Base, Stop
    PROVE  /\ \E h, t : Announced(h, t) /\ t = StateChange("LOBBY") \o InfoChange(h, h.host)
           /\ SameBut(game, game', {"state"}) /\ game.state = "PLAYING" /\ game'.state = "LOBBY"
           /\ UNCHANGED <<halfway, inFlight, page>>
           /\ Slip(If("lateHost", HostIsGone(game)))
  <1>0. TypeOK /\ game \in Games /\ ListOK(game.players)
    BY DEF Base, TypeOK
  <1>1. game.state # "LOBBY" /\ Reset(game) /\ UNCHANGED <<halfway, inFlight, page>>
    BY DEF Stop
  <1>2. game.state = "PLAYING"
    BY <1>0, <1>1 DEF Games, States
  <1> QED
    BY <1>0, <1>1, <1>2, ResetFacts

LEMMA AddCardsetFacts ==
    ASSUME Base, NEW d \in Decks, AddCardset(d)
    PROVE  /\ \E h, t : Announced(h, t) /\ t = News("addCardset", d)
           /\ SameBut(game, game', {"decks"}) /\ d \notin game.decks /\ game'.decks = game.decks \cup {d}
           /\ UNCHANGED <<halfway, inFlight, page, slips>>
  <1>0. game \in Games /\ ListOK(game.players)
    BY DEF Base, TypeOK
  <1>1. /\ d \notin game.decks
        /\ game' = [game EXCEPT !.decks = @ \cup {d}]
        /\ events' = Told(game', News("addCardset", d))
        /\ UNCHANGED <<halfway, inFlight, page, slips>>
    BY DEF AddCardset
  <1>2. game' \in Games /\ game'.players = game.players /\ game'.decks = game.decks \cup {d}
    BY <1>0, <1>1 DEF Games
  <1>3. SameBut(game, game', {"decks"})
    BY <1>0, <1>1 DEF Games, SameBut
  <1>4. Announced(game', News("addCardset", d))
    BY <1>0, <1>1, <1>2, NewsType DEF Announced
  <1> QED
    BY <1>1, <1>2, <1>3, <1>4

LEMMA RemoveCardsetFacts ==
    ASSUME Base, NEW d \in Decks, RemoveCardset(d)
    PROVE  /\ \E h, t : Announced(h, t) /\ t = News("removeCardset", d)
           /\ SameBut(game, game', {"decks"}) /\ game'.decks = game.decks \ {d}
           /\ UNCHANGED <<halfway, inFlight, page, slips>>
  <1>0. game \in Games /\ ListOK(game.players)
    BY DEF Base, TypeOK
  <1>1. /\ game' = [game EXCEPT !.decks = @ \ {d}]
        /\ events' = Told(game', News("removeCardset", d))
        /\ UNCHANGED <<halfway, inFlight, page, slips>>
    BY DEF RemoveCardset
  <1>2. game' \in Games /\ game'.players = game.players /\ game'.decks = game.decks \ {d}
    BY <1>0, <1>1 DEF Games
  <1>3. SameBut(game, game', {"decks"})
    BY <1>0, <1>1 DEF Games, SameBut
  <1>4. Announced(game', News("removeCardset", d))
    BY <1>0, <1>1, <1>2, NewsType DEF Announced
  <1> QED
    BY <1>1, <1>2, <1>3, <1>4

LEMMA UpdateFacts ==
    ASSUME Base, NEW form \in Forms, UpdateGameSettings(form)
    PROVE  /\ \E h, t : Announced(h, t) /\ t = OptionsChanged(h)
           /\ SameBut(game, game', {"options"}) /\ game'.options = form
  <1>0. game \in Games /\ ListOK(game.players)
    BY DEF Base, TypeOK
  <1>1. game' = [game EXCEPT !.options = form] /\ events' = Told(game', OptionsChanged(game'))
    BY DEF UpdateGameSettings
  <1>2. game' \in Games /\ game'.players = game.players /\ game'.options = form
    BY <1>0, <1>1 DEF Games
  <1>3. SameBut(game, game', {"options"})
    BY <1>0, <1>1 DEF Games, SameBut
  <1>4. Announced(game', OptionsChanged(game'))
    BY <1>0, <1>1, <1>2, NewsType DEF Announced
  <1> QED
    BY <1>1, <1>2, <1>3, <1>4

LEMMA FinishChangeFacts ==
    ASSUME Base, NEW h \in halfway, FinishChange(h)
    PROVE  /\ \E g, t : Announced(g, t) /\ t = OptionsChanged(g)
           /\ SameBut(game, game', {"options"}) /\ game'.options = h.form
           /\ h.task = "change" /\ h \in Tasks /\ h.form \in Forms /\ h.field \in Fields
           /\ halfway' = halfway \ {h}
           /\ UNCHANGED <<inFlight, page>>
           /\ Slip(If("lateHost", HostIsGone(game)))
  <1>1. /\ h.task = "change" /\ halfway' = halfway \ {h} /\ UpdateGameSettings(h.form)
        /\ Slip(If("lateHost", HostIsGone(game))) /\ UNCHANGED <<inFlight, page>>
    BY DEF FinishChange
  <1>2. h \in Tasks
    BY DEF Base, TypeOK
  <1>3. h.form \in Forms /\ h.field \in Fields
    BY <1>1, <1>2 DEF Tasks
  <1> QED
    BY <1>1, <1>2, <1>3, UpdateFacts

LEMMA OthersChangeFacts ==
    ASSUME Base, NEW u \in Users \ Watched, NEW f \in Fields, NEW v \in Values, OthersChange(u, f, v)
    PROVE  /\ \E g, t : Announced(g, t) /\ t = OptionsChanged(g)
           /\ SameBut(game, game', {"options"}) /\ game'.options = [game.options EXCEPT ![f] = v]
           /\ u \in Members(game) /\ game.host = u /\ game.state = "LOBBY"
           /\ UNCHANGED <<halfway, inFlight, page>>
           /\ Slip(If("hasty", ChangeUnderWay))
  <1>1. /\ u \in Members(game) /\ game.host = u /\ game.state = "LOBBY"
        /\ UpdateGameSettings([game.options EXCEPT ![f] = v])
        /\ Slip(If("hasty", ChangeUnderWay)) /\ UNCHANGED <<halfway, inFlight, page>>
    BY DEF OthersChange, MayChange
  <1>2. game.options \in Forms
    BY GameFacts DEF Base, TypeOK
  <1>3. [game.options EXCEPT ![f] = v] \in Forms
    BY <1>2 DEF Forms
  <1> QED
    BY <1>1, <1>3, UpdateFacts

-----------------------------------------------------------------------------
(* What a page has heard, and is to hear, of the game.  In all of these g  *)
(* is the game as it is, s the slips, S the events to come.                *)

InOrder(s) == s \cap {"overtaken", "soonBack"} = {}

IsHost(g, u) == g.host = u /\ g.state = "LOBBY"

Somewhere(w, g, S) == w \in Members(g) \/ Leaves(w, S)

\* What x, the game as it was, shows is right, or it is to come what it should be.
FreshForm(u, x, g, S) ==
    /\ x.options = g.options \/ WithOptions(S)
    /\ x.host = u => g.host = u \/ WithOptions(S)
    /\ x.state = "LOBBY" => g.state = "LOBBY" \/ StateComes("PLAYING", S)

FreshPeople(u, x, g, S) ==
    /\ \A w \in Members(x) : Somewhere(w, g, S)
    /\ \A w \in Members(g) : w \in Members(x) \/ Refreshing(u, S)

\* The game is over, and its host will be told to start it.
LobbyComes(u, g, S) == StateComes("LOBBY", S) /\ (g.host = u => HostComes(u, S))

FreshHost(u, x, g, s, S) ==
    "lateHost" \notin s =>
      \/ Renewing(u, S)
      \/ /\ x.host = g.host /\ ~HostIsGone(g)
         /\ x.state = "PLAYING" => g.state = "PLAYING" \/ LobbyComes(u, g, S)

Fresh(u, x, g, s, S) == FreshForm(u, x, g, S) /\ FreshPeople(u, x, g, S) /\ FreshHost(u, x, g, s, S)

\* What the event e says, to be followed by S.
EventOK(u, e, g, s, S) ==
    /\ e.type = "options" => Fresh(u, e.info, g, s, S)
    /\ e.type = "state" /\ e.state = "LOBBY" => g.state = "LOBBY" \/ StateComes("PLAYING", S)
    /\ e.type = "state" /\ e.state = "PLAYING" => g.state = "PLAYING" \/ StateComes("LOBBY", S)
    /\ e.type = "info" =>
          /\ "lateHost" \notin s => Somewhere(e.who, g, S)
          /\ e.who = u /\ e.host => IsHost(g, u) \/ Renewing(u, S)
    /\ e.type \in {"leave", "spectatorLeave"} => e.who # u
    /\ e.type = "spectatorJoin" => Somewhere(e.who, g, S)

EventsOK(u, q, g, s) == \A i \in 1..Len(q) : EventOK(u, q[i], g, s, After(q, i))

\* I: what the page has asked of the game.
AnswersOK(u, I, q, g, s) ==
    \A m \in I : m.answered => m.ahead <= Len(q) /\ Fresh(u, m.data, g, s, After(q, m.ahead))

Renewed(S, I) == WithOptions(S) \/ StateComes("PLAYING", S) \/ I # {}

\* A change of the options that u has sent, of C, or that is half done, of w, will be told.
OwnChange(u, g, C, w) ==
    \/ C # {} /\ IsHost(g, u)
    \/ \E h \in w : h.task = "change" /\ h.user = u

FormOK(u, p, g, s, S, I, C, w) ==
    /\ p.host = u => g.host = u \/ Renewed(S, I)
    /\ p.host = None => I # {}
    /\ "shownInGame" \notin s =>
         /\ p.shown /\ p.enabled => p.host \in {u, None} /\ (g.state = "LOBBY" \/ Renewed(S, I))
         /\ p.form = g.options \/ Renewed(S, I) \/ OwnChange(u, g, C, w)

PeopleOK(u, p, g, s, S, I) ==
    /\ "lateHost" \notin s => \A w \in p.panels : Somewhere(w, g, S)
    /\ \A w \in Members(g) : w \in p.panels \/ I # {} \/ Refreshing(u, S)

ButtonsOK(u, p, g, s, S, I) ==
    /\ p.state = "PLAYING" => g.state = "PLAYING" \/ StateComes("LOBBY", S)
    /\ p.shown /\ p.host # None => (p.enabled <=> p.host = u /\ p.state = "LOBBY")
    /\ "lateHost" \notin s /\ I = {} /\ ~Renewing(u, S) =>
         /\ p.host = g.host /\ ~HostIsGone(g)
         /\ p.start => IsHost(g, u)
         /\ IsHost(g, u) => p.start \/ HostComes(u, S)
         /\ p.stop => g.host = u /\ (g.state = "PLAYING" \/ StateComes("LOBBY", S))
         /\ g.host = u /\ g.state = "PLAYING" => p.stop

-----------------------------------------------------------------------------
(* The game becomes h, and u is told T: what was to be right stays so.     *)

Tells(u, g, h, s, T) ==
    /\ h.options = g.options \/ WithOptions(T)
    /\ g.host = u => h.host = u \/ WithOptions(T)
    /\ g.state = "LOBBY" => h.state = "LOBBY" \/ StateComes("PLAYING", T)
    /\ g.state = "PLAYING" => h.state = "PLAYING" \/ StateComes("LOBBY", T)
    /\ \A w \in Members(g) : Somewhere(w, h, T)
    /\ \A w \in Members(h) : w \in Members(g) \/ Refreshing(u, T)
    /\ "lateHost" \notin s =>
         \/ Renewing(u, T)
         \/ HostIsGone(g)
         \/ /\ h.host = g.host /\ ~HostIsGone(h)
            /\ g.state = "PLAYING" => h.state = "PLAYING" \/ LobbyComes(u, h, T)

LEMMA More ==
    ASSUME NEW S, NEW R, NEW u
    PROVE  /\ WithOptions(S \cup R) <=> WithOptions(S) \/ WithOptions(R)
           /\ Refreshing(u, S \cup R) <=> Refreshing(u, S) \/ Refreshing(u, R)
           /\ Renewing(u, S \cup R) <=> Renewing(u, S) \/ Renewing(u, R)
           /\ \A x : StateComes(x, S \cup R) <=> StateComes(x, S) \/ StateComes(x, R)
           /\ HostComes(u, S \cup R) <=> HostComes(u, S) \/ HostComes(u, R)
           /\ \A w : Leaves(w, S \cup R) <=> Leaves(w, S) \/ Leaves(w, R)
  <1>1. WithOptions(S \cup R) <=> WithOptions(S) \/ WithOptions(R)
    BY DEF WithOptions
  <1>2. Refreshing(u, S \cup R) <=> Refreshing(u, S) \/ Refreshing(u, R)
    BY DEF Refreshing
  <1>3. Renewing(u, S \cup R) <=> Renewing(u, S) \/ Renewing(u, R)
    BY <1>1, <1>2 DEF Renewing
  <1>4. ASSUME NEW x
        PROVE  StateComes(x, S \cup R) <=> StateComes(x, S) \/ StateComes(x, R)
    BY DEF StateComes
  <1>5. HostComes(u, S \cup R) <=> HostComes(u, S) \/ HostComes(u, R)
    BY DEF HostComes
  <1>6. ASSUME NEW w
        PROVE  Leaves(w, S \cup R) <=> Leaves(w, S) \/ Leaves(w, R)
    BY DEF Leaves
  <1> QED
    BY <1>1, <1>2, <1>3, <1>4, <1>5, <1>6

\* When a game goes on, the page asks.
LEMMA PlayingRenews ==
    ASSUME NEW S, NEW u, StateComes("PLAYING", S)
    PROVE  Refreshing(u, S) /\ Renewing(u, S)
  BY DEF StateComes, Refreshing, Refreshes, Renewing

LEMMA FreshTold ==
    ASSUME NEW u, NEW x \in Games, NEW g \in Games, NEW h \in Games, NEW s, NEW r, s \subseteq r, NEW S, NEW T,
           Fresh(u, x, g, s, S), Tells(u, g, h, r, T)
    PROVE  Fresh(u, x, h, r, S \cup T)
  <1> DEFINE R == S \cup T
  <1>1. /\ WithOptions(R) <=> WithOptions(S) \/ WithOptions(T)
        /\ Refreshing(u, R) <=> Refreshing(u, S) \/ Refreshing(u, T)
        /\ Renewing(u, R) <=> Renewing(u, S) \/ Renewing(u, T)
        /\ StateComes("LOBBY", R) <=> StateComes("LOBBY", S) \/ StateComes("LOBBY", T)
        /\ StateComes("PLAYING", R) <=> StateComes("PLAYING", S) \/ StateComes("PLAYING", T)
        /\ HostComes(u, R) <=> HostComes(u, S) \/ HostComes(u, T)
        /\ \A w : Leaves(w, R) <=> Leaves(w, S) \/ Leaves(w, T)
    BY More
  <1> HIDE DEF R
  <1>0. g.state \in {"LOBBY", "PLAYING"} /\ x.state \in {"LOBBY", "PLAYING"}
    BY DEF Games, States
  <1>2. FreshForm(u, x, h, R)
    BY <1>0, <1>1 DEF Fresh, FreshForm, Tells
  <1>3. FreshPeople(u, x, h, R)
    BY <1>1 DEF Fresh, FreshPeople, Tells, Somewhere
  <1>4. FreshHost(u, x, h, r, R)
    <2> SUFFICES ASSUME "lateHost" \notin r, ~Renewing(u, R)
                 PROVE  /\ x.host = h.host /\ ~HostIsGone(h)
                        /\ x.state = "PLAYING" => h.state = "PLAYING" \/ LobbyComes(u, h, R)
      BY DEF FreshHost
    <2>1. /\ x.host = g.host /\ ~HostIsGone(g)
          /\ x.state = "PLAYING" => g.state = "PLAYING" \/ LobbyComes(u, g, S)
      BY <1>1 DEF Fresh, FreshHost
    <2>2. /\ h.host = g.host /\ ~HostIsGone(h)
          /\ g.state = "PLAYING" => h.state = "PLAYING" \/ LobbyComes(u, h, T)
      BY <1>1, <2>1 DEF Tells
    <2> QED
      BY <1>1, <2>1, <2>2 DEF LobbyComes
  <1>5. Fresh(u, x, h, r, R)
    BY <1>2, <1>3, <1>4 DEF Fresh
  <1> QED
    BY <1>5 DEF R

LEMMA EventTold ==
    ASSUME NEW u, NEW e \in Events, NEW g \in Games, NEW h \in Games, NEW s, NEW r, s \subseteq r, NEW S, NEW T,
           EventOK(u, e, g, s, S), Tells(u, g, h, r, T)
    PROVE  EventOK(u, e, h, r, S \cup T)
  <1> DEFINE R == S \cup T
  <1>1. /\ WithOptions(R) <=> WithOptions(S) \/ WithOptions(T)
        /\ Renewing(u, R) <=> Renewing(u, S) \/ Renewing(u, T)
        /\ StateComes("LOBBY", R) <=> StateComes("LOBBY", S) \/ StateComes("LOBBY", T)
        /\ StateComes("PLAYING", R) <=> StateComes("PLAYING", S) \/ StateComes("PLAYING", T)
        /\ \A w : Leaves(w, R) <=> Leaves(w, S) \/ Leaves(w, T)
    BY More
  <1>2. e.type = "options" => Fresh(u, e.info, h, r, R)
    BY FreshTold, EventKinds DEF EventOK
  <1> HIDE DEF R
  <1>3. \A w : Somewhere(w, g, S) => Somewhere(w, h, R)
    BY <1>1 DEF Tells, Somewhere
  <1>4. IsHost(g, u) => IsHost(h, u) \/ Renewing(u, T)
    <2>1. WithOptions(T) => Renewing(u, T)
      BY DEF Renewing
    <2>2. StateComes("PLAYING", T) => Renewing(u, T)
      BY PlayingRenews
    <2> QED
      BY <2>1, <2>2 DEF Tells, IsHost
  <1>5. e.type = "state" /\ e.state = "LOBBY" => h.state = "LOBBY" \/ StateComes("PLAYING", R)
    BY <1>1 DEF EventOK, Tells
  <1>6. e.type = "state" /\ e.state = "PLAYING" => h.state = "PLAYING" \/ StateComes("LOBBY", R)
    BY <1>1 DEF EventOK, Tells
  <1>7. e.type = "info" =>
          /\ "lateHost" \notin r => Somewhere(e.who, h, R)
          /\ e.who = u /\ e.host => IsHost(h, u) \/ Renewing(u, R)
    BY <1>1, <1>3, <1>4 DEF EventOK
  <1>8. /\ e.type \in {"leave", "spectatorLeave"} => e.who # u
        /\ e.type = "spectatorJoin" => Somewhere(e.who, h, R)
    BY <1>3 DEF EventOK
  <1>9. EventOK(u, e, h, r, R)
    BY <1>2, <1>5, <1>6, <1>7, <1>8 DEF EventOK
  <1> QED
    BY <1>9 DEF R

LEMMA FormTold ==
    ASSUME NEW u, NEW p \in Pages, NEW g \in Games, NEW h \in Games, NEW s, NEW r, s \subseteq r, NEW S, NEW T,
           NEW I, NEW C, NEW w, NEW v,
           FormOK(u, p, g, s, S, I, C, w), Tells(u, g, h, r, T),
           \A c \in w \ v : c.task = "change" => WithOptions(T)
    PROVE  FormOK(u, p, h, r, S \cup T, I, C, v)
  <1> DEFINE R == S \cup T
  <1>1. /\ WithOptions(R) <=> WithOptions(S) \/ WithOptions(T)
        /\ StateComes("PLAYING", R) <=> StateComes("PLAYING", S) \/ StateComes("PLAYING", T)
    BY More
  <1> HIDE DEF R
  <1>2. Renewed(S, I) \/ WithOptions(T) \/ StateComes("PLAYING", T) => Renewed(R, I)
    BY <1>1 DEF Renewed
  <1>3. OwnChange(u, g, C, w) => OwnChange(u, h, C, v) \/ Renewed(R, I)
    <2>1. CASE C # {} /\ IsHost(g, u)
      BY <1>2, <2>1 DEF OwnChange, IsHost, Tells
    <2>2. ASSUME NEW c \in w, c.task = "change" /\ c.user = u
          PROVE  OwnChange(u, h, C, v) \/ Renewed(R, I)
      BY <1>2, <2>2 DEF OwnChange
    <2> QED
      BY <2>1, <2>2 DEF OwnChange
  <1>4. /\ p.host = u => h.host = u \/ Renewed(R, I)
        /\ p.host = None => I # {}
    BY <1>2 DEF FormOK, Tells
  <1>5. "shownInGame" \notin r => (p.shown /\ p.enabled => p.host \in {u, None} /\ (h.state = "LOBBY" \/ Renewed(R, I)))
    BY <1>2 DEF FormOK, Tells
  <1>6. "shownInGame" \notin r => p.form = h.options \/ Renewed(R, I) \/ OwnChange(u, h, C, v)
    BY <1>2, <1>3 DEF FormOK, Tells
  <1>7. FormOK(u, p, h, r, R, I, C, v)
    BY <1>4, <1>5, <1>6 DEF FormOK
  <1> QED
    BY <1>7 DEF R

LEMMA PeopleTold ==
    ASSUME NEW u, NEW p \in Pages, NEW g \in Games, NEW h \in Games, NEW s, NEW r, s \subseteq r, NEW S, NEW T,
           NEW I, PeopleOK(u, p, g, s, S, I), Tells(u, g, h, r, T)
    PROVE  PeopleOK(u, p, h, r, S \cup T, I)
  <1> DEFINE R == S \cup T
  <1>1. /\ Refreshing(u, R) <=> Refreshing(u, S) \/ Refreshing(u, T)
        /\ \A w : Leaves(w, R) <=> Leaves(w, S) \/ Leaves(w, T)
    BY More
  <1> HIDE DEF R
  <1>2. PeopleOK(u, p, h, r, R, I)
    BY <1>1 DEF PeopleOK, Tells, Somewhere
  <1> QED
    BY <1>2 DEF R

LEMMA ButtonsTold ==
    ASSUME NEW u, NEW p \in Pages, NEW g \in Games, NEW h \in Games, NEW s, NEW r, s \subseteq r, NEW S, NEW T,
           NEW I, ButtonsOK(u, p, g, s, S, I), Tells(u, g, h, r, T)
    PROVE  ButtonsOK(u, p, h, r, S \cup T, I)
  <1> DEFINE R == S \cup T
  <1>0. g.state \in {"LOBBY", "PLAYING"} /\ h.state \in {"LOBBY", "PLAYING"}
    BY DEF Games, States
  <1>1. /\ Renewing(u, R) <=> Renewing(u, S) \/ Renewing(u, T)
        /\ StateComes("LOBBY", R) <=> StateComes("LOBBY", S) \/ StateComes("LOBBY", T)
        /\ HostComes(u, R) <=> HostComes(u, S) \/ HostComes(u, T)
    BY More
  <1>2. StateComes("PLAYING", T) => Renewing(u, T)
    BY PlayingRenews
  <1> HIDE DEF R
  <1>3. p.state = "PLAYING" => h.state = "PLAYING" \/ StateComes("LOBBY", R)
    BY <1>1 DEF ButtonsOK, Tells
  <1>4. p.shown /\ p.host # None => (p.enabled <=> p.host = u /\ p.state = "LOBBY")
    BY DEF ButtonsOK
  <1>5. ASSUME "lateHost" \notin r, I = {}, ~Renewing(u, R)
        PROVE  /\ p.host = h.host /\ ~HostIsGone(h)
               /\ p.start => IsHost(h, u)
               /\ IsHost(h, u) => p.start \/ HostComes(u, R)
               /\ p.stop => h.host = u /\ (h.state = "PLAYING" \/ StateComes("LOBBY", R))
               /\ h.host = u /\ h.state = "PLAYING" => p.stop
    <2>1. /\ p.host = g.host /\ ~HostIsGone(g)
          /\ p.start => IsHost(g, u)
          /\ IsHost(g, u) => p.start \/ HostComes(u, S)
          /\ p.stop => g.host = u /\ (g.state = "PLAYING" \/ StateComes("LOBBY", S))
          /\ g.host = u /\ g.state = "PLAYING" => p.stop
      BY <1>1, <1>5 DEF ButtonsOK
    <2>2. /\ h.host = g.host /\ ~HostIsGone(h)
          /\ g.state = "PLAYING" => h.state = "PLAYING" \/ LobbyComes(u, h, T)
      BY <1>1, <1>5, <2>1 DEF Tells
    <2>3. g.state = "LOBBY" => h.state = "LOBBY"
      BY <1>1, <1>2, <1>5 DEF Tells
    <2> QED
      BY <1>0, <1>1, <2>1, <2>2, <2>3 DEF IsHost, LobbyComes
  <1>6. ButtonsOK(u, p, h, r, R, I)
    BY <1>3, <1>4, <1>5 DEF ButtonsOK
  <1> QED
    BY <1>6 DEF R

-----------------------------------------------------------------------------
(* The steps of the server: what they change is told.                      *)

IsDeck(e, d) == e.type \in {"addCardset", "removeCardset"} /\ e.who = d

\* What t says of decks is what changes from g to h.
DeckNews(g, h, t) ==
    \/ h.decks = g.decks /\ \A e \in ToSet(t), d \in Decks : ~IsDeck(e, d)
    \/ \E d \in Decks : t = News("addCardset", d) /\ d \notin g.decks /\ h.decks = g.decks \cup {d}
    \/ \E d \in Decks : t = News("removeCardset", d) /\ h.decks = g.decks \ {d}

\* In one that comes into the game, nothing is left of its last stay.
Newcomer(u) ==
    /\ ~page[u].open
    /\ "soonBack" \notin slips' => events[u] = <<>> /\ Mine(u) = {}

ServerStep(t) ==
    /\ Announced(game', t)
    /\ inFlight' = inFlight /\ page' = page
    /\ slips \subseteq slips' /\ slips' \subseteq Races
    /\ halfway' \subseteq Tasks
    /\ \A c \in halfway \ halfway' : c.task = "change" => WithOptions(ToSet(t))
    /\ DeckNews(game, game', t)
    /\ \A u \in Watched : u \in Members(game') =>
          /\ \A e \in ToSet(t) : EventOK(u, e, game', slips', {})
          /\ u \in Members(game) => Tells(u, game, game', slips', ToSet(t))
          /\ u \notin Members(game) => Newcomer(u)

LEMMA NewsSets ==
    /\ \A x, y : ToSet(News(x, y)) = {[type |-> x, who |-> y]}
    /\ \A x : ToSet(StateChange(x)) = {[type |-> "state", state |-> x]}
    /\ \A g : ToSet(OptionsChanged(g)) = {[type |-> "options", info |-> g]}
  <1>1. \A x : ToSet(<<x>>) = {x}
    BY DEF ToSet
  <1> QED
    BY <1>1 DEF News, StateChange, OptionsChanged

\* The info event that is sent, in which Booleans are Booleans.
InfoEvent(g, u) == CHOOSE e : <<e>> = InfoChange(g, u)

LEMMA InfoSets ==
    ASSUME NEW g, NEW u
    PROVE  /\ InfoChange(g, u) = <<InfoEvent(g, u)>> /\ ToSet(InfoChange(g, u)) = {InfoEvent(g, u)}
           /\ InfoEvent(g, u).type = "info" /\ InfoEvent(g, u).who = u
           /\ InfoEvent(g, u).host <=> IsHost(g, u)
  <1> DEFINE b == g.state = "LOBBY" /\ g.host = u
             e == [type |-> "info", who |-> u, host |-> b]
  <1>1. InfoChange(g, u) = <<e>>
    BY DEF InfoChange
  <1>2. e.type = "info" /\ e.who = u /\ e.host = b
    OBVIOUS
  <1> HIDE DEF e
  <1>3. <<e>> = InfoChange(g, u) /\ \A x : <<x>> = InfoChange(g, u) => x = e
    BY <1>1
  <1>4. InfoEvent(g, u) = e
    BY <1>3 DEF InfoEvent
  <1>5. ToSet(<<e>>) = {e}
    BY DEF ToSet
  <1> QED
    BY <1>1, <1>2, <1>4, <1>5 DEF IsHost

LEMMA ConcatSets ==
    ASSUME NEW S, NEW s \in Seq(S), NEW t \in Seq(S)
    PROVE  ToSet(s \o t) = ToSet(s) \cup ToSet(t)
  <1>1. After(s \o t, 0) = After(s, 0) \cup ToSet(t)
    BY AfterAppend
  <1>2. \A q \in Seq(S) : After(q, 0) = ToSet(q)
    BY DEF After, ToSet
  <1>3. s \o t \in Seq(S)
    OBVIOUS
  <1> QED
    BY <1>1, <1>2, <1>3

LEMMA TellsSame ==
    ASSUME NEW u, NEW g, NEW s, NEW T
    PROVE  Tells(u, g, g, s, T)
  BY DEF Tells, Somewhere

\* An event of another kind says nothing that could be wrong.
LEMMA OtherEventOK ==
    ASSUME NEW u, NEW e, NEW g, NEW s, NEW S,
           e.type \in {"join", "addCardset", "removeCardset"}
    PROVE  EventOK(u, e, g, s, S)
  BY DEF EventOK

LEMMA LeaveEventOK ==
    ASSUME NEW u, NEW e, NEW g, NEW s, NEW S, e.type \in {"leave", "spectatorLeave"}, e.who # u
    PROVE  EventOK(u, e, g, s, S)
  BY DEF EventOK

LEMMA StateEventOK ==
    ASSUME NEW u, NEW e, NEW g, NEW s, NEW S, e.type = "state", e.state = g.state
    PROVE  EventOK(u, e, g, s, S)
  BY DEF EventOK

LEMMA InfoEventOK ==
    ASSUME NEW u, NEW g, NEW s, NEW S, NEW w, "lateHost" \in s \/ w \in Members(g)
    PROVE  EventOK(u, InfoEvent(g, w), g, s, S)
  BY InfoSets DEF EventOK, Somewhere

LEMMA FreshSelf ==
    ASSUME NEW u, NEW g, NEW s, NEW S, "lateHost" \in s \/ ~HostIsGone(g)
    PROVE  Fresh(u, g, g, s, S)
  BY DEF Fresh, FreshForm, FreshPeople, FreshHost, Somewhere

LEMMA OptionsEventOK ==
    ASSUME NEW u, NEW e, NEW g, NEW s, NEW S, e.type = "options", e.info = g,
           "lateHost" \in s \/ ~HostIsGone(g)
    PROVE  EventOK(u, e, g, s, S)
  BY FreshSelf DEF EventOK

\* What a step leaves alone of who stays.
LEMMA StayingFacts ==
    ASSUME Base
    PROVE  /\ Players(game) \cap game.spectators = {}
           /\ Members(game) = Players(game) \cup game.spectators
           /\ Leaving \cap Members(game) = {}
           /\ HostIsGone(game) => game.host \in Leaving
           /\ HostIsGone(game) <=> game.host \notin Players(game)
           /\ game \in Games /\ slips \subseteq Races /\ halfway \subseteq Tasks
           /\ game'.players = game.players => Players(game') = Players(game)
           /\ Members(game') = Players(game') \cup game'.spectators
           /\ HostIsGone(game') <=> game'.host \notin Players(game')
           /\ halfway' = halfway => Leaving' = Leaving
  BY DEF Base, TypeOK, Staying, Members, HostIsGone, Players, Leaving

LEMMA StayingNow ==
    ASSUME Players(game') \cap game'.spectators = {},
           Leaving' \cap Members(game') = {},
           HostIsGone(game') => game'.host \in Leaving'
    PROVE  Staying'
  BY DEF Staying, Players, Members, HostIsGone

LEMMA JoinServer ==
    ASSUME Base, NEW u \in Users, JoinGame(u)
    PROVE  Staying' /\ \E t : ServerStep(t)
  <1> DEFINE t == News("join", u)
             e == [type |-> "join", who |-> u]
  <1>1. /\ Announced(game', t)
        /\ SameBut(game, game', {"players"}) /\ Players(game') = Players(game) \cup {u}
        /\ u \notin Members(game) \cup Leaving /\ (u \in Watched => ~page[u].open)
        /\ halfway' = halfway /\ inFlight' = inFlight /\ page' = page
        /\ Slip(If("soonBack", SoonBack(u)))
    BY JoinFacts DEF Announced
  <1>2. ToSet(t) = {e} /\ e.type = "join" /\ e.who = u
    BY NewsSets
  <1>3. /\ game'.spectators = game.spectators /\ game'.state = game.state /\ game'.host = game.host
        /\ game'.options = game.options /\ game'.decks = game.decks
    BY <1>1 DEF SameBut
  <1> HIDE DEF t, e
  <1>4. slips \subseteq slips' /\ slips' \subseteq Races /\ If("soonBack", SoonBack(u)) \subseteq slips'
    BY <1>1, SlipFacts, StayingFacts
  <1>5. Members(game') = Members(game) \cup {u}
    BY <1>1, <1>3, StayingFacts
  <1>6. Staying'
    BY <1>1, <1>3, <1>5, StayingFacts, StayingNow
  <1>7. DeckNews(game, game', t)
    BY <1>2, <1>3 DEF DeckNews, IsDeck
  <1>8. ASSUME NEW v \in Watched, v \in Members(game')
        PROVE  /\ \A x \in ToSet(t) : EventOK(v, x, game', slips', {})
               /\ v \in Members(game) => Tells(v, game, game', slips', ToSet(t))
               /\ v \notin Members(game) => Newcomer(v)
    <2>1. \A x \in ToSet(t) : EventOK(v, x, game', slips', {})
      BY <1>2, OtherEventOK
    <2>2. ASSUME v \in Members(game)
          PROVE  Tells(v, game, game', slips', ToSet(t))
      <3>1. v # u
        BY <1>1, <2>2
      <3>2. Refreshing(v, ToSet(t)) /\ Renewing(v, ToSet(t))
        BY <1>2, <3>1 DEF Refreshing, Refreshes, Renewing
      <3> QED
        BY <1>3, <1>5, <3>2 DEF Tells, Somewhere
    <2>3. ASSUME v \notin Members(game)
          PROVE  Newcomer(v)
      <3>1. v = u
        BY <1>5, <1>8, <2>3
      <3>2. "soonBack" \notin slips' => ~SoonBack(u)
        BY <1>4 DEF If
      <3> QED
        BY <1>1, <3>1, <3>2 DEF Newcomer, SoonBack, Mine
    <2> QED
      BY <2>1, <2>2, <2>3
  <1>9. halfway' \subseteq Tasks /\ \A c \in halfway \ halfway' : c.task = "change" => WithOptions(ToSet(t))
    BY <1>1, StayingFacts
  <1>10. ServerStep(t)
    BY <1>1, <1>4, <1>7, <1>8, <1>9 DEF ServerStep
  <1> QED
    BY <1>6, <1>10

LEMMA SpectateServer ==
    ASSUME Base, NEW u \in Users, SpectateGame(u)
    PROVE  Staying' /\ \E t : ServerStep(t)
  <1> DEFINE t == News("spectatorJoin", u)
             e == [type |-> "spectatorJoin", who |-> u]
  <1>1. /\ Announced(game', t)
        /\ SameBut(game, game', {"spectators"}) /\ game'.spectators = game.spectators \cup {u}
        /\ u \notin Members(game) \cup Leaving /\ (u \in Watched => ~page[u].open)
        /\ halfway' = halfway /\ inFlight' = inFlight /\ page' = page
        /\ Slip(If("soonBack", SoonBack(u)))
    BY SpectateFacts DEF Announced
  <1>2. ToSet(t) = {e} /\ e.type = "spectatorJoin" /\ e.who = u
    BY NewsSets
  <1>3. /\ game'.players = game.players /\ game'.state = game.state /\ game'.host = game.host
        /\ game'.options = game.options /\ game'.decks = game.decks
    BY <1>1 DEF SameBut
  <1> HIDE DEF t, e
  <1>4. slips \subseteq slips' /\ slips' \subseteq Races /\ If("soonBack", SoonBack(u)) \subseteq slips'
    BY <1>1, SlipFacts, StayingFacts
  <1>5. Members(game') = Members(game) \cup {u}
    BY <1>1, <1>3, StayingFacts
  <1>6. Staying'
    BY <1>1, <1>3, <1>5, StayingFacts, StayingNow
  <1>7. DeckNews(game, game', t)
    BY <1>2, <1>3 DEF DeckNews, IsDeck
  <1>8. ASSUME NEW v \in Watched, v \in Members(game')
        PROVE  /\ \A x \in ToSet(t) : EventOK(v, x, game', slips', {})
               /\ v \in Members(game) => Tells(v, game, game', slips', ToSet(t))
               /\ v \notin Members(game) => Newcomer(v)
    <2>1. \A x \in ToSet(t) : EventOK(v, x, game', slips', {})
      BY <1>2, <1>5 DEF EventOK, Somewhere
    <2>2. ASSUME v \in Members(game)
          PROVE  Tells(v, game, game', slips', ToSet(t))
      <3>1. v # u
        BY <1>1, <2>2
      <3>2. Refreshing(v, ToSet(t)) /\ Renewing(v, ToSet(t))
        BY <1>2, <3>1 DEF Refreshing, Refreshes, Renewing
      <3> QED
        BY <1>3, <1>5, <3>2 DEF Tells, Somewhere
    <2>3. ASSUME v \notin Members(game)
          PROVE  Newcomer(v)
      <3>1. v = u
        BY <1>5, <1>8, <2>3
      <3>2. "soonBack" \notin slips' => ~SoonBack(u)
        BY <1>4 DEF If
      <3> QED
        BY <1>1, <3>1, <3>2 DEF Newcomer, SoonBack, Mine
    <2> QED
      BY <2>1, <2>2, <2>3
  <1>9. halfway' \subseteq Tasks /\ \A c \in halfway \ halfway' : c.task = "change" => WithOptions(ToSet(t))
    BY <1>1, StayingFacts
  <1>10. ServerStep(t)
    BY <1>1, <1>4, <1>7, <1>8, <1>9 DEF ServerStep
  <1> QED
    BY <1>6, <1>10

LEMMA LeaveSpectatorServer ==
    ASSUME Base, NEW u \in Users, LeaveSpectator(u)
    PROVE  Staying' /\ \E t : ServerStep(t)
  <1> DEFINE t == News("spectatorLeave", u)
             e == [type |-> "spectatorLeave", who |-> u]
  <1>1. /\ Announced(game', t)
        /\ SameBut(game, game', {"spectators"}) /\ game'.spectators = game.spectators \ {u}
        /\ u \in game.spectators
        /\ halfway' = halfway /\ inFlight' = inFlight /\ page' = page /\ slips' = slips
    BY LeaveSpectatorFacts DEF Announced
  <1>2. ToSet(t) = {e} /\ e.type = "spectatorLeave" /\ e.who = u
    BY NewsSets
  <1>3. /\ game'.players = game.players /\ game'.state = game.state /\ game'.host = game.host
        /\ game'.options = game.options /\ game'.decks = game.decks
    BY <1>1 DEF SameBut
  <1> HIDE DEF t, e
  <1>4. slips \subseteq slips' /\ slips' \subseteq Races
    BY <1>1, StayingFacts
  <1>5. Members(game') = Members(game) \ {u}
    BY <1>1, <1>3, StayingFacts
  <1>6. Staying'
    BY <1>1, <1>3, <1>5, StayingFacts, StayingNow
  <1>7. DeckNews(game, game', t)
    BY <1>2, <1>3 DEF DeckNews, IsDeck
  <1>8. ASSUME NEW v \in Watched, v \in Members(game')
        PROVE  /\ \A x \in ToSet(t) : EventOK(v, x, game', slips', {})
               /\ v \in Members(game) => Tells(v, game, game', slips', ToSet(t))
               /\ v \notin Members(game) => Newcomer(v)
    <2>0. v # u /\ v \in Members(game)
      BY <1>5, <1>8
    <2>1. \A x \in ToSet(t) : EventOK(v, x, game', slips', {})
      BY <1>2, <2>0, LeaveEventOK
    <2>2. Refreshing(v, ToSet(t)) /\ Renewing(v, ToSet(t)) /\ Leaves(u, ToSet(t))
      BY <1>2, <2>0 DEF Refreshing, Refreshes, Renewing, Leaves
    <2>3. Tells(v, game, game', slips', ToSet(t))
      BY <1>3, <1>5, <2>2 DEF Tells, Somewhere
    <2> QED
      BY <2>0, <2>1, <2>3
  <1>9. halfway' \subseteq Tasks /\ \A c \in halfway \ halfway' : c.task = "change" => WithOptions(ToSet(t))
    BY <1>1, StayingFacts
  <1>10. ServerStep(t)
    BY <1>1, <1>4, <1>7, <1>8, <1>9 DEF ServerStep
  <1> QED
    BY <1>6, <1>10

LEMMA LeaveServer ==
    ASSUME Base, NEW u \in Users, LeaveGame(u)
    PROVE  Staying' /\ \E t : ServerStep(t)
  <1> DEFINE t == News("leave", u)
             e == [type |-> "leave", who |-> u]
             h == [task |-> "leave", user |-> u]
  <1>1. /\ Announced(game', t)
        /\ SameBut(game, game', {"players"}) /\ Players(game') = Players(game) \ {u}
        /\ u \in Players(game) /\ halfway' = halfway \cup {h}
        /\ inFlight' = inFlight /\ page' = page /\ slips' = slips
    BY LeaveFacts DEF Announced
  <1>2. ToSet(t) = {e} /\ e.type = "leave" /\ e.who = u
    BY NewsSets
  <1>3. /\ game'.spectators = game.spectators /\ game'.state = game.state /\ game'.host = game.host
        /\ game'.options = game.options /\ game'.decks = game.decks
    BY <1>1 DEF SameBut
  <1>4. h \in Tasks /\ h.task = "leave" /\ h.user = u
    BY DEF Tasks
  <1> HIDE DEF t, e, h
  <1>5. slips \subseteq slips' /\ slips' \subseteq Races
    BY <1>1, StayingFacts
  <1>6. Members(game') = Members(game) \ {u}
    BY <1>1, <1>3, StayingFacts
  <1>7. Leaving' = Leaving \cup {u}
    BY <1>1, <1>4 DEF Leaving
  <1>8. Staying'
    BY <1>1, <1>3, <1>6, <1>7, StayingFacts, StayingNow
  <1>9. DeckNews(game, game', t)
    BY <1>2, <1>3 DEF DeckNews, IsDeck
  <1>10. ASSUME NEW v \in Watched, v \in Members(game')
         PROVE  /\ \A x \in ToSet(t) : EventOK(v, x, game', slips', {})
                /\ v \in Members(game) => Tells(v, game, game', slips', ToSet(t))
                /\ v \notin Members(game) => Newcomer(v)
    <2>0. v # u /\ v \in Members(game)
      BY <1>6, <1>10
    <2>1. \A x \in ToSet(t) : EventOK(v, x, game', slips', {})
      BY <1>2, <2>0, LeaveEventOK
    <2>2. Refreshing(v, ToSet(t)) /\ Renewing(v, ToSet(t)) /\ Leaves(u, ToSet(t))
      BY <1>2, <2>0 DEF Refreshing, Refreshes, Renewing, Leaves
    <2>3. Tells(v, game, game', slips', ToSet(t))
      BY <1>3, <1>6, <2>2 DEF Tells, Somewhere
    <2> QED
      BY <2>0, <2>1, <2>3
  <1>11. halfway' \subseteq Tasks /\ \A c \in halfway \ halfway' : c.task = "change" => WithOptions(ToSet(t))
    BY <1>1, <1>4, StayingFacts
  <1>12. ServerStep(t)
    BY <1>1, <1>5, <1>9, <1>10, <1>11 DEF ServerStep
  <1> QED
    BY <1>8, <1>12

LEMMA ResetNews ==
    ASSUME NEW h \in Games
    PROVE  \E e : /\ e.type = "state" /\ e.state = "LOBBY"
                  /\ ToSet(StateChange("LOBBY") \o InfoChange(h, h.host)) = {e, InfoEvent(h, h.host)}
  <1> DEFINE e == [type |-> "state", state |-> "LOBBY"]
  <1>1. e.type = "state" /\ e.state = "LOBBY" /\ ToSet(StateChange("LOBBY")) = {e}
    BY NewsSets
  <1>2. ToSet(InfoChange(h, h.host)) = {InfoEvent(h, h.host)}
    BY InfoSets
  <1>3. StateChange("LOBBY") \in Seq(Events) /\ InfoChange(h, h.host) \in Seq(Events)
    BY NewsType DEF Games, States
  <1>4. ToSet(StateChange("LOBBY") \o InfoChange(h, h.host)) = {e} \cup {InfoEvent(h, h.host)}
    BY <1>1, <1>2, <1>3, ConcatSets
  <1> HIDE DEF e
  <1> QED
    BY <1>1, <1>4

\* Who is told of the end of a game, and of its host.
LEMMA ResetTells ==
    ASSUME NEW u, NEW g \in Games, NEW h \in Games, NEW s, NEW e, NEW T,
           e.type = "state", e.state = "LOBBY", T = {e, InfoEvent(h, h.host)},
           SameBut(g, h, {"host", "state"}), h.state = "LOBBY",
           h.host = g.host \/ HostIsGone(g), h.host # g.host => g.host # u,
           "lateHost" \in s \/ ~HostIsGone(h)
    PROVE  /\ \A x \in T : EventOK(u, x, h, s, {})
           /\ Tells(u, g, h, s, T)
  <1>1. /\ h.players = g.players /\ h.spectators = g.spectators /\ h.options = g.options
    BY DEF SameBut
  <1>2. Members(h) = Members(g)
    BY <1>1 DEF Members, Players
  <1>3. "lateHost" \in s \/ h.host \in Members(h)
    BY DEF HostIsGone, Members
  <1>4. EventOK(u, e, h, s, {}) /\ EventOK(u, InfoEvent(h, h.host), h, s, {})
    BY <1>3, StateEventOK, InfoEventOK
  <1>5. StateComes("LOBBY", T)
    BY DEF StateComes
  <1>6. h.host = u => HostComes(u, T)
    BY InfoSets DEF HostComes, IsHost
  <1>7. Tells(u, g, h, s, T)
    BY <1>1, <1>2, <1>5, <1>6 DEF Tells, Somewhere, LobbyComes
  <1> QED
    BY <1>4, <1>7

LEMMA FinishLeavingServer ==
    ASSUME Base, NEW c \in halfway, FinishLeaving(c)
    PROVE  Staying' /\ \E t : ServerStep(t)
  <1> DEFINE host == HostAfter(c)
  <1>1. /\ c.task = "leave" /\ c.user \in Users /\ halfway' = halfway \ {c}
        /\ host \in Users /\ game'.host = host
        /\ inFlight' = inFlight /\ page' = page
        /\ \/ /\ Announced(game', <<>>)
              /\ SameBut(game, game', {"host"}) /\ slips' = slips
           \/ /\ Announced(game', StateChange("LOBBY") \o InfoChange(game', game'.host))
              /\ SameBut(game, game', {"host", "state"})
              /\ game.state # "LOBBY" /\ game'.state = "LOBBY"
              /\ Slip(If("lateHost", host \notin Players(game)))
    BY FinishLeavingFacts DEF Announced
  <1>2. /\ game'.players = game.players /\ game'.spectators = game.spectators
        /\ game'.options = game.options /\ game'.decks = game.decks
        /\ Players(game') = Players(game) /\ Members(game') = Members(game)
    <2>1. game'.players = game.players /\ game'.spectators = game.spectators
          /\ game'.options = game.options /\ game'.decks = game.decks
      BY <1>1 DEF SameBut
    <2> QED
      BY <2>1 DEF Players, Members
  <1>3. c \in Tasks /\ c.user \in Leaving /\ c.user \notin Members(game)
    BY <1>1, StayingFacts DEF Leaving
  <1>4. host = game.host \/ (game.host = c.user /\ host \in Players(game))
    BY HeadFacts DEF HostAfter, Base, TypeOK, Games, Players
  <1> HIDE DEF host
  <1>5. Leaving' \subseteq Leaving /\ \A v \in Leaving : v = c.user \/ v \in Leaving'
    BY <1>1 DEF Leaving
  <1>6. game.host = c.user => host \in Players(game)
    BY HeadFacts DEF host, HostAfter, Base, TypeOK, Games, Players
  <1>7. Staying'
    <2>1. HostIsGone(game') => game'.host \in Leaving'
      BY <1>1, <1>2, <1>4, <1>5, <1>6, StayingFacts
    <2> QED
      BY <1>2, <1>5, <2>1, StayingFacts, StayingNow
  <1>8. game.host # host => HostIsGone(game) /\ \A v \in Members(game) : game.host # v
    BY <1>3, <1>4, StayingFacts
  <1>9. halfway' \subseteq Tasks /\ \A x \in halfway \ halfway' : x.task # "change"
    BY <1>1, StayingFacts
  <1>10. CASE Announced(game', <<>>) /\ SameBut(game, game', {"host"}) /\ slips' = slips
    <2>1. ToSet(<<>>) = {} /\ game'.state = game.state
      BY <1>10 DEF SameBut, ToSet
    <2>2. DeckNews(game, game', <<>>)
      BY <1>2, <2>1 DEF DeckNews
    <2>3. ASSUME NEW v \in Watched, v \in Members(game')
          PROVE  Tells(v, game, game', slips', {})
      <3>1. v \in Members(game) /\ (game.host = v => game'.host = v)
        BY <1>1, <1>2, <1>8, <2>3
      <3>2. HostIsGone(game) \/ (game'.host = game.host /\ ~HostIsGone(game'))
        BY <1>1, <1>2, <1>8, StayingFacts
      <3> QED
        BY <1>2, <2>1, <3>1, <3>2 DEF Tells, Somewhere
    <2>4. ServerStep(<<>>)
      BY <1>1, <1>2, <1>9, <1>10, <2>1, <2>2, <2>3, StayingFacts DEF ServerStep
    <2> QED
      BY <1>7, <2>4
  <1>11. CASE /\ Announced(game', StateChange("LOBBY") \o InfoChange(game', game'.host))
              /\ SameBut(game, game', {"host", "state"})
              /\ game.state # "LOBBY" /\ game'.state = "LOBBY"
              /\ Slip(If("lateHost", host \notin Players(game)))
    <2> DEFINE t == StateChange("LOBBY") \o InfoChange(game', game'.host)
    <2>0. game \in Games /\ game' \in Games
      BY <1>11, StayingFacts DEF Announced
    <2>1. \E x : x.type = "state" /\ x.state = "LOBBY" /\ ToSet(t) = {x, InfoEvent(game', game'.host)}
      BY <2>0, ResetNews
    <2>2. PICK e : e.type = "state" /\ e.state = "LOBBY" /\ ToSet(t) = {e, InfoEvent(game', game'.host)}
      BY <2>1
    <2>3. Announced(game', t)
      BY <1>11
    <2> HIDE DEF t
    <2>4. slips \subseteq slips' /\ slips' \subseteq Races /\ If("lateHost", host \notin Players(game)) \subseteq slips'
      BY <1>11, SlipFacts, StayingFacts
    <2>5. "lateHost" \in slips' \/ ~HostIsGone(game')
      BY <1>1, <1>2, <2>4, StayingFacts DEF If
    <2>6. ASSUME NEW v \in Watched, v \in Members(game')
          PROVE  /\ \A x \in ToSet(t) : EventOK(v, x, game', slips', {})
                 /\ Tells(v, game, game', slips', ToSet(t))
      <3>1. game'.host # game.host => game.host # v
        BY <1>1, <1>2, <1>8, <2>6
      <3>2. game'.host = game.host \/ HostIsGone(game)
        BY <1>1, <1>8
      <3> QED
        BY <1>11, <2>0, <2>2, <2>5, <3>1, <3>2, ResetTells
    <2>7. DeckNews(game, game', t)
      BY <1>2, <2>2, InfoSets DEF DeckNews, IsDeck
    <2>8. ServerStep(t)
      BY <1>1, <1>2, <1>9, <2>3, <2>4, <2>6, <2>7 DEF ServerStep
    <2> QED
      BY <1>7, <2>8
  <1> QED
    BY <1>1, <1>10, <1>11

LEMMA StopServer ==
    ASSUME Base, Stop
    PROVE  Staying' /\ \E t : ServerStep(t)
  <1> DEFINE t == StateChange("LOBBY") \o InfoChange(game', game'.host)
  <1>1. /\ Announced(game', t)
        /\ SameBut(game, game', {"state"}) /\ game.state = "PLAYING" /\ game'.state = "LOBBY"
        /\ halfway' = halfway /\ inFlight' = inFlight /\ page' = page
        /\ Slip(If("lateHost", HostIsGone(game)))
    BY StopFacts DEF Announced
  <1>2. /\ game'.players = game.players /\ game'.spectators = game.spectators /\ game'.host = game.host
        /\ game'.options = game.options /\ game'.decks = game.decks
    BY <1>1 DEF SameBut
  <1>3. Players(game') = Players(game) /\ Members(game') = Members(game)
    BY <1>2 DEF Players, Members
  <1>4. game \in Games /\ game' \in Games
    BY <1>1, StayingFacts DEF Announced
  <1>5. \E x : x.type = "state" /\ x.state = "LOBBY" /\ ToSet(t) = {x, InfoEvent(game', game'.host)}
    BY <1>4, ResetNews
  <1>6. PICK e : e.type = "state" /\ e.state = "LOBBY" /\ ToSet(t) = {e, InfoEvent(game', game'.host)}
    BY <1>5
  <1> HIDE DEF t
  <1>7. slips \subseteq slips' /\ slips' \subseteq Races /\ If("lateHost", HostIsGone(game)) \subseteq slips'
    BY <1>1, SlipFacts, StayingFacts
  <1>8. "lateHost" \in slips' \/ ~HostIsGone(game')
    BY <1>2, <1>3, <1>7, StayingFacts DEF If
  <1>9. Staying'
    BY <1>1, <1>2, <1>3, StayingFacts, StayingNow
  <1>10. SameBut(game, game', {"host", "state"})
    BY <1>2 DEF SameBut
  <1>11. ASSUME NEW v \in Watched, v \in Members(game')
         PROVE  /\ \A x \in ToSet(t) : EventOK(v, x, game', slips', {})
                /\ Tells(v, game, game', slips', ToSet(t))
    BY <1>1, <1>2, <1>4, <1>6, <1>8, <1>10, ResetTells
  <1>12. DeckNews(game, game', t)
    BY <1>2, <1>6, InfoSets DEF DeckNews, IsDeck
  <1>13. ServerStep(t)
    BY <1>1, <1>3, <1>7, <1>11, <1>12, StayingFacts DEF ServerStep
  <1> QED
    BY <1>9, <1>13

LEMMA ChangeHostServer ==
    ASSUME Base, NEW u \in Users, ChangeHost(u)
    PROVE  Staying' /\ \E t : ServerStep(t)
  <1> DEFINE t == InfoChange(game', game.host) \o InfoChange(game', u) \o OptionsChanged(game')
             e == [type |-> "options", info |-> game']
  <1>1. /\ Announced(game', t)
        /\ SameBut(game, game', {"host"}) /\ game'.host = u
        /\ u \in Players(game) /\ u # game.host
        /\ halfway' = halfway /\ inFlight' = inFlight /\ page' = page
        /\ Slip(If("lateHost", HostIsGone(game)))
    BY ChangeHostFacts DEF Announced
  <1>2. /\ game'.players = game.players /\ game'.spectators = game.spectators /\ game'.state = game.state
        /\ game'.options = game.options /\ game'.decks = game.decks
    BY <1>1 DEF SameBut
  <1>3. Players(game') = Players(game) /\ Members(game') = Members(game)
    BY <1>2 DEF Players, Members
  <1>4. game \in Games /\ game' \in Games /\ game.host \in Users
    BY <1>1, GameFacts, StayingFacts DEF Announced
  <1>5. ToSet(t) = {InfoEvent(game', game.host), InfoEvent(game', u), e}
    <2> DEFINE a == InfoChange(game', game.host)
               b == InfoChange(game', u)
               d == OptionsChanged(game')
    <2>1. a \in Seq(Events) /\ b \in Seq(Events) /\ d \in Seq(Events)
      BY <1>4, NewsType
    <2>2. /\ ToSet(a) = {InfoEvent(game', game.host)}
          /\ ToSet(b) = {InfoEvent(game', u)}
          /\ ToSet(d) = {e}
      BY InfoSets, NewsSets
    <2> DEFINE ab == a \o b
    <2>3. t = ab \o d
      OBVIOUS
    <2> HIDE DEF a, b, d, t, e
    <2>4. ab \in Seq(Events) /\ ToSet(ab) = ToSet(a) \cup ToSet(b)
      BY <2>1, ConcatSets, ConcatProperties
    <2> HIDE DEF ab
    <2>5. ToSet(ab \o d) = ToSet(ab) \cup ToSet(d)
      BY <2>1, <2>4, ConcatSets
    <2> QED
      BY <2>2, <2>3, <2>4, <2>5
  <1>6. e.type = "options" /\ e.info = game'
    OBVIOUS
  <1> HIDE DEF t, e
  <1>7. slips \subseteq slips' /\ slips' \subseteq Races /\ If("lateHost", HostIsGone(game)) \subseteq slips'
    BY <1>1, SlipFacts, StayingFacts
  <1>8. ~HostIsGone(game') /\ u \in Members(game')
    BY <1>1, <1>3, StayingFacts
  <1>9. Staying'
    BY <1>1, <1>2, <1>3, <1>8, StayingFacts, StayingNow
  <1>10. "lateHost" \in slips' \/ game.host \in Members(game')
    BY <1>3, <1>7, StayingFacts DEF If
  <1>11. ASSUME NEW v \in Watched, v \in Members(game')
         PROVE  /\ \A x \in ToSet(t) : EventOK(v, x, game', slips', {})
                /\ Tells(v, game, game', slips', ToSet(t))
    <2>1. /\ EventOK(v, InfoEvent(game', game.host), game', slips', {})
          /\ EventOK(v, InfoEvent(game', u), game', slips', {})
          /\ EventOK(v, e, game', slips', {})
      BY <1>6, <1>8, <1>10, InfoEventOK, OptionsEventOK
    <2>2. WithOptions(ToSet(t)) /\ Renewing(v, ToSet(t))
      BY <1>5, <1>6 DEF WithOptions, Renewing
    <2>3. Tells(v, game, game', slips', ToSet(t))
      BY <1>2, <1>3, <2>2 DEF Tells, Somewhere
    <2> QED
      BY <1>5, <2>1, <2>3
  <1>12. DeckNews(game, game', t)
    BY <1>2, <1>5, <1>6, InfoSets DEF DeckNews, IsDeck
  <1>13. ServerStep(t)
    BY <1>1, <1>3, <1>7, <1>11, <1>12, StayingFacts DEF ServerStep
  <1> QED
    BY <1>9, <1>13

LEMMA StartServer ==
    ASSUME Base, Start
    PROVE  Staying' /\ \E t : ServerStep(t)
  <1> DEFINE t == StateChange("PLAYING")
             e == [type |-> "state", state |-> "PLAYING"]
  <1>1. /\ Announced(game', t)
        /\ SameBut(game, game', {"state"}) /\ game'.state = "PLAYING"
        /\ halfway' = halfway /\ inFlight' = inFlight /\ page' = page /\ slips' = slips
    BY StartFacts DEF Announced
  <1>2. /\ game'.players = game.players /\ game'.spectators = game.spectators /\ game'.host = game.host
        /\ game'.options = game.options /\ game'.decks = game.decks
    BY <1>1 DEF SameBut
  <1>3. Players(game') = Players(game) /\ Members(game') = Members(game)
    BY <1>2 DEF Players, Members
  <1>4. ToSet(t) = {e} /\ e.type = "state" /\ e.state = "PLAYING"
    BY NewsSets
  <1> HIDE DEF t, e
  <1>5. Staying'
    BY <1>1, <1>2, <1>3, StayingFacts, StayingNow
  <1>6. ASSUME NEW v \in Watched, v \in Members(game')
        PROVE  /\ \A x \in ToSet(t) : EventOK(v, x, game', slips', {})
               /\ Tells(v, game, game', slips', ToSet(t))
    <2>1. EventOK(v, e, game', slips', {})
      BY <1>1, <1>4, StateEventOK
    <2>2. StateComes("PLAYING", ToSet(t)) /\ Renewing(v, ToSet(t))
      BY <1>4, PlayingRenews DEF StateComes
    <2>3. Tells(v, game, game', slips', ToSet(t))
      BY <1>1, <1>2, <1>3, <2>2 DEF Tells, Somewhere
    <2> QED
      BY <1>4, <2>1, <2>3
  <1>7. DeckNews(game, game', t)
    BY <1>2, <1>4 DEF DeckNews, IsDeck
  <1>8. ServerStep(t)
    BY <1>1, <1>3, <1>6, <1>7, StayingFacts DEF ServerStep
  <1> QED
    BY <1>5, <1>8

LEMMA NextRoundServer ==
    ASSUME Base, NextRound
    PROVE  Staying' /\ \E t : ServerStep(t)
  <1> DEFINE t == StateChange("PLAYING")
             e == [type |-> "state", state |-> "PLAYING"]
  <1>1. /\ Announced(game', t) /\ game' = game /\ game.state = "PLAYING"
        /\ halfway' = halfway /\ inFlight' = inFlight /\ page' = page /\ slips' = slips
    BY NextRoundFacts DEF Announced
  <1>2. ToSet(t) = {e} /\ e.type = "state" /\ e.state = "PLAYING"
    BY NewsSets
  <1> HIDE DEF t, e
  <1>3. Staying'
    BY <1>1, StayingFacts, StayingNow
  <1>4. ASSUME NEW v \in Watched, v \in Members(game')
        PROVE  /\ \A x \in ToSet(t) : EventOK(v, x, game', slips', {})
               /\ Tells(v, game, game', slips', ToSet(t))
    BY <1>1, <1>2, StateEventOK, TellsSame
  <1>5. DeckNews(game, game', t)
    BY <1>1, <1>2 DEF DeckNews, IsDeck
  <1>6. ServerStep(t)
    BY <1>1, <1>4, <1>5, StayingFacts DEF ServerStep
  <1> QED
    BY <1>3, <1>6

LEMMA DeckServer ==
    ASSUME Base, NEW d \in Decks, AddCardset(d) \/ RemoveCardset(d)
    PROVE  Staying' /\ \E t : ServerStep(t)
  <1>1. PICK x \in {"addCardset", "removeCardset"} :
          /\ Announced(game', News(x, d)) /\ DeckNews(game, game', News(x, d))
          /\ SameBut(game, game', {"decks"})
          /\ halfway' = halfway /\ inFlight' = inFlight /\ page' = page /\ slips' = slips
    BY AddCardsetFacts, RemoveCardsetFacts DEF Announced, DeckNews
  <1> DEFINE t == News(x, d)
             e == [type |-> x, who |-> d]
  <1>2. Announced(game', t) /\ DeckNews(game, game', t)
    BY <1>1
  <1>3. ToSet(t) = {e} /\ e.type = x
    BY NewsSets
  <1> HIDE DEF t, e
  <1>4. /\ game'.players = game.players /\ game'.spectators = game.spectators /\ game'.host = game.host
        /\ game'.options = game.options /\ game'.state = game.state
    BY <1>1 DEF SameBut
  <1>5. Players(game') = Players(game) /\ Members(game') = Members(game)
    BY <1>4 DEF Players, Members
  <1>6. Staying'
    BY <1>1, <1>4, <1>5, StayingFacts, StayingNow
  <1>7. ASSUME NEW v \in Watched, v \in Members(game')
        PROVE  /\ \A y \in ToSet(t) : EventOK(v, y, game', slips', {})
               /\ Tells(v, game, game', slips', ToSet(t))
    <2>1. \A y \in ToSet(t) : EventOK(v, y, game', slips', {})
      BY <1>3, OtherEventOK
    <2>2. HostIsGone(game) <=> HostIsGone(game')
      BY <1>4, <1>5, StayingFacts
    <2>3. Tells(v, game, game', slips', ToSet(t))
      BY <1>4, <1>5, <2>2 DEF Tells, Somewhere
    <2> QED
      BY <2>1, <2>3
  <1>8. ServerStep(t)
    BY <1>1, <1>2, <1>5, <1>7, StayingFacts DEF ServerStep
  <1> QED
    BY <1>6, <1>8

\* The options are changed, and all are told.
LEMMA OptionsServer ==
    ASSUME Base, Announced(game', OptionsChanged(game')), SameBut(game, game', {"options"}),
           Slip(If("lateHost", HostIsGone(game))) \/ (slips \subseteq slips' /\ slips' \subseteq Races /\ ~HostIsGone(game)),
           halfway' \subseteq halfway, Leaving' = Leaving, inFlight' = inFlight, page' = page
    PROVE  Staying' /\ \E t : ServerStep(t)
  <1> DEFINE t == OptionsChanged(game')
             e == [type |-> "options", info |-> game']
  <1>1. ToSet(t) = {e} /\ e.type = "options" /\ e.info = game'
    BY NewsSets
  <1>2. Announced(game', t)
    OBVIOUS
  <1> HIDE DEF t, e
  <1>3. /\ game'.players = game.players /\ game'.spectators = game.spectators /\ game'.host = game.host
        /\ game'.decks = game.decks /\ game'.state = game.state
    BY DEF SameBut
  <1>4. Players(game') = Players(game) /\ Members(game') = Members(game)
    BY <1>3 DEF Players, Members
  <1>5. Staying'
    BY <1>3, <1>4, StayingFacts, StayingNow
  <1>6. /\ slips \subseteq slips' /\ slips' \subseteq Races
        /\ "lateHost" \in slips' \/ ~HostIsGone(game')
    <2>1. HostIsGone(game) <=> HostIsGone(game')
      BY <1>3, <1>4, StayingFacts
    <2>2. CASE Slip(If("lateHost", HostIsGone(game)))
      BY <2>1, <2>2, SlipFacts, StayingFacts DEF If
    <2> QED
      BY <2>1, <2>2
  <1>7. ASSUME NEW v \in Watched, v \in Members(game')
        PROVE  /\ \A x \in ToSet(t) : EventOK(v, x, game', slips', {})
               /\ Tells(v, game, game', slips', ToSet(t))
    <2>1. EventOK(v, e, game', slips', {})
      BY <1>1, <1>6, OptionsEventOK
    <2>2. WithOptions(ToSet(t)) /\ Renewing(v, ToSet(t))
      BY <1>1 DEF WithOptions, Renewing
    <2>3. Tells(v, game, game', slips', ToSet(t))
      BY <1>3, <1>4, <2>2 DEF Tells, Somewhere
    <2> QED
      BY <1>1, <2>1, <2>3
  <1>8. DeckNews(game, game', t)
    BY <1>1, <1>3 DEF DeckNews, IsDeck
  <1>9. WithOptions(ToSet(t))
    BY <1>1 DEF WithOptions
  <1>10. ServerStep(t)
    BY <1>2, <1>4, <1>6, <1>7, <1>8, <1>9, StayingFacts DEF ServerStep
  <1> QED
    BY <1>5, <1>10

LEMMA FinishChangeServer ==
    ASSUME Base, NEW h \in halfway, FinishChange(h)
    PROVE  Staying' /\ \E t : ServerStep(t)
  <1>1. /\ Announced(game', OptionsChanged(game')) /\ SameBut(game, game', {"options"})
        /\ h.task = "change" /\ halfway' = halfway \ {h}
        /\ inFlight' = inFlight /\ page' = page
        /\ Slip(If("lateHost", HostIsGone(game)))
    BY FinishChangeFacts DEF Announced
  <1>2. Leaving' = Leaving
    BY <1>1 DEF Leaving
  <1> QED
    BY <1>1, <1>2, OptionsServer

LEMMA OthersChangeServer ==
    ASSUME Base, NEW u \in Users \ Watched, NEW f \in Fields, NEW v \in Values, OthersChange(u, f, v)
    PROVE  Staying' /\ \E t : ServerStep(t)
  <1>1. /\ Announced(game', OptionsChanged(game')) /\ SameBut(game, game', {"options"})
        /\ u \in Members(game) /\ game.host = u
        /\ halfway' = halfway /\ inFlight' = inFlight /\ page' = page
        /\ Slip(If("hasty", ChangeUnderWay))
    BY OthersChangeFacts DEF Announced
  <1>2. Leaving' = Leaving
    BY <1>1 DEF Leaving
  <1>3. slips \subseteq slips' /\ slips' \subseteq Races
    BY <1>1, SlipFacts, StayingFacts
  <1>4. ~HostIsGone(game)
    BY <1>1, StayingFacts
  <1> QED
    BY <1>1, <1>2, <1>3, <1>4, OptionsServer

-----------------------------------------------------------------------------
(* The steps of the pages, and of what they have sent.                     *)

LEMMA TypeFacts ==
    ASSUME TypeOK
    PROVE  /\ events \in [Watched -> Seq(Events)] /\ page \in [Watched -> Pages]
           /\ IsABag(inFlight) /\ Messages = BagToSet(inFlight)
           /\ \A m \in Messages : RequestOK(m) /\ m \in Requests /\ m.user \in Watched /\ m.ahead \in Nat
           /\ \A m \in Messages : m.answered => m.data \in Games /\ m.op # "CHANGE_GAME_OPTIONS"
           /\ \A m \in Messages : ~m.answered => m.ahead = 0
           /\ \A m \in Messages : m.op = "CHANGE_GAME_OPTIONS" => m.form \in Forms /\ m.field \in Fields
           /\ halfway \subseteq Tasks /\ slips \subseteq Races /\ game \in Games
           /\ Messages' = BagToSet(inFlight')
  BY DEF TypeOK, RequestOK, Requests, Messages

LEMMA TypeNow ==
    ASSUME Base, game' = game, halfway' \subseteq Tasks, Leaving' = Leaving,
           events' \in [Watched -> Seq(Events)], page' \in [Watched -> Pages],
           IsABag(inFlight'), \A m \in BagToSet(inFlight') : RequestOK(m), slips' \subseteq Races
    PROVE  Base'
  <1>1. TypeOK'
    BY DEF Base, TypeOK, Messages
  <1>2. Staying'
    BY StayingFacts, StayingNow DEF Players, Members
  <1> QED
    BY <1>1, <1>2 DEF Base

\* A step of which v takes no notice.
Aside(v) == events'[v] = events[v] /\ page'[v] = page[v] /\ Mine(v)' = Mine(v)

MineNow(v) == {m \in BagToSet(inFlight') : m.user = v}

LEMMA MineFacts ==
    \A v : Mine(v)' = MineNow(v) /\ Mine(v) = {m \in BagToSet(inFlight) : m.user = v}
  BY DEF Mine, MineNow, Messages

LEMMA EnterFacts ==
    ASSUME Base, NEW u \in Watched, Enter(u)
    PROVE  /\ Base'
           /\ u \in Members(game) /\ page'[u] = NewPage
           /\ \A v \in Watched : v # u => Aside(v)
           /\ Request(u, "GET_GAME_INFO", None, None) \in Messages'
           /\ Request(u, "LIST_CARDSETS", None, None) \in Messages'
           /\ \A m \in Messages' : m \notin Messages => m.user = u /\ m.op # "CHANGE_GAME_OPTIONS" /\ ~m.answered
           /\ \A m \in Messages : m \in Messages'
           /\ \A m \in Messages : m.op = "CHANGE_GAME_OPTIONS" => inFlight'[m] = inFlight[m]
           /\ UNCHANGED <<game, halfway, events, slips>>
  <1> DEFINE a == Request(u, "GET_GAME_INFO", None, None)
             b == Request(u, "LIST_CARDSETS", None, None)
  <1>0. TypeOK
    BY DEF Base
  <1>1. /\ u \in Members(game) /\ page' = [page EXCEPT ![u] = NewPage]
        /\ inFlight' = inFlight (+) (SetToBag({a}) (+) SetToBag({b}))
        /\ UNCHANGED <<game, halfway, events, slips>>
    BY DEF Enter, Entering, Ask
  <1>2. a.user = u /\ a.op = "GET_GAME_INFO" /\ ~a.answered /\ b.user = u /\ b.op = "LIST_CARDSETS" /\ ~b.answered
    BY DEF Request
  <1>3. RequestOK(a) /\ RequestOK(b)
    BY RequestType DEF Ops
  <1> HIDE DEF a, b
  <1>4. /\ IsABag(inFlight') /\ BagToSet(inFlight') = BagToSet(inFlight) \cup {a, b}
        /\ \A k \in BagToSet(inFlight) : k \notin {a, b} => inFlight'[k] = inFlight[k]
    <2>1. AddsTwo(inFlight, inFlight', a, b)
      BY <1>0, <1>1, <1>2, AddTwo, TypeFacts
    <2> QED
      BY <2>1 DEF AddsTwo
  <1>5. page' \in [Watched -> Pages]
    BY <1>0, <1>1, NewPageType, TypeFacts
  <1>6. Leaving' = Leaving
    BY <1>1 DEF Leaving
  <1>7. Base'
    BY <1>0, <1>1, <1>3, <1>4, <1>5, <1>6, TypeFacts, TypeNow
  <1>8. \A v \in Watched : v # u => Aside(v)
    BY <1>0, <1>1, <1>2, <1>4, MineFacts, TypeFacts DEF Aside, MineNow
  <1>9. page'[u] = NewPage
    BY <1>0, <1>1, TypeFacts
  <1>10. /\ a \in Messages' /\ b \in Messages'
         /\ \A m \in Messages' : m \notin Messages => m.user = u /\ m.op # "CHANGE_GAME_OPTIONS" /\ ~m.answered
         /\ \A m \in Messages : m \in Messages'
         /\ \A m \in Messages : m.op = "CHANGE_GAME_OPTIONS" => inFlight'[m] = inFlight[m]
    BY <1>0, <1>2, <1>4, TypeFacts
  <1> QED
    BY <1>1, <1>7, <1>8, <1>9, <1>10 DEF a, b

LEMMA ExitFacts ==
    ASSUME Base, NEW u \in Watched, Exit(u)
    PROVE  /\ Base' /\ u \notin Members(game)
           /\ \A v \in Watched : v # u => Aside(v)
           /\ UNCHANGED <<game, halfway, events, inFlight, slips>>
  <1>0. TypeOK
    BY DEF Base
  <1>1. /\ u \notin Members(game) /\ page' = [page EXCEPT ![u] = Closed]
        /\ UNCHANGED <<game, halfway, events, inFlight, slips>>
    BY DEF Exit
  <1>2. page' \in [Watched -> Pages]
    BY <1>0, <1>1, NewPageType, TypeFacts
  <1>3. Leaving' = Leaving
    BY <1>1 DEF Leaving
  <1>4. Base'
    BY <1>0, <1>1, <1>2, <1>3, TypeFacts, TypeNow
  <1>5. \A v \in Watched : v # u => Aside(v)
    BY <1>0, <1>1, MineFacts, TypeFacts DEF Aside, MineNow
  <1> QED
    BY <1>1, <1>4, <1>5

LEMMA ReloadFacts ==
    ASSUME Base, NEW u \in Watched, Reload(u)
    PROVE  /\ Base' /\ ~page'[u].open
           /\ \A v \in Watched : v # u => Aside(v)
           /\ \A m \in Messages' : m \in Messages /\ ~(m.user = u /\ m.op # "CHANGE_GAME_OPTIONS")
           /\ \A m \in Messages : m.op = "CHANGE_GAME_OPTIONS" => m \in Messages' /\ inFlight'[m] = inFlight[m]
           /\ UNCHANGED <<game, halfway, events, slips>>
  <1> DEFINE lost == {m \in Messages : m.user = u /\ m.op # "CHANGE_GAME_OPTIONS"}
  <1>0. TypeOK
    BY DEF Base
  <1>1. /\ page' = [page EXCEPT ![u] = Closed]
        /\ inFlight' = [m \in Messages \ lost |-> inFlight[m]]
        /\ UNCHANGED <<game, halfway, events, slips>>
    BY DEF Reload
  <1>2. inFlight \in [Messages -> {n \in Nat : n > 0}]
    BY <1>0, TypeFacts DEF IsABag, BagToSet
  <1> HIDE DEF lost
  <1>3. /\ DOMAIN inFlight' = Messages \ lost
        /\ inFlight' \in [Messages \ lost -> {n \in Nat : n > 0}]
        /\ \A m \in Messages \ lost : inFlight'[m] = inFlight[m]
    BY <1>1, <1>2
  <1>4. IsABag(inFlight') /\ BagToSet(inFlight') = Messages \ lost
    BY <1>3 DEF IsABag, BagToSet
  <1>5. page' \in [Watched -> Pages] /\ page'[u] = Closed
    BY <1>0, <1>1, NewPageType, TypeFacts
  <1>6. Leaving' = Leaving
    BY <1>1 DEF Leaving
  <1>7. Base'
    BY <1>0, <1>1, <1>4, <1>5, <1>6, TypeFacts, TypeNow
  <1>8. \A v \in Watched : v # u => Aside(v)
    BY <1>0, <1>1, <1>4, MineFacts, TypeFacts DEF Aside, MineNow, lost
  <1>9. ~page'[u].open
    BY <1>5 DEF Closed, NewPage
  <1>10. /\ \A m \in Messages' : m \in Messages /\ ~(m.user = u /\ m.op # "CHANGE_GAME_OPTIONS")
         /\ \A m \in Messages : m.op = "CHANGE_GAME_OPTIONS" => m \in Messages' /\ inFlight'[m] = inFlight[m]
    BY <1>0, <1>3, <1>4, TypeFacts DEF lost
  <1> QED
    BY <1>1, <1>7, <1>8, <1>9, <1>10

\* A change of the options comes to the server.
LEMMA ServeChangeFacts ==
    ASSUME Base, NEW m \in Messages, Serve(m), m.op = "CHANGE_GAME_OPTIONS"
    PROVE  /\ Base'
           /\ \A v \in Watched : v # m.user => Aside(v)
           /\ events' = events /\ page' = page /\ game' = game /\ slips' = slips
           /\ Messages' \subseteq Messages
           /\ \A n \in Messages : n # m => n \in Messages' /\ inFlight'[n] = inFlight[n]
           /\ inFlight[m] = 1 => m \notin Messages'
           /\ halfway' = IF m.user \in Members(game) /\ IsHost(game, m.user)
                           THEN halfway \cup {[task |-> "change", user |-> m.user, form |-> m.form, field |-> m.field]}
                           ELSE halfway
  <1> DEFINE h == [task |-> "change", user |-> m.user, form |-> m.form, field |-> m.field]
  <1>0. TypeOK
    BY DEF Base
  <1>1. /\ inFlight' = inFlight (-) SetToBag({m})
        /\ halfway' = IF m.user \in Members(game) /\ IsHost(game, m.user) THEN halfway \cup {h} ELSE halfway
        /\ events' = events /\ page' = page /\ game' = game /\ slips' = slips
    BY DEF Serve, ServeChange, ServeRead, Rest, MayChange, IsHost
  <1>2. h \in Tasks /\ h.task = "change"
    BY <1>0, TypeFacts DEF Tasks
  <1> HIDE DEF h
  <1>3. /\ IsABag(inFlight') /\ BagToSet(inFlight') \subseteq BagToSet(inFlight)
        /\ \A n \in BagToSet(inFlight) : n # m => n \in BagToSet(inFlight') /\ inFlight'[n] = inFlight[n]
        /\ inFlight[m] = 1 => m \notin BagToSet(inFlight')
    <2>1. Drops(inFlight, inFlight', m)
      BY <1>0, <1>1, DropOne, TypeFacts
    <2> QED
      BY <2>1 DEF Drops
  <1>4. Leaving' = Leaving
    BY <1>1, <1>2 DEF Leaving
  <1>5. halfway' \subseteq Tasks
    BY <1>0, <1>1, <1>2, TypeFacts
  <1>6. Base'
    BY <1>0, <1>1, <1>3, <1>4, <1>5, TypeFacts, TypeNow
  <1>7. \A v \in Watched : v # m.user => Aside(v)
    BY <1>0, <1>1, <1>3, MineFacts, TypeFacts DEF Aside, MineNow
  <1> QED
    BY <1>0, <1>1, <1>3, <1>6, <1>7, TypeFacts DEF h

Answer(m) == [m EXCEPT !.answered = TRUE, !.data = game, !.ahead = Len(events[m.user])]

\* The game is read, or not.
LEMMA ServeReadFacts ==
    ASSUME Base, NEW m \in Messages, Serve(m), m.op # "CHANGE_GAME_OPTIONS"
    PROVE  /\ Base'
           /\ \A v \in Watched : v # m.user => Aside(v)
           /\ UNCHANGED <<events, page, game, halfway>> /\ slips \subseteq slips'
           /\ Answer(m).op = m.op /\ Answer(m).user = m.user
           /\ Answer(m).answered /\ Answer(m).data = game /\ Answer(m).ahead = Len(events[m.user])
           /\ \A n \in Messages' : n \in Messages \/ n = Answer(m)
           /\ \A n \in Messages : n # m /\ n # Answer(m) => n \in Messages' /\ inFlight'[n] = inFlight[n]
           /\ m.user \in Members(game) => Answer(m) \in Messages'
           /\ m.user \in Members(game) /\ m.op = "GET_GAME_INFO" =>
                "lateHost" \in slips' \/ ~HostIsGone(game)
  <1> DEFINE r == Answer(m)
  <1>0. TypeOK
    BY DEF Base
  <1>1. /\ inFlight' = IF m.user \in Members(game)
                         THEN (inFlight (-) SetToBag({m})) (+) SetToBag({r})
                         ELSE inFlight (-) SetToBag({m})
        /\ Slip(If("lateHost", m.op = "GET_GAME_INFO" /\ m.user \in Members(game) /\ HostIsGone(game)))
        /\ ~m.answered
        /\ UNCHANGED <<events, page, game, halfway>>
    BY DEF Serve, ServeChange, ServeRead, Rest, Answer
  <1>2. /\ slips \subseteq slips' /\ slips' \subseteq Races
        /\ m.user \in Members(game) /\ m.op = "GET_GAME_INFO" =>
                "lateHost" \in slips' \/ ~HostIsGone(game)
    BY <1>0, <1>1, SlipFacts, TypeFacts DEF If
  <1>3. m \in Requests /\ Len(events[m.user]) \in Nat
    BY <1>0, TypeFacts
  <1>4. /\ r.op = m.op /\ r.user = m.user /\ r.answered /\ r.data = game /\ r.ahead = Len(events[m.user])
        /\ r \in Requests
    BY <1>0, <1>3, TypeFacts DEF Answer, Requests
  <1> HIDE DEF r
  <1>5. RequestOK(r) /\ r # m
    BY <1>0, <1>1, <1>4, TypeFacts DEF RequestOK
  <1>6. /\ IsABag(inFlight') /\ \A n \in BagToSet(inFlight') : n \in BagToSet(inFlight) \/ n = r
        /\ \A n \in BagToSet(inFlight) : n # m /\ n # r => n \in BagToSet(inFlight') /\ inFlight'[n] = inFlight[n]
        /\ m.user \in Members(game) => r \in BagToSet(inFlight')
    <2>1. CASE m.user \in Members(game)
      <3>1. Turns(inFlight, inFlight', m, r)
        BY <1>0, <1>1, <1>5, <2>1, TurnOne, TypeFacts
      <3> QED
        BY <3>1 DEF Turns
    <2>2. CASE m.user \notin Members(game)
      <3>1. Drops(inFlight, inFlight', m)
        BY <1>0, <1>1, <2>2, DropOne, TypeFacts
      <3> QED
        BY <2>2, <3>1 DEF Drops
    <2> QED
      BY <2>1, <2>2
  <1>7. Leaving' = Leaving
    BY <1>1 DEF Leaving
  <1>8. \A n \in BagToSet(inFlight') : RequestOK(n)
    BY <1>0, <1>5, <1>6, TypeFacts
  <1>9. Base'
    BY <1>0, <1>1, <1>2, <1>6, <1>7, <1>8, TypeFacts, TypeNow
  <1>10. \A v \in Watched : v # m.user => Aside(v)
    BY <1>0, <1>1, <1>4, <1>6, MineFacts, TypeFacts DEF Aside, MineNow
  <1> QED
    BY <1>0, <1>1, <1>2, <1>4, <1>6, <1>9, <1>10, TypeFacts DEF r

\* What is learned from the answer m.
Learned(p, m) ==
    IF m.op = "GET_GAME_INFO"
      THEN [UpdateGameStatus(p, m.user, m.data) EXCEPT !.panels = @ \cup Members(m.data)]
      ELSE [p EXCEPT !.decks = [d \in Decks |-> IF d \in m.data.decks THEN 1 ELSE 0]]

LEMMA LearnedType ==
    ASSUME NEW p \in Pages, NEW m, m.data \in Games
    PROVE  Learned(p, m) \in Pages
  <1>1. [d \in Decks |-> IF d \in m.data.decks THEN 1 ELSE 0] \in [Decks -> Nat]
    OBVIOUS
  <1>2. UpdateGameStatus(p, m.user, m.data) \in Pages
    BY UpdateGameStatusType
  <1>3. Members(m.data) \subseteq Users
    BY DEF Members, Players, Games, ToSet
  <1> QED
    BY <1>1, <1>2, <1>3 DEF Learned, Pages

LEMMA LearnFacts ==
    ASSUME Base, NEW m \in Messages, Learn(m)
    PROVE  /\ Base'
           /\ m.answered /\ m.user \in Watched /\ m.data \in Games
           /\ \A v \in Watched : v # m.user => Aside(v)
           /\ UNCHANGED <<events, game, halfway>> /\ slips \subseteq slips'
           /\ page'[m.user] = IF page[m.user].open THEN Learned(page[m.user], m) ELSE page[m.user]
           /\ \A n \in Messages' : n \in Messages
           /\ \A n \in Messages : n # m => n \in Messages' /\ inFlight'[n] = inFlight[n]
           /\ m.op = "LIST_CARDSETS" /\ Early(m) => "early" \in slips'
  <1>0. TypeOK
    BY DEF Base
  <1>1. /\ m.answered /\ inFlight' = inFlight (-) SetToBag({m})
        /\ page' = IF page[m.user].open THEN [page EXCEPT ![m.user] = Learned(@, m)] ELSE page
        /\ Slip(If("early", m.op = "LIST_CARDSETS" /\ Early(m)))
        /\ UNCHANGED <<game, halfway, events>>
    BY DEF Learn, Rest, Learned
  <1>2. /\ slips \subseteq slips' /\ slips' \subseteq Races
        /\ m.op = "LIST_CARDSETS" /\ Early(m) => "early" \in slips'
    BY <1>0, <1>1, SlipFacts, TypeFacts DEF If
  <1>3. /\ IsABag(inFlight') /\ BagToSet(inFlight') \subseteq BagToSet(inFlight)
        /\ \A n \in BagToSet(inFlight) : n # m => n \in BagToSet(inFlight') /\ inFlight'[n] = inFlight[n]
    <2>1. Drops(inFlight, inFlight', m)
      BY <1>0, <1>1, DropOne, TypeFacts
    <2> QED
      BY <2>1 DEF Drops
  <1>4. /\ m.user \in Watched /\ m.data \in Games /\ page[m.user] \in Pages
    BY <1>0, <1>1, TypeFacts
  <1>5. Learned(page[m.user], m) \in Pages
    BY <1>4, LearnedType
  <1>6. /\ page' \in [Watched -> Pages]
        /\ page'[m.user] = IF page[m.user].open THEN Learned(page[m.user], m) ELSE page[m.user]
        /\ \A v \in Watched : v # m.user => page'[v] = page[v]
    BY <1>0, <1>1, <1>4, <1>5, TypeFacts
  <1>7. Leaving' = Leaving
    BY <1>1 DEF Leaving
  <1>8. Base'
    BY <1>0, <1>1, <1>2, <1>3, <1>6, <1>7, TypeFacts, TypeNow
  <1>9. \A v \in Watched : v # m.user => Aside(v)
    BY <1>0, <1>1, <1>3, <1>6, MineFacts, TypeFacts DEF Aside, MineNow
  <1> QED
    BY <1>0, <1>1, <1>2, <1>3, <1>4, <1>6, <1>8, <1>9, TypeFacts

LEMMA HandleEventFacts ==
    ASSUME Base, NEW u \in Watched, HandleEvent(u)
    PROVE  LET e == Head(events[u]) IN
           /\ Base'
           /\ events[u] # <<>> /\ events'[u] = Tail(events[u])
           /\ \A v \in Watched : v # u => Aside(v)
           /\ UNCHANGED <<game, halfway>> /\ slips \subseteq slips'
           /\ page'[u] = IF page[u].open THEN Handled(page[u], u, e) ELSE page[u]
           /\ \A n \in Messages' :
                 \/ \E m \in Messages : n = Closer(m, u)
                 \/ page[u].open /\ n = Request(u, "GET_GAME_INFO", None, None)
           /\ \A m \in Messages : Closer(m, u) \in Messages'
           /\ page[u].open /\ Refreshes(e, u) => Request(u, "GET_GAME_INFO", None, None) \in Messages'
           /\ \A m \in Messages : m.op = "CHANGE_GAME_OPTIONS" => m \in Messages' /\ inFlight'[m] = inFlight[m]
           /\ AnswerIsDue(u) => "overtaken" \in slips'
  <1> DEFINE e == Head(events[u])
             r == Request(u, "GET_GAME_INFO", None, None)
             asks == page[u].open /\ Refreshes(e, u)
             C == OneLess(u)
  <1>0. TypeOK
    BY DEF Base
  <1>1. /\ events[u] # <<>> /\ events' = [events EXCEPT ![u] = Tail(@)]
        /\ page' = IF page[u].open THEN [page EXCEPT ![u] = Handled(@, u, e)] ELSE page
        /\ inFlight' = C (+) (IF asks THEN SetToBag({r}) ELSE EmptyBag)
        /\ Slip(If("overtaken", AnswerIsDue(u)))
        /\ UNCHANGED <<game, halfway>>
    BY DEF HandleEvent, Ask
  <1>2. /\ slips \subseteq slips' /\ slips' \subseteq Races
        /\ AnswerIsDue(u) => "overtaken" \in slips'
    BY <1>0, <1>1, SlipFacts, TypeFacts DEF If
  <1>3. RequestOK(r) /\ r.user = u /\ r.op = "GET_GAME_INFO"
    BY RequestType DEF Ops, Request
  <1>4. /\ IsABag(C) /\ BagToSet(C) = {Closer(n, u) : n \in Messages}
        /\ \A m \in BagToSet(C) : RequestOK(m)
        /\ \A m \in Messages : m.user # u \/ ~m.answered => m \in BagToSet(C) /\ C[m] = inFlight[m]
    BY <1>0, TypeFacts, OneLessFacts
  <1>5. e \in Events /\ events[u] \in Seq(Events) /\ Tail(events[u]) \in Seq(Events)
    BY <1>0, <1>1, TypeFacts
  <1> HIDE DEF r, C, e
  <1>6. /\ IsABag(inFlight')
        /\ BagToSet(inFlight') = IF asks THEN BagToSet(C) \cup {r} ELSE BagToSet(C)
        /\ \A m \in BagToSet(C) : m # r => inFlight'[m] = C[m]
    <2>1. CASE asks
      <3>1. Adds(C, inFlight', r)
        BY <1>1, <1>4, <2>1, AddOne
      <3> QED
        BY <2>1, <3>1 DEF Adds
    <2>2. CASE ~asks
      BY <1>1, <1>4, <2>2, AddNone
    <2> QED
      BY <2>1, <2>2
  <1>7. \A m \in BagToSet(inFlight') : RequestOK(m)
    BY <1>3, <1>4, <1>6
  <1>8. /\ page' \in [Watched -> Pages] /\ \A v \in Watched : v # u => page'[v] = page[v]
        /\ page'[u] = IF page[u].open THEN Handled(page[u], u, e) ELSE page[u]
    <2>1. page[u] \in Pages /\ Handled(page[u], u, e) \in Pages
      BY <1>0, <1>5, TypeFacts, HandledType
    <2> QED
      BY <1>0, <1>1, <2>1, TypeFacts
  <1>9. /\ events' \in [Watched -> Seq(Events)] /\ \A v \in Watched : v # u => events'[v] = events[v]
        /\ events'[u] = Tail(events[u])
    BY <1>0, <1>1, <1>5, TypeFacts
  <1>10. Leaving' = Leaving
    BY <1>1 DEF Leaving
  <1>11. halfway' \subseteq Tasks /\ game' = game
    BY <1>0, <1>1, TypeFacts
  <1>12. Base'
    BY <1>2, <1>6, <1>7, <1>8, <1>9, <1>10, <1>11, TypeNow
  <1>13. ASSUME NEW v \in Watched, v # u
         PROVE  Aside(v)
    <2>1. Mine(v)' \subseteq Mine(v)
      <3> SUFFICES ASSUME NEW n \in BagToSet(inFlight'), n.user = v
                   PROVE  n \in Messages
        BY MineFacts, <1>0, TypeFacts DEF MineNow
      <3>1. PICK m \in Messages : n = Closer(m, u)
        BY <1>3, <1>4, <1>6, <1>13
      <3>2. m.user = v /\ n = m
        BY <1>0, <1>13, <3>1, CloserFacts, TypeFacts
      <3> QED
        BY <3>2
    <2>2. Mine(v) \subseteq Mine(v)'
      BY <1>0, <1>4, <1>6, <1>13, MineFacts, TypeFacts DEF MineNow
    <2> QED
      BY <1>8, <1>9, <1>13, <2>1, <2>2 DEF Aside
  <1>14. /\ \A n \in Messages' :
                 \/ \E m \in Messages : n = Closer(m, u)
                 \/ page[u].open /\ n = r
         /\ \A m \in Messages : Closer(m, u) \in Messages'
         /\ page[u].open /\ Refreshes(e, u) => r \in Messages'
    BY <1>0, <1>4, <1>6, TypeFacts
  <1>15. \A m \in Messages : m.op = "CHANGE_GAME_OPTIONS" => m \in Messages' /\ inFlight'[m] = inFlight[m]
    BY <1>0, <1>3, <1>4, <1>6, TypeFacts
  <1>16. UNCHANGED <<game, halfway>>
    BY <1>1
  <1> QED
    BY <1>1, <1>2, <1>8, <1>9, <1>12, <1>13, <1>14, <1>15, <1>16 DEF r, e

LEMMA OptionChangedFacts ==
    ASSUME Base, NEW u \in Watched, NEW f \in Fields, NEW v \in Values, OptionChanged(u, f, v)
    PROVE  LET form == [page[u].form EXCEPT ![f] = v]
               r == Request(u, "CHANGE_GAME_OPTIONS", form, f) IN
           /\ Base'
           /\ page[u].open /\ page[u].shown /\ page[u].enabled
           /\ page'[u] = [page[u] EXCEPT !.form = form]
           /\ \A w \in Watched : w # u => Aside(w)
           /\ UNCHANGED <<game, halfway, events>> /\ slips \subseteq slips'
           /\ Messages' = Messages \cup {r}
           /\ r.user = u /\ r.op = "CHANGE_GAME_OPTIONS" /\ r.form = form /\ r.field = f /\ ~r.answered
           /\ \A m \in Messages : m # r => inFlight'[m] = inFlight[m]
           /\ r \notin Messages => inFlight'[r] = 1
           /\ Behind(u) => "hasty" \in slips'
  <1> DEFINE form == [page[u].form EXCEPT ![f] = v]
             r == Request(u, "CHANGE_GAME_OPTIONS", form, f)
             p == [page[u] EXCEPT !.form = form]
  <1>0. TypeOK
    BY DEF Base
  <1>1. /\ page[u].open /\ page[u].shown /\ page[u].enabled
        /\ page' = [page EXCEPT ![u].form[f] = v]
        /\ inFlight' = inFlight (+) SetToBag({Request(u, "CHANGE_GAME_OPTIONS", page'[u].form, f)})
        /\ Slip(If("hasty", Behind(u)))
        /\ UNCHANGED <<game, halfway, events>>
    BY DEF OptionChanged
  <1>2. page \in [Watched -> Pages] /\ page[u] \in Pages /\ page[u].form \in Forms
    BY <1>0, TypeFacts DEF Pages
  <1>3. form \in Forms
    BY <1>2 DEF Forms
  <1>4. page' = [page EXCEPT ![u] = p]
    BY <1>1, <1>2 DEF Pages
  <1> HIDE DEF form
  <1>5. p \in Pages /\ p.form = form
    BY <1>2, <1>3 DEF Pages
  <1> HIDE DEF p
  <1>6. /\ page' \in [Watched -> Pages] /\ page'[u] = p
        /\ \A w \in Watched : w # u => page'[w] = page[w]
    BY <1>2, <1>4, <1>5
  <1>7. inFlight' = inFlight (+) SetToBag({r})
    BY <1>1, <1>5, <1>6
  <1>8. RequestOK(r)
    BY <1>3, RequestType DEF Ops
  <1>9. r.user = u /\ r.op = "CHANGE_GAME_OPTIONS" /\ r.form = form /\ r.field = f /\ ~r.answered
    BY DEF Request
  <1> HIDE DEF r
  <1>10. /\ IsABag(inFlight') /\ BagToSet(inFlight') = BagToSet(inFlight) \cup {r}
         /\ \A m \in BagToSet(inFlight) : m # r => inFlight'[m] = inFlight[m]
         /\ r \notin BagToSet(inFlight) => inFlight'[r] = 1
    <2>1. Adds(inFlight, inFlight', r)
      BY <1>0, <1>7, AddOne, TypeFacts
    <2> QED
      BY <2>1 DEF Adds
  <1>11. slips \subseteq slips' /\ slips' \subseteq Races /\ (Behind(u) => "hasty" \in slips')
    BY <1>0, <1>1, SlipFacts, TypeFacts DEF If
  <1>12. Leaving' = Leaving
    BY <1>1 DEF Leaving
  <1>13. Base'
    BY <1>0, <1>1, <1>6, <1>8, <1>10, <1>11, <1>12, TypeFacts, TypeNow
  <1>14. \A w \in Watched : w # u => Aside(w)
    <2>1. events' = events
      BY <1>1
    <2>2. \A w \in Watched : w # u => MineNow(w) = Mine(w)
      BY <1>9, <1>10, MineFacts DEF MineNow
    <2> QED
      BY <1>6, <2>1, <2>2, MineFacts DEF Aside
  <1>15. UNCHANGED <<game, halfway, events>> /\ page'[u] = [page[u] EXCEPT !.form = form]
    BY <1>1, <1>6 DEF p
  <1> QED
    BY <1>0, <1>1, <1>9, <1>10, <1>11, <1>13, <1>14, <1>15, TypeFacts DEF r, form

LEMMA ShowOptionsClickFacts ==
    ASSUME Base, NEW u \in Watched, ShowOptionsClick(u)
    PROVE  /\ Base' /\ page[u].open
           /\ page'[u] \in {ShowOptions(page[u], u), HideOptions(page[u])}
           /\ \A w \in Watched : w # u => Aside(w)
           /\ UNCHANGED <<game, halfway, events, inFlight>> /\ slips \subseteq slips'
           /\ page'[u].shown /\ page'[u].enabled /\ game.state # "LOBBY" => "shownInGame" \in slips'
  <1>0. TypeOK
    BY DEF Base
  <1>1. /\ page[u].open
        /\ \E p \in {ShowOptions(page[u], u), HideOptions(page[u])} : page' = [page EXCEPT ![u] = p]
        /\ Slip(If("shownInGame", page'[u].shown /\ page'[u].enabled /\ game.state # "LOBBY"))
        /\ UNCHANGED <<game, halfway, events, inFlight>>
    BY DEF ShowOptionsClick
  <1>2. PICK p \in {ShowOptions(page[u], u), HideOptions(page[u])} : page' = [page EXCEPT ![u] = p]
    BY <1>1
  <1>3. page \in [Watched -> Pages] /\ page[u] \in Pages /\ p \in Pages
    BY <1>0, TypeFacts, ShowType
  <1>4. page' \in [Watched -> Pages] /\ page'[u] = p /\ \A w \in Watched : w # u => page'[w] = page[w]
    BY <1>2, <1>3
  <1>5. /\ slips \subseteq slips' /\ slips' \subseteq Races
        /\ page'[u].shown /\ page'[u].enabled /\ game.state # "LOBBY" => "shownInGame" \in slips'
    BY <1>0, <1>1, SlipFacts, TypeFacts DEF If
  <1>6. Leaving' = Leaving
    BY <1>1 DEF Leaving
  <1>7. Base'
    BY <1>0, <1>1, <1>4, <1>5, <1>6, TypeFacts, TypeNow
  <1>8. \A w \in Watched : w # u => Aside(w)
    BY <1>1, <1>4, MineFacts DEF Aside, MineNow
  <1> QED
    BY <1>1, <1>2, <1>4, <1>5, <1>7, <1>8

LEMMA BaseInit == Init => Base
  <1> SUFFICES ASSUME Init
               PROVE  Base
    OBVIOUS
  <1>1. PICK ps \in SetToAllKPermutations(Users) \ {<<>>}, ss \in SUBSET Users, state \in {"LOBBY", "PLAYING"} :
          /\ ss \cap ToSet(ps) = {}
          /\ game = [state |-> state, players |-> ps, spectators |-> ss, host |-> Head(ps),
                     options |-> [f \in Fields |-> Default], decks |-> {}]
    BY DEF Init
  <1>2. ps \in Seq(Users) /\ ListOK(ps)
    BY InitialLists
  <1>3. Head(ps) \in ToSet(ps) /\ Head(ps) \in Users
    BY <1>2, HeadFacts
  <1>4. [f \in Fields |-> Default] \in Forms
    BY LobbyAssumption DEF Forms
  <1>5. /\ game \in Games /\ game.players = ps /\ game.spectators = ss /\ game.host = Head(ps)
    BY <1>1, <1>2, <1>3, <1>4 DEF Games, States
  <1>6. /\ halfway = {} /\ slips = {} /\ events = [u \in Watched |-> <<>>]
        /\ page = [u \in Watched |-> Closed] /\ inFlight = EmptyBag
    BY DEF Init
  <1>7. events \in [Watched -> Seq(Events)] /\ page \in [Watched -> Pages]
    BY <1>6, NewPageType
  <1>8. IsABag(inFlight) /\ Messages = {}
    BY <1>6, NoneIsABag DEF Messages
  <1>9. TypeOK
    BY <1>2, <1>5, <1>6, <1>7, <1>8 DEF TypeOK
  <1>10. Staying
    BY <1>1, <1>3, <1>5, <1>6 DEF Staying, Leaving, Members, Players, HostIsGone
  <1> QED
    BY <1>9, <1>10 DEF Base

LEMMA ServerBase ==
    ASSUME Base, NEW t, ServerStep(t), Staying'
    PROVE  Base'
  <1>1. /\ game' \in Games /\ ListOK(game'.players) /\ t \in Seq(Events) /\ events' = Told(game', t)
        /\ inFlight' = inFlight /\ page' = page /\ slips' \subseteq Races /\ halfway' \subseteq Tasks
    BY DEF ServerStep, Announced
  <1>2. events' \in [Watched -> Seq(Events)]
    BY <1>1, ToldType DEF Base, TypeOK
  <1>3. Messages' = Messages
    BY <1>1 DEF Messages
  <1>4. TypeOK'
    BY <1>1, <1>2, <1>3 DEF Base, TypeOK
  <1> QED
    BY <1>4 DEF Base

\* Every step is one of the server, or one of these.
LEMMA Steps ==
    ASSUME Base, [Next]_vars
    PROVE  \/ Staying' /\ \E t : ServerStep(t)
           \/ \E u \in Watched : Enter(u) \/ Exit(u) \/ Reload(u) \/ HandleEvent(u) \/ ShowOptionsClick(u)
           \/ \E u \in Watched, f \in Fields, v \in Values : OptionChanged(u, f, v)
           \/ \E m \in Messages : Serve(m) \/ Learn(m)
           \/ UNCHANGED vars
  <1>1. CASE \E u \in Users :
               JoinGame(u) \/ SpectateGame(u) \/ LeaveSpectator(u) \/ LeaveGame(u) \/ ChangeHost(u)
    BY <1>1, JoinServer, SpectateServer, LeaveSpectatorServer, LeaveServer, ChangeHostServer
  <1>2. CASE \E u \in Users \ Watched, f \in Fields, v \in Values : OthersChange(u, f, v)
    BY <1>2, OthersChangeServer
  <1>3. CASE \E d \in Decks : AddCardset(d) \/ RemoveCardset(d)
    BY <1>3, DeckServer
  <1>4. CASE Start \/ NextRound \/ Stop
    BY <1>4, StartServer, NextRoundServer, StopServer
  <1>5. CASE \E h \in halfway : FinishLeaving(h) \/ FinishChange(h)
    BY <1>5, FinishLeavingServer, FinishChangeServer
  <1> QED
    BY <1>1, <1>2, <1>3, <1>4, <1>5 DEF Next

LEMMA BaseStep == Base /\ [Next]_vars => Base'
  <1> SUFFICES ASSUME Base, [Next]_vars
               PROVE  Base'
    OBVIOUS
  <1>1. CASE Staying' /\ \E t : ServerStep(t)
    BY <1>1, ServerBase
  <1>2. CASE \E u \in Watched : Enter(u) \/ Exit(u) \/ Reload(u) \/ HandleEvent(u) \/ ShowOptionsClick(u)
    BY <1>2, EnterFacts, ExitFacts, ReloadFacts, HandleEventFacts, ShowOptionsClickFacts
  <1>3. CASE \E u \in Watched, f \in Fields, v \in Values : OptionChanged(u, f, v)
    BY <1>3, OptionChangedFacts
  <1>4. CASE \E m \in Messages : Serve(m)
    BY <1>4, ServeChangeFacts, ServeReadFacts
  <1>5. CASE \E m \in Messages : Learn(m)
    BY <1>5, LearnFacts
  <1>6. CASE UNCHANGED vars
    BY <1>6 DEF vars, Base, TypeOK, Staying, Messages, Leaving, Players, Members, HostIsGone
  <1> QED
    BY <1>1, <1>2, <1>3, <1>4, <1>5, <1>6, Steps

\* For any users, options, decks and bounds: the game, the events, the requests and answers under
\* way and the pages keep their types; nobody plays and watches at once, who is still leaving has
\* not come back, and a host that is no player is one that is leaving (addPlayer, addSpectator,
\* removePlayer, GameOptions.update, cah.Game).
THEOREM LobbyTyped == Spec => []Base
  <1>1. Init => Base
    BY BaseInit
  <1>2. Base /\ [Next]_vars => Base'
    BY BaseStep
  <1> QED
    BY <1>1, <1>2, PTL DEF Spec

-----------------------------------------------------------------------------
(* What a page shows of the game, when all is in order.                    *)

PageOK(u) ==
    /\ FormOK(u, page[u], game, slips, ToCome(u), Infos(u), Changes(u), halfway)
    /\ PeopleOK(u, page[u], game, slips, ToCome(u), Infos(u))
    /\ ButtonsOK(u, page[u], game, slips, ToCome(u), Infos(u))

HeardOK(u) ==
    /\ EventsOK(u, events[u], game, slips)
    /\ AnswersOK(u, Infos(u), events[u], game, slips)
    /\ page[u].open => PageOK(u)
    /\ ~page[u].open => Infos(u) = {} /\ Lists(u) = {}

HeardInv == InOrder(slips) => \A u \in Watched : u \in Members(game) => HeardOK(u)

LEMMA MineSame ==
    ASSUME NEW u, Mine(u)' = Mine(u)
    PROVE  Infos(u)' = Infos(u) /\ Lists(u)' = Lists(u) /\ Changes(u)' = Changes(u)
  BY DEF Infos, Lists, Changes

LEMMA SlipsInOrder ==
    ASSUME slips \subseteq slips', InOrder(slips')
    PROVE  InOrder(slips) /\ "soonBack" \notin slips' /\ "overtaken" \notin slips'
  BY DEF InOrder

LEMMA EventMore ==
    ASSUME NEW u, NEW e \in Events, NEW g \in Games, NEW s, NEW S, NEW T, EventOK(u, e, g, s, S)
    PROVE  EventOK(u, e, g, s, S \cup T)
  BY TellsSame, EventTold

LEMMA FreshMore ==
    ASSUME NEW u, NEW x \in Games, NEW g \in Games, NEW s, NEW S, NEW R, S \subseteq R, Fresh(u, x, g, s, S)
    PROVE  Fresh(u, x, g, s, R)
  <1>1. S \cup R = R
    OBVIOUS
  <1>2. Fresh(u, x, g, s, S \cup R)
    BY TellsSame, FreshTold
  <1> QED
    BY <1>1, <1>2

LEMMA EventsOKTold ==
    ASSUME NEW u, NEW q \in Seq(Events), NEW t \in Seq(Events), NEW g \in Games, NEW h \in Games, NEW s, NEW r,
           s \subseteq r, EventsOK(u, q, g, s), q = <<>> \/ Tells(u, g, h, r, ToSet(t)),
           \A e \in ToSet(t) : EventOK(u, e, h, r, {})
    PROVE  EventsOK(u, q \o t, h, r)
  <1> DEFINE p == q \o t
  <1>1. /\ Len(q) \in Nat /\ Len(t) \in Nat /\ Len(p) = Len(q) + Len(t)
        /\ \A i \in 1..Len(q) : p[i] = q[i]
        /\ \A i \in 1..Len(t) : p[Len(q) + i] = t[i]
        /\ \A i \in 1..Len(q) : q[i] \in Events
        /\ \A i \in 1..Len(t) : t[i] \in Events
    OBVIOUS
  <1>2. ASSUME NEW i \in 1..Len(q)
        PROVE  EventOK(u, p[i], h, r, After(p, i))
    <2>1. After(p, i) = After(q, i) \cup ToSet(t)
      BY <1>1, AfterAppend
    <2>2. EventOK(u, q[i], g, s, After(q, i)) /\ q[i] \in Events /\ Tells(u, g, h, r, ToSet(t))
      BY <1>1 DEF EventsOK
    <2>3. EventOK(u, q[i], h, r, After(q, i) \cup ToSet(t))
      BY <2>2, EventTold
    <2> QED
      BY <1>1, <2>1, <2>3
  <1> HIDE DEF p
  <1>3. ASSUME NEW i \in 1..Len(p), i > Len(q)
        PROVE  EventOK(u, p[i], h, r, After(p, i))
    <2>1. i - Len(q) \in 1..Len(t) /\ Len(q) + (i - Len(q)) = i
      BY <1>1, <1>3
    <2>2. p[i] = t[i - Len(q)] /\ p[i] \in Events
      BY <1>1, <2>1
    <2>3. p[i] \in ToSet(t)
      BY <2>1, <2>2 DEF ToSet
    <2>4. EventOK(u, p[i], h, r, {})
      BY <2>3
    <2>5. EventOK(u, p[i], h, r, {} \cup After(p, i))
      BY <2>2, <2>4, EventMore
    <2>6. {} \cup After(p, i) = After(p, i)
      OBVIOUS
    <2> QED
      BY <2>5, <2>6
  <1>4. EventsOK(u, p, h, r)
    BY <1>1, <1>2, <1>3 DEF EventsOK
  <1> QED
    BY <1>4 DEF p

LEMMA AnswersOKTold ==
    ASSUME NEW u, NEW I, \A m \in I : m.ahead \in Nat /\ (m.answered => m.data \in Games),
           NEW q \in Seq(Events), NEW t \in Seq(Events), NEW g \in Games, NEW h \in Games, NEW s, NEW r,
           s \subseteq r, AnswersOK(u, I, q, g, s), Tells(u, g, h, r, ToSet(t))
    PROVE  AnswersOK(u, I, q \o t, h, r)
  <1> DEFINE p == q \o t
  <1>1. Len(q) \in Nat /\ Len(t) \in Nat /\ Len(p) = Len(q) + Len(t)
    OBVIOUS
  <1>2. ASSUME NEW m \in I, m.answered
        PROVE  m.ahead <= Len(p) /\ Fresh(u, m.data, h, r, After(p, m.ahead))
    <2>1. m.ahead <= Len(q) /\ Fresh(u, m.data, g, s, After(q, m.ahead)) /\ m.ahead \in Nat /\ m.data \in Games
      BY <1>2 DEF AnswersOK
    <2>2. After(p, m.ahead) = After(q, m.ahead) \cup ToSet(t)
      BY <2>1, AfterAppend
    <2>3. Fresh(u, m.data, h, r, After(q, m.ahead) \cup ToSet(t))
      BY <2>1, FreshTold
    <2>4. m.ahead <= Len(p)
      BY <1>1, <2>1
    <2> QED
      BY <2>2, <2>3, <2>4
  <1> QED
    BY <1>2 DEF AnswersOK

LEMMA ServerHeard ==
    ASSUME Base, NEW t, ServerStep(t), HeardInv, InOrder(slips'), NEW u \in Watched, u \in Members(game')
    PROVE  HeardOK(u)'
  <1>1. /\ game \in Games /\ game' \in Games /\ t \in Seq(Events) /\ events' = Told(game', t)
        /\ inFlight' = inFlight /\ page' = page
        /\ slips \subseteq slips'
        /\ \A c \in halfway \ halfway' : c.task = "change" => WithOptions(ToSet(t))
        /\ \A e \in ToSet(t) : EventOK(u, e, game', slips', {})
        /\ u \in Members(game) => Tells(u, game, game', slips', ToSet(t))
        /\ u \notin Members(game) => Newcomer(u)
    BY StayingFacts DEF ServerStep, Announced
  <1>2. /\ events \in [Watched -> Seq(Events)] /\ events[u] \in Seq(Events)
        /\ page[u] \in Pages
        /\ \A m \in Infos(u) : m.ahead \in Nat /\ (m.answered => m.data \in Games)
    BY TypeFacts DEF Base, Infos, Mine
  <1>3. events'[u] = events[u] \o t
    BY <1>1, <1>2, ToldType
  <1>4. Infos(u)' = Infos(u) /\ Lists(u)' = Lists(u) /\ Changes(u)' = Changes(u)
    BY <1>1 DEF Infos, Lists, Changes, Mine, Messages
  <1>5. InOrder(slips) /\ "soonBack" \notin slips'
    BY <1>1, SlipsInOrder
  <1>6. CASE u \notin Members(game)
    <2>1. events[u] = <<>> /\ Mine(u) = {} /\ ~page[u].open
      BY <1>1, <1>5, <1>6 DEF Newcomer
    <2>2. Infos(u) = {} /\ Lists(u) = {}
      BY <2>1 DEF Infos, Lists
    <2>3. EventsOK(u, <<>>, game, slips)
      BY DEF EventsOK
    <2>4. EventsOK(u, events[u] \o t, game', slips')
      BY <1>1, <1>2, <2>1, <2>3, EventsOKTold
    <2>5. AnswersOK(u, {}, events[u] \o t, game', slips')
      BY DEF AnswersOK
    <2> QED
      BY <1>1, <1>3, <1>4, <2>1, <2>2, <2>4, <2>5 DEF HeardOK
  <1>7. CASE u \in Members(game)
    <2>1. HeardOK(u) /\ Tells(u, game, game', slips', ToSet(t))
      BY <1>1, <1>5, <1>7 DEF HeardInv
    <2>2. EventsOK(u, events[u] \o t, game', slips')
      BY <1>1, <1>2, <2>1, EventsOKTold DEF HeardOK
    <2>3. AnswersOK(u, Infos(u), events[u] \o t, game', slips')
      BY <1>1, <1>2, <2>1, AnswersOKTold DEF HeardOK
    <2>4. After(events[u] \o t, 0) = After(events[u], 0) \cup ToSet(t)
      BY <1>1, <1>2, AfterAppend
    <2>5. ToCome(u)' = ToCome(u) \cup ToSet(t)
      BY <1>3, <2>4 DEF ToCome
    <2>6. ASSUME page[u].open
          PROVE  PageOK(u)'
      <3>1. PageOK(u)
        BY <2>1, <2>6 DEF HeardOK
      <3>2. FormOK(u, page[u], game', slips', ToCome(u) \cup ToSet(t), Infos(u), Changes(u), halfway')
        BY <1>1, <1>2, <2>1, <3>1, FormTold DEF PageOK
      <3>3. PeopleOK(u, page[u], game', slips', ToCome(u) \cup ToSet(t), Infos(u))
        BY <1>1, <1>2, <2>1, <3>1, PeopleTold DEF PageOK
      <3>4. ButtonsOK(u, page[u], game', slips', ToCome(u) \cup ToSet(t), Infos(u))
        BY <1>1, <1>2, <2>1, <3>1, ButtonsTold DEF PageOK
      <3> QED
        BY <1>1, <1>4, <2>5, <3>2, <3>3, <3>4 DEF PageOK
    <2> QED
      BY <1>1, <1>3, <1>4, <2>1, <2>2, <2>3, <2>6 DEF HeardOK
  <1> QED
    BY <1>6, <1>7

\* More may go wrong, and changes may come to the server.
LEMMA LessPromised ==
    ASSUME NEW u, NEW g, NEW s, NEW r, s \subseteq r
    PROVE  /\ \A x, S : Fresh(u, x, g, s, S) => Fresh(u, x, g, r, S)
           /\ \A q : EventsOK(u, q, g, s) => EventsOK(u, q, g, r)
           /\ \A I, q : AnswersOK(u, I, q, g, s) => AnswersOK(u, I, q, g, r)
           /\ \A p, S, I : PeopleOK(u, p, g, s, S, I) => PeopleOK(u, p, g, r, S, I)
           /\ \A p, S, I : ButtonsOK(u, p, g, s, S, I) => ButtonsOK(u, p, g, r, S, I)
           /\ \A p, S, I, C, w, v : FormOK(u, p, g, s, S, I, C, w) /\ w \subseteq v => FormOK(u, p, g, r, S, I, C, v)
  <1>1. ASSUME NEW x, NEW S, Fresh(u, x, g, s, S)
        PROVE  Fresh(u, x, g, r, S)
    BY <1>1 DEF Fresh, FreshHost
  <1>2. ASSUME NEW e, NEW S, EventOK(u, e, g, s, S)
        PROVE  EventOK(u, e, g, r, S)
    BY <1>1, <1>2 DEF EventOK
  <1>3. \A q : EventsOK(u, q, g, s) => EventsOK(u, q, g, r)
    BY <1>2 DEF EventsOK
  <1>4. \A I, q : AnswersOK(u, I, q, g, s) => AnswersOK(u, I, q, g, r)
    BY <1>1 DEF AnswersOK
  <1>5. \A p, S, I : PeopleOK(u, p, g, s, S, I) => PeopleOK(u, p, g, r, S, I)
    BY DEF PeopleOK
  <1>6. ASSUME NEW p, NEW S, NEW I, ButtonsOK(u, p, g, s, S, I)
        PROVE  ButtonsOK(u, p, g, r, S, I)
    BY <1>6 DEF ButtonsOK
  <1>7. ASSUME NEW p, NEW S, NEW I, NEW C, NEW w, NEW v, FormOK(u, p, g, s, S, I, C, w), w \subseteq v
        PROVE  FormOK(u, p, g, r, S, I, C, v)
    <2>1. OwnChange(u, g, C, w) => OwnChange(u, g, C, v)
      BY <1>7 DEF OwnChange
    <2> QED
      BY <1>7, <2>1 DEF FormOK
  <1> QED
    BY <1>1, <1>3, <1>4, <1>5, <1>6, <1>7

LEMMA AsideHeard ==
    ASSUME Base, game' = game, halfway \subseteq halfway', slips \subseteq slips',
           NEW u \in Watched, Aside(u), HeardOK(u)
    PROVE  HeardOK(u)'
  <1>1. events'[u] = events[u] /\ page'[u] = page[u]
    BY DEF Aside
  <1>2. Infos(u)' = Infos(u) /\ Lists(u)' = Lists(u) /\ Changes(u)' = Changes(u)
    BY MineSame DEF Aside
  <1>3. ToCome(u)' = ToCome(u)
    BY <1>1 DEF ToCome
  <1>4. EventsOK(u, events[u], game, slips') /\ AnswersOK(u, Infos(u), events[u], game, slips')
    BY LessPromised DEF HeardOK
  <1>5. ASSUME page[u].open
        PROVE  PageOK(u)'
    <2>1. PageOK(u)
      BY <1>5 DEF HeardOK
    <2>2. FormOK(u, page[u], game, slips', ToCome(u), Infos(u), Changes(u), halfway')
      BY <2>1, LessPromised DEF PageOK
    <2>3. PeopleOK(u, page[u], game, slips', ToCome(u), Infos(u))
      BY <2>1, LessPromised DEF PageOK
    <2>4. ButtonsOK(u, page[u], game, slips', ToCome(u), Infos(u))
      BY <2>1, LessPromised DEF PageOK
    <2> QED
      BY <1>1, <1>2, <1>3, <2>2, <2>3, <2>4 DEF PageOK
  <1> QED
    BY <1>1, <1>2, <1>4, <1>5 DEF HeardOK

LEMMA EnterHeard ==
    ASSUME Base, NEW u \in Watched, Enter(u), HeardOK(u)
    PROVE  HeardOK(u)'
  <1>1. /\ page'[u] = NewPage
        /\ Request(u, "GET_GAME_INFO", None, None) \in Messages'
        /\ \A m \in Messages' : m \notin Messages => m.user = u /\ m.op # "CHANGE_GAME_OPTIONS" /\ ~m.answered
        /\ game' = game /\ halfway' = halfway /\ events' = events /\ slips' = slips
    BY EnterFacts
  <1>2. Infos(u) = {}
    BY DEF HeardOK, Enter
  <1>3. Infos(u)' # {}
    BY <1>1 DEF Infos, Mine, Request
  <1>4. \A m \in Infos(u)' : ~m.answered
    BY <1>1, <1>2 DEF Infos, Mine
  <1>5. EventsOK(u, events[u], game, slips)
    BY DEF HeardOK
  <1>6. PageOK(u)'
    <2> DEFINE p == NewPage
    <2>1. /\ p.state = "LOBBY" /\ p.host = None /\ p.panels = {} /\ p.shown /\ p.enabled
      BY DEF NewPage
    <2>2. None \notin Users /\ u \in Users
      BY LobbyAssumption
    <2> HIDE DEF p
    <2>3. FormOK(u, p, game, slips, ToCome(u)', Infos(u)', Changes(u)', halfway)
      BY <1>3, <2>1, <2>2 DEF FormOK, Renewed
    <2>4. PeopleOK(u, p, game, slips, ToCome(u)', Infos(u)')
      BY <1>3, <2>1 DEF PeopleOK
    <2>5. ButtonsOK(u, p, game, slips, ToCome(u)', Infos(u)')
      BY <1>3, <2>1 DEF ButtonsOK
    <2>6. page'[u] = p
      BY <1>1 DEF p
    <2> QED
      BY <1>1, <2>3, <2>4, <2>5, <2>6 DEF PageOK
  <1>7. page'[u].open
    BY <1>1 DEF NewPage
  <1> QED
    BY <1>1, <1>4, <1>5, <1>6, <1>7 DEF HeardOK, AnswersOK

LEMMA ReloadHeard ==
    ASSUME Base, NEW u \in Watched, Reload(u), HeardOK(u)
    PROVE  HeardOK(u)'
  <1>1. /\ ~page'[u].open
        /\ \A m \in Messages' : m \in Messages /\ ~(m.user = u /\ m.op # "CHANGE_GAME_OPTIONS")
        /\ game' = game /\ halfway' = halfway /\ events' = events /\ slips' = slips
    BY ReloadFacts
  <1>2. Infos(u)' = {} /\ Lists(u)' = {}
    BY <1>1 DEF Infos, Lists, Mine
  <1>3. EventsOK(u, events[u], game, slips)
    BY DEF HeardOK
  <1> QED
    BY <1>1, <1>2, <1>3 DEF HeardOK, AnswersOK

\* A change of u is served: it is half done, or it was not for u to make.
LEMMA ServeChangeHeard ==
    ASSUME Base, NEW m \in Messages, Serve(m), m.op = "CHANGE_GAME_OPTIONS", NEW u \in Watched,
           u = m.user, u \in Members(game), HeardOK(u)
    PROVE  HeardOK(u)'
  <1> DEFINE h == [task |-> "change", user |-> m.user, form |-> m.form, field |-> m.field]
  <1>1. /\ events' = events /\ page' = page /\ game' = game /\ slips' = slips
        /\ Messages' \subseteq Messages
        /\ \A n \in Messages : n # m => n \in Messages'
        /\ halfway' = IF IsHost(game, u) THEN halfway \cup {h} ELSE halfway
    BY ServeChangeFacts
  <1>2. h.task = "change" /\ h.user = u
    OBVIOUS
  <1> HIDE DEF h
  <1>3. Infos(u)' = Infos(u) /\ Lists(u)' = Lists(u) /\ Changes(u)' \subseteq Changes(u)
    BY <1>1 DEF Infos, Lists, Changes, Mine
  <1>4. ToCome(u)' = ToCome(u)
    BY <1>1 DEF ToCome
  <1>5. OwnChange(u, game, Changes(u), halfway) => OwnChange(u, game, Changes(u)', halfway')
    BY <1>1, <1>2 DEF OwnChange
  <1>6. ASSUME page[u].open
        PROVE  PageOK(u)'
    <2>1. PageOK(u)
      BY <1>6 DEF HeardOK
    <2>2. FormOK(u, page[u], game, slips, ToCome(u), Infos(u), Changes(u)', halfway')
      BY <1>5, <2>1 DEF PageOK, FormOK
    <2> QED
      BY <1>1, <1>3, <1>4, <2>1, <2>2 DEF PageOK
  <1> QED
    BY <1>1, <1>3, <1>6 DEF HeardOK

LEMMA ServeReadHeard ==
    ASSUME Base, NEW m \in Messages, Serve(m), m.op # "CHANGE_GAME_OPTIONS", NEW u \in Watched,
           u = m.user, u \in Members(game), HeardOK(u)
    PROVE  HeardOK(u)'
  <1> DEFINE r == Answer(m)
  <1>1. /\ events' = events /\ page' = page /\ game' = game /\ halfway' = halfway /\ slips \subseteq slips'
        /\ r.op = m.op /\ r.user = m.user /\ r.answered /\ r.data = game /\ r.ahead = Len(events[u])
        /\ \A n \in Messages' : n \in Messages \/ n = r
        /\ \A n \in Messages : n # m /\ n # r => n \in Messages'
        /\ r \in Messages'
        /\ m.op = "GET_GAME_INFO" => "lateHost" \in slips' \/ ~HostIsGone(game)
    BY ServeReadFacts
  <1>2. events[u] \in Seq(Events)
    BY TypeFacts DEF Base
  <1> HIDE DEF r
  <1>3. Changes(u)' = Changes(u)
    BY <1>1 DEF Changes, Mine
  <1>4. (Infos(u)' = {} <=> Infos(u) = {}) /\ (Lists(u)' = {} <=> Lists(u) = {})
    <2>1. ASSUME NEW n \in Infos(u)
          PROVE  \E k \in Messages' : k.user = u /\ k.op = "GET_GAME_INFO"
      BY <1>1 DEF Infos, Mine
    <2>2. ASSUME NEW n \in Lists(u)
          PROVE  \E k \in Messages' : k.user = u /\ k.op = "LIST_CARDSETS"
      BY <1>1 DEF Lists, Mine
    <2>3. ASSUME NEW n \in Infos(u)'
          PROVE  \E k \in Messages : k.user = u /\ k.op = "GET_GAME_INFO"
      BY <1>1 DEF Infos, Mine
    <2>4. ASSUME NEW n \in Lists(u)'
          PROVE  \E k \in Messages : k.user = u /\ k.op = "LIST_CARDSETS"
      BY <1>1 DEF Lists, Mine
    <2> QED
      BY <2>1, <2>2, <2>3, <2>4 DEF Infos, Lists, Mine
  <1>5. ToCome(u)' = ToCome(u)
    BY <1>1 DEF ToCome
  <1>6. EventsOK(u, events[u], game, slips')
    BY <1>1, LessPromised DEF HeardOK
  <1>7. AnswersOK(u, Infos(u)', events[u], game, slips')
    <2>1. AnswersOK(u, Infos(u), events[u], game, slips')
      BY <1>1, LessPromised DEF HeardOK
    <2>2. ASSUME NEW n \in Infos(u)', n.answered
          PROVE  n.ahead <= Len(events[u]) /\ Fresh(u, n.data, game, slips', After(events[u], n.ahead))
      <3>1. CASE n \in Infos(u)
        BY <2>1, <2>2, <3>1 DEF AnswersOK
      <3>2. CASE n \notin Infos(u)
        <4>1. n = r /\ m.op = "GET_GAME_INFO"
          BY <1>1, <2>2, <3>2 DEF Infos, Mine
        <4>2. Fresh(u, game, game, slips', After(events[u], n.ahead))
          BY <1>1, <4>1, FreshSelf
        <4>3. n.ahead <= Len(events[u])
          BY <1>1, <1>2, <4>1
        <4> QED
          BY <1>1, <4>1, <4>2, <4>3
      <3> QED
        BY <3>1, <3>2
    <2> QED
      BY <2>2 DEF AnswersOK
  <1>8. ASSUME page[u].open
        PROVE  PageOK(u)'
    <2>1. PageOK(u)
      BY <1>8 DEF HeardOK
    <2>2. /\ FormOK(u, page[u], game, slips', ToCome(u), Infos(u), Changes(u), halfway)
          /\ PeopleOK(u, page[u], game, slips', ToCome(u), Infos(u))
          /\ ButtonsOK(u, page[u], game, slips', ToCome(u), Infos(u))
      <3>1. FormOK(u, page[u], game, slips', ToCome(u), Infos(u), Changes(u), halfway)
        BY <1>1, <2>1 DEF PageOK, FormOK
      <3>2. PeopleOK(u, page[u], game, slips', ToCome(u), Infos(u))
        BY <1>1, <2>1, LessPromised DEF PageOK
      <3>3. ButtonsOK(u, page[u], game, slips', ToCome(u), Infos(u))
        BY <1>1, <2>1, LessPromised DEF PageOK
      <3> QED
        BY <3>1, <3>2, <3>3
    <2>3. /\ FormOK(u, page[u], game, slips', ToCome(u), Infos(u)', Changes(u), halfway)
          /\ PeopleOK(u, page[u], game, slips', ToCome(u), Infos(u)')
          /\ ButtonsOK(u, page[u], game, slips', ToCome(u), Infos(u)')
      <3>1. FormOK(u, page[u], game, slips', ToCome(u), Infos(u)', Changes(u), halfway)
        BY <1>4, <2>2 DEF FormOK, Renewed
      <3>2. PeopleOK(u, page[u], game, slips', ToCome(u), Infos(u)')
        BY <1>4, <2>2 DEF PeopleOK
      <3>3. ButtonsOK(u, page[u], game, slips', ToCome(u), Infos(u)')
        BY <1>4, <2>2 DEF ButtonsOK
      <3> QED
        BY <3>1, <3>2, <3>3
    <2> QED
      BY <1>1, <1>3, <1>5, <2>3 DEF PageOK
  <1> QED
    BY <1>1, <1>4, <1>6, <1>7, <1>8 DEF HeardOK


-----------------------------------------------------------------------------
(* What a page shows when it has learned of the game, or of an event.      *)

\* q is what p shows when it has learned of the game as it was, x.
Shows(q, p, u, x) ==
    /\ q.host = x.host /\ q.form = x.options /\ q.state = p.state
    /\ q.start <=> x.host = u /\ x.state = "LOBBY"
    /\ q.stop <=> x.host = u /\ x.state # "LOBBY"
    /\ q.shown <=> x.state = "LOBBY"
    /\ q.shown => (q.enabled <=> x.host = u /\ p.state = "LOBBY")

LEMMA StatusFields ==
    ASSUME NEW p \in Pages, NEW u, NEW x \in Games
    PROVE  LET q == UpdateGameStatus(p, u, x) IN Shows(q, p, u, x) /\ q.panels = p.panels /\ q.decks = p.decks
  <1> DEFINE a == x.host = u /\ x.state = "LOBBY"
             b == x.host = u /\ x.state # "LOBBY"
             c == x.host = u /\ p.state = "LOBBY"
             q == [p EXCEPT !.host = x.host, !.form = x.options, !.start = a, !.stop = b]
  <1>1. /\ a \in BOOLEAN /\ b \in BOOLEAN /\ c \in BOOLEAN
        /\ a <=> x.host = u /\ x.state = "LOBBY"
        /\ b <=> x.host = u /\ x.state # "LOBBY"
        /\ c <=> x.host = u /\ p.state = "LOBBY"
    OBVIOUS
  <1>2. /\ x.state = "LOBBY" => UpdateGameStatus(p, u, x) = [q EXCEPT !.shown = TRUE, !.enabled = c]
        /\ x.state # "LOBBY" => UpdateGameStatus(p, u, x) = [q EXCEPT !.shown = FALSE]
    BY DEF UpdateGameStatus, ShowOptions, HideOptions, Pages
  <1> HIDE DEF a, b, c
  <1>3. CASE x.state = "LOBBY"
    BY <1>1, <1>2, <1>3 DEF Shows, Pages
  <1>4. CASE x.state # "LOBBY"
    BY <1>1, <1>2, <1>4 DEF Shows, Pages
  <1> QED
    BY <1>3, <1>4

LEMMA StatusPanels ==
    ASSUME NEW p \in Pages, NEW u, NEW x \in Games, NEW X
    PROVE  LET q == [UpdateGameStatus(p, u, x) EXCEPT !.panels = @ \cup X]
           IN  Shows(q, p, u, x) /\ q.panels = p.panels \cup X /\ q.decks = p.decks
  <1> DEFINE r == UpdateGameStatus(p, u, x)
  <1>1. r \in Pages /\ Shows(r, p, u, x) /\ r.panels = p.panels /\ r.decks = p.decks
    BY StatusFields, UpdateGameStatusType
  <1> HIDE DEF r
  <1>2. LET q == [r EXCEPT !.panels = @ \cup X]
        IN  Shows(q, p, u, x) /\ q.panels = p.panels \cup X /\ q.decks = p.decks
    BY <1>1 DEF Shows, Pages
  <1> QED
    BY <1>2 DEF r

\* A page that shows the game as it was, of which it is still to hear what has changed.
LEMMA StatusOK ==
    ASSUME NEW u, NEW p \in Pages, NEW q, NEW x \in Games, NEW g \in Games, NEW s, NEW S,
           NEW I, NEW C, NEW w, Shows(q, p, u, x), Fresh(u, x, g, s, S),
           p.state = "PLAYING" => g.state = "PLAYING" \/ StateComes("LOBBY", S)
    PROVE  FormOK(u, q, g, s, S, I, C, w) /\ ButtonsOK(u, q, g, s, S, I)
  <1>0. x.host # None /\ x.state \in {"LOBBY", "PLAYING"} /\ g.state \in {"LOBBY", "PLAYING"}
    BY LobbyAssumption DEF Games, States
  <1>1. FormOK(u, q, g, s, S, I, C, w)
    <2>1. /\ x.options = g.options \/ Renewed(S, I)
          /\ x.host = u => g.host = u \/ Renewed(S, I)
          /\ x.state = "LOBBY" => g.state = "LOBBY" \/ Renewed(S, I)
      BY DEF Fresh, FreshForm, Renewed
    <2>2. /\ q.host = x.host /\ q.form = x.options
          /\ q.shown /\ q.enabled => x.state = "LOBBY" /\ x.host = u
      BY DEF Shows
    <2> QED
      BY <1>0, <2>1, <2>2 DEF FormOK
  <1>2. ButtonsOK(u, q, g, s, S, I)
    <2>1. ASSUME "lateHost" \notin s, ~Renewing(u, S)
          PROVE  /\ q.host = g.host /\ ~HostIsGone(g)
                 /\ q.start => IsHost(g, u)
                 /\ IsHost(g, u) => q.start \/ HostComes(u, S)
                 /\ q.stop => g.host = u /\ (g.state = "PLAYING" \/ StateComes("LOBBY", S))
                 /\ g.host = u /\ g.state = "PLAYING" => q.stop
      <3>1. /\ x.host = g.host /\ ~HostIsGone(g)
            /\ x.state = "PLAYING" => g.state = "PLAYING" \/ LobbyComes(u, g, S)
        BY <2>1 DEF Fresh, FreshHost
      <3>2. x.state = "LOBBY" => g.state = "LOBBY"
        BY <2>1, PlayingRenews DEF Fresh, FreshForm
      <3> QED
        BY <1>0, <3>1, <3>2 DEF Shows, IsHost, LobbyComes
    <2>2. q.state = p.state
      BY DEF Shows
    <2>3. q.shown => (q.enabled <=> q.host = u /\ q.state = "LOBBY")
      BY DEF Shows
    <2> QED
      BY <2>1, <2>2, <2>3 DEF ButtonsOK
  <1> QED
    BY <1>1, <1>2

\* The events that leave the form alone.
KeepsForm(q, p) == q.host = p.host /\ q.form = p.form
KeepsLook(q, p) ==
    /\ KeepsForm(q, p) /\ q.shown = p.shown /\ q.enabled = p.enabled /\ q.state = p.state /\ q.stop = p.stop
KeepsAll(q, p) == KeepsLook(q, p) /\ q.start = p.start

LEMMA HandledInfo ==
    ASSUME NEW p \in Pages, NEW u, NEW e, e.type = "info"
    PROVE  LET q == Handled(p, u, e)
           IN  /\ KeepsLook(q, p) /\ q.panels = p.panels \cup {e.who} /\ q.decks = p.decks
               /\ q.start <=> p.start \/ (e.who = u /\ e.host)
  <1> DEFINE b == p.start \/ (e.who = u /\ e.host)
  <1>1. b \in BOOLEAN /\ (b <=> p.start \/ (e.who = u /\ e.host))
    OBVIOUS
  <1> HIDE DEF b
  <1>2. Handled(p, u, e) = [p EXCEPT !.panels = @ \cup {e.who}, !.start = b]
    BY <1>1 DEF Handled, Pages
  <1>3. LET q == [p EXCEPT !.panels = @ \cup {e.who}, !.start = b]
        IN  /\ KeepsLook(q, p) /\ q.panels = p.panels \cup {e.who} /\ q.decks = p.decks
            /\ q.start <=> b
    BY <1>1 DEF KeepsLook, KeepsForm, Pages
  <1> QED
    BY <1>1, <1>2, <1>3

LEMMA HandledOthers ==
    ASSUME NEW p \in Pages, NEW u, NEW e \in Events, e.type \notin {"info", "state", "options"}
    PROVE  LET q == Handled(p, u, e)
           IN  /\ KeepsAll(q, p)
               /\ e.type \in {"leave", "spectatorLeave"} => q.panels = p.panels \ {e.who}
               /\ e.type = "spectatorJoin" => q.panels = p.panels \cup {e.who}
               /\ e.type \in {"join", "addCardset", "removeCardset"} => q.panels = p.panels
               /\ e.type \notin {"addCardset", "removeCardset"} => q.decks = p.decks
  <1>1. CASE e.type = "join"
    BY <1>1, HandledPeople DEF KeepsAll, KeepsLook, KeepsForm
  <1>2. CASE e.type \in {"leave", "spectatorLeave"}
    BY <1>2, HandledPeople DEF KeepsAll, KeepsLook, KeepsForm, Pages
  <1>3. CASE e.type = "spectatorJoin"
    BY <1>3, HandledPeople DEF KeepsAll, KeepsLook, KeepsForm, Pages
  <1>4. CASE e.type \in {"addCardset", "removeCardset"}
    <2> DEFINE a == [p.decks EXCEPT ![e.who] = @ + 1]
               b == [p.decks EXCEPT ![e.who] = 0]
    <2>1. Handled(p, u, e) = [p EXCEPT !.decks = a] \/ Handled(p, u, e) = [p EXCEPT !.decks = b]
      BY <1>4, HandledDeck
    <2> HIDE DEF a, b
    <2> QED
      BY <1>4, <2>1 DEF KeepsAll, KeepsLook, KeepsForm, Pages
  <1> QED
    BY <1>1, <1>2, <1>3, <1>4, EventKinds

LEMMA HandledLobby ==
    ASSUME NEW p \in Pages, NEW u, NEW e, e.type = "state", e.state = "LOBBY"
    PROVE  LET q == Handled(p, u, e)
           IN  /\ KeepsForm(q, p) /\ q.panels = p.panels /\ q.decks = p.decks /\ q.start = p.start
               /\ q.state = "LOBBY" /\ ~q.stop /\ q.shown /\ (q.enabled <=> p.host = u)
  <1> DEFINE r == [p EXCEPT !.state = "LOBBY", !.stop = FALSE]
  <1>1. Handled(p, u, e) = ShowOptions(r, u)
    BY DEF Handled
  <1>2. /\ r \in Pages /\ r.state = "LOBBY" /\ ~r.stop
        /\ KeepsForm(r, p) /\ r.panels = p.panels /\ r.decks = p.decks /\ r.start = p.start
    BY DEF Pages, States, KeepsForm
  <1> HIDE DEF r
  <1> DEFINE c == r.host = u /\ r.state = "LOBBY"
  <1>3. c \in BOOLEAN /\ (c <=> p.host = u)
    BY <1>2 DEF KeepsForm
  <1>4. ShowOptions(r, u) = [r EXCEPT !.shown = TRUE, !.enabled = c]
    BY DEF ShowOptions
  <1> HIDE DEF c
  <1> DEFINE q == [r EXCEPT !.shown = TRUE, !.enabled = c]
  <1>5. /\ KeepsForm(q, p) /\ q.panels = p.panels /\ q.decks = p.decks /\ q.start = p.start
        /\ q.state = "LOBBY" /\ ~q.stop /\ q.shown /\ q.enabled = c
    BY <1>2 DEF KeepsForm, Pages
  <1> HIDE DEF q
  <1>6. Handled(p, u, e) = q
    BY <1>1, <1>4 DEF q
  <1> QED
    BY <1>3, <1>5, <1>6

LEMMA HandledPlaying ==
    ASSUME NEW p \in Pages, NEW u, NEW e, e.type = "state", e.state = "PLAYING"
    PROVE  LET q == Handled(p, u, e)
           IN  /\ KeepsForm(q, p) /\ q.panels = p.panels /\ q.decks = p.decks /\ q.start = p.start
               /\ q.state = "PLAYING" /\ ~q.shown /\ q.stop = p.stop
  <1> DEFINE q == [p EXCEPT !.state = "PLAYING", !.shown = FALSE]
  <1>1. Handled(p, u, e) = q
    BY DEF Handled, HideOptions
  <1>2. /\ KeepsForm(q, p) /\ q.panels = p.panels /\ q.decks = p.decks /\ q.start = p.start
        /\ q.state = "PLAYING" /\ ~q.shown /\ q.stop = p.stop
    BY DEF KeepsForm, Pages
  <1> HIDE DEF q
  <1> QED
    BY <1>1, <1>2

\* What one event brings.
LEMMA OneEvent ==
    ASSUME NEW e, NEW u
    PROVE  /\ WithOptions({e}) <=> e.type = "options"
           /\ Refreshing(u, {e}) <=> Refreshes(e, u)
           /\ \A x : StateComes(x, {e}) <=> e.type = "state" /\ e.state = x
           /\ HostComes(u, {e}) <=> e.type = "info" /\ e.who = u /\ e.host
           /\ \A w : Leaves(w, {e}) <=> e.type \in {"leave", "spectatorLeave"} /\ e.who = w
  <1>1. WithOptions({e}) <=> e.type = "options"
    BY DEF WithOptions
  <1>2. Refreshing(u, {e}) <=> Refreshes(e, u)
    BY DEF Refreshing
  <1>3. \A x : StateComes(x, {e}) <=> e.type = "state" /\ e.state = x
    BY DEF StateComes
  <1>4. HostComes(u, {e}) <=> e.type = "info" /\ e.who = u /\ e.host
    BY DEF HostComes
  <1>5. \A w : Leaves(w, {e}) <=> e.type \in {"leave", "spectatorLeave"} /\ e.who = w
    BY DEF Leaves
  <1> QED
    BY <1>1, <1>2, <1>3, <1>4, <1>5

LEMMA HandledForm ==
    ASSUME NEW u, NEW p \in Pages, NEW g \in Games, NEW e \in Events, NEW s, NEW S,
           NEW I, NEW J, I # {} \/ Refreshes(e, u) => J # {}, NEW C, NEW w,
           EventOK(u, e, g, s, S), FormOK(u, p, g, s, {e} \cup S, I, C, w), e.type # "options"
    PROVE  FormOK(u, Handled(p, u, e), g, s, S, J, C, w)
  <1> DEFINE q == Handled(p, u, e)
  <1>1. Renewed({e} \cup S, I) => Renewed(S, J)
    <2>1. WithOptions({e} \cup S) => WithOptions(S)
      BY More, OneEvent
    <2>2. StateComes("PLAYING", {e} \cup S) => StateComes("PLAYING", S) \/ Refreshes(e, u)
      BY More, OneEvent DEF Refreshes
    <2> QED
      BY <2>1, <2>2 DEF Renewed
  <1>2. KeepsForm(q, p)
    BY HandledInfo, HandledOthers, HandledLobby, HandledPlaying, EventKinds DEF KeepsLook, KeepsAll, States
  <1>3. "shownInGame" \notin s /\ q.shown /\ q.enabled => q.host \in {u, None} /\ (g.state = "LOBBY" \/ Renewed(S, J))
    <2>1. CASE e.type = "state" /\ e.state = "LOBBY"
      <3>1. g.state = "LOBBY" \/ StateComes("PLAYING", S)
        BY <2>1 DEF EventOK
      <3>2. q.enabled => q.host = u
        BY <2>1, <1>2, HandledLobby DEF KeepsForm
      <3> QED
        BY <3>1, <3>2 DEF Renewed
    <2>2. CASE e.type = "state" /\ e.state = "PLAYING"
      BY <2>2, HandledPlaying
    <2>3. CASE e.type # "state"
      <3>1. q.shown = p.shown /\ q.enabled = p.enabled
        BY <2>3, HandledInfo, HandledOthers DEF KeepsAll, KeepsLook
      <3> QED
        BY <1>1, <1>2, <3>1 DEF FormOK, KeepsForm
    <2> QED
      BY <2>1, <2>2, <2>3, EventKinds DEF States
  <1>4. /\ q.host = u => g.host = u \/ Renewed(S, J)
        /\ q.host = None => J # {}
        /\ "shownInGame" \notin s => q.form = g.options \/ Renewed(S, J) \/ OwnChange(u, g, C, w)
    BY <1>1, <1>2 DEF FormOK, KeepsForm
  <1> HIDE DEF q
  <1>5. FormOK(u, q, g, s, S, J, C, w)
    BY <1>3, <1>4 DEF FormOK
  <1> QED
    BY <1>5 DEF q

LEMMA HandledPanels ==
    ASSUME NEW u, NEW p \in Pages, NEW g \in Games, NEW e \in Events, NEW s, NEW S,
           NEW I, NEW J, I # {} \/ Refreshes(e, u) => J # {},
           EventOK(u, e, g, s, S), PeopleOK(u, p, g, s, {e} \cup S, I)
    PROVE  PeopleOK(u, Handled(p, u, e), g, s, S, J)
  <1> DEFINE q == Handled(p, u, e)
             R == {e} \cup S
  <1>1. /\ Refreshing(u, R) <=> Refreshes(e, u) \/ Refreshing(u, S)
        /\ \A w : Leaves(w, R) <=> (e.type \in {"leave", "spectatorLeave"} /\ e.who = w) \/ Leaves(w, S)
    BY More, OneEvent
  <1>2. /\ "lateHost" \notin s => \A w \in p.panels : Somewhere(w, g, R)
        /\ \A w \in Members(g) : w \in p.panels \/ I # {} \/ Refreshing(u, R)
    BY DEF PeopleOK
  <1> HIDE DEF R
  <1>3. CASE e.type \in {"leave", "spectatorLeave"}
    <2>1. q.panels = p.panels \ {e.who}
      BY <1>3, HandledOthers
    <2>2. Refreshes(e, u)
      BY <1>3 DEF Refreshes, EventOK
    <2> HIDE DEF q
    <2>3. PeopleOK(u, q, g, s, S, J)
      BY <1>1, <1>2, <2>1, <2>2 DEF PeopleOK, Somewhere
    <2> QED
      BY <2>3 DEF q
  <1>4. CASE e.type \notin {"leave", "spectatorLeave"}
    <2>1. /\ p.panels \subseteq q.panels
          /\ "lateHost" \notin s => \A w \in q.panels : w \in p.panels \/ Somewhere(w, g, S)
      <3>1. CASE e.type \in {"join", "state", "addCardset", "removeCardset"}
        BY <3>1, HandledOthers, HandledLobby, HandledPlaying, EventKinds DEF States
      <3>2. CASE e.type \in {"spectatorJoin", "info"}
        <4>1. q.panels = p.panels \cup {e.who}
          BY <3>2, HandledOthers, HandledInfo
        <4>2. "lateHost" \notin s => Somewhere(e.who, g, S)
          BY <3>2 DEF EventOK
        <4> QED
          BY <4>1, <4>2
      <3>3. CASE e.type = "options"
        <4>1. e.info \in Games
          BY <3>3, EventKinds
        <4>2. q.panels = p.panels \cup e.info.spectators
          <5> DEFINE r == UpdateGameStatus(p, u, e.info)
          <5>1. r \in Pages
            BY <4>1, UpdateGameStatusType
          <5>2. r.panels = p.panels
            BY <4>1, StatusFields
          <5>3. q = [r EXCEPT !.panels = @ \cup e.info.spectators]
            BY <3>3, HandledOptions
          <5> HIDE DEF q, r
          <5> QED
            BY <5>1, <5>2, <5>3 DEF Pages
        <4>3. \A w \in e.info.spectators : Somewhere(w, g, S)
          BY <3>3 DEF EventOK, Fresh, FreshPeople, Members
        <4> QED
          BY <4>2, <4>3
      <3> QED
        BY <1>4, <3>1, <3>2, <3>3, EventKinds
    <2> HIDE DEF q
    <2>2. PeopleOK(u, q, g, s, S, J)
      BY <1>1, <1>2, <1>4, <2>1 DEF PeopleOK, Somewhere
    <2> QED
      BY <2>2 DEF q
  <1> QED
    BY <1>3, <1>4

LEMMA HandledButtons ==
    ASSUME NEW u, NEW p \in Pages, NEW g \in Games, NEW e \in Events, NEW s, NEW S,
           NEW I, NEW J, I # {} \/ Refreshes(e, u) => J # {},
           EventOK(u, e, g, s, S), ButtonsOK(u, p, g, s, {e} \cup S, I), e.type # "options"
    PROVE  ButtonsOK(u, Handled(p, u, e), g, s, S, J)
  <1> DEFINE q == Handled(p, u, e)
             R == {e} \cup S
  <1>1. /\ Renewing(u, R) <=> Refreshes(e, u) \/ Renewing(u, S)
        /\ StateComes("LOBBY", R) <=> (e.type = "state" /\ e.state = "LOBBY") \/ StateComes("LOBBY", S)
        /\ HostComes(u, R) <=> (e.type = "info" /\ e.who = u /\ e.host) \/ HostComes(u, S)
    <2>1. Renewing(u, {e}) <=> Refreshes(e, u)
      BY OneEvent DEF Renewing
    <2> QED
      BY <2>1, More, OneEvent
  <1>2. /\ p.state = "PLAYING" => g.state = "PLAYING" \/ StateComes("LOBBY", R)
        /\ p.shown /\ p.host # None => (p.enabled <=> p.host = u /\ p.state = "LOBBY")
        /\ "lateHost" \notin s /\ I = {} /\ ~Renewing(u, R) =>
             /\ p.host = g.host /\ ~HostIsGone(g)
             /\ p.start => IsHost(g, u)
             /\ IsHost(g, u) => p.start \/ HostComes(u, R)
             /\ p.stop => g.host = u /\ (g.state = "PLAYING" \/ StateComes("LOBBY", R))
             /\ g.host = u /\ g.state = "PLAYING" => p.stop
    BY DEF ButtonsOK
  <1> HIDE DEF R
  <1>3. CASE e.type = "state" /\ e.state = "LOBBY"
    <2>1. /\ KeepsForm(q, p) /\ q.start = p.start
          /\ q.state = "LOBBY" /\ ~q.stop /\ q.shown /\ (q.enabled <=> p.host = u)
      BY <1>3, HandledLobby
    <2>2. g.state = "LOBBY" \/ Renewing(u, S)
      BY <1>3, PlayingRenews DEF EventOK
    <2> HIDE DEF q
    <2>3. ButtonsOK(u, q, g, s, S, J)
      BY <1>1, <1>2, <1>3, <2>1, <2>2 DEF ButtonsOK, KeepsForm
    <2> QED
      BY <2>3 DEF q
  <1>4. CASE e.type = "state" /\ e.state = "PLAYING"
    <2>1. q.state = "PLAYING" /\ ~q.shown
      BY <1>4, HandledPlaying
    <2>2. g.state = "PLAYING" \/ StateComes("LOBBY", S)
      BY <1>4 DEF EventOK
    <2>3. Refreshes(e, u)
      BY <1>4 DEF Refreshes
    <2> HIDE DEF q
    <2>4. ButtonsOK(u, q, g, s, S, J)
      BY <2>1, <2>2, <2>3 DEF ButtonsOK
    <2> QED
      BY <2>4 DEF q
  <1>5. CASE e.type # "state"
    <2>1. /\ KeepsLook(q, p)
          /\ q.start <=> p.start \/ (e.type = "info" /\ e.who = u /\ e.host)
      BY <1>5, HandledInfo, HandledOthers DEF KeepsAll
    <2>2. e.type = "info" /\ e.who = u /\ e.host => IsHost(g, u) \/ Renewing(u, S)
      BY DEF EventOK
    <2> HIDE DEF q
    <2>3. ButtonsOK(u, q, g, s, S, J)
      BY <1>1, <1>2, <1>5, <2>1, <2>2 DEF ButtonsOK, KeepsLook, KeepsForm
    <2> QED
      BY <2>3 DEF q
  <1> QED
    BY <1>3, <1>4, <1>5, EventKinds DEF States

\* The page after the event, of which the rest is to come.
LEMMA HandledOK ==
    ASSUME NEW u, NEW p \in Pages, NEW g \in Games, NEW e \in Events, NEW s, NEW S,
           NEW I, NEW J, I # {} \/ Refreshes(e, u) => J # {}, NEW C, NEW w,
           EventOK(u, e, g, s, S), FormOK(u, p, g, s, {e} \cup S, I, C, w),
           PeopleOK(u, p, g, s, {e} \cup S, I), ButtonsOK(u, p, g, s, {e} \cup S, I)
    PROVE  /\ FormOK(u, Handled(p, u, e), g, s, S, J, C, w)
           /\ PeopleOK(u, Handled(p, u, e), g, s, S, J)
           /\ ButtonsOK(u, Handled(p, u, e), g, s, S, J)
  <1>1. PeopleOK(u, Handled(p, u, e), g, s, S, J)
    BY HandledPanels
  <1>2. CASE e.type # "options"
    BY <1>1, <1>2, HandledForm, HandledButtons
  <1>3. CASE e.type = "options"
    <2>1. e.info \in Games
      BY <1>3, EventKinds
    <2>2. Shows(Handled(p, u, e), p, u, e.info)
      BY <1>3, <2>1, HandledOptions, StatusPanels
    <2>3. Fresh(u, e.info, g, s, S)
      BY <1>3 DEF EventOK
    <2>4. p.state = "PLAYING" => g.state = "PLAYING" \/ StateComes("LOBBY", S)
      <3>1. StateComes("LOBBY", {e} \cup S) => StateComes("LOBBY", S)
        BY <1>3, More, OneEvent
      <3> QED
        BY <3>1 DEF ButtonsOK
    <2> QED
      BY <1>1, <2>1, <2>2, <2>3, <2>4, StatusOK
  <1> QED
    BY <1>2, <1>3

LEMMA UpdateOpen ==
    ASSUME NEW p \in Pages, NEW u, NEW x
    PROVE  UpdateGameStatus(p, u, x).open = p.open
  <1> DEFINE a == x.host = u /\ x.state = "LOBBY"
             b == x.host = u /\ x.state # "LOBBY"
             q == [p EXCEPT !.host = x.host, !.form = x.options, !.start = a, !.stop = b]
  <1>1. UpdateGameStatus(p, u, x) = IF x.state = "LOBBY" THEN ShowOptions(q, u) ELSE HideOptions(q)
    BY DEF UpdateGameStatus
  <1> HIDE DEF a, b
  <1>2. q.open = p.open
    BY DEF Pages
  <1>3. ShowOptions(q, u).open = p.open
    <2> DEFINE c == q.host = u /\ q.state = "LOBBY"
    <2>1. ShowOptions(q, u) = [q EXCEPT !.shown = TRUE, !.enabled = c]
      BY DEF ShowOptions
    <2> HIDE DEF c
    <2> QED
      BY <1>2, <2>1 DEF Pages
  <1>4. HideOptions(q).open = p.open
    BY <1>2 DEF HideOptions, Pages
  <1> HIDE DEF q
  <1> QED
    BY <1>1, <1>3, <1>4

\* No event closes a page.
LEMMA HandledOpen ==
    ASSUME NEW p \in Pages, NEW u, NEW e \in Events
    PROVE  Handled(p, u, e).open = p.open
  <1>1. CASE e.type = "join"
    BY <1>1, HandledPeople
  <1>2. CASE e.type \in {"leave", "spectatorLeave", "spectatorJoin"}
    BY <1>2, HandledPeople DEF Pages
  <1>3. CASE e.type = "info"
    <2> DEFINE b == p.start \/ (e.who = u /\ e.host)
    <2>1. Handled(p, u, e) = [p EXCEPT !.panels = @ \cup {e.who}, !.start = b]
      BY <1>3 DEF Handled
    <2> HIDE DEF b
    <2> QED
      BY <2>1 DEF Pages
  <1>4. CASE e.type = "state" /\ e.state = "LOBBY"
    <2> DEFINE r == [p EXCEPT !.state = "LOBBY", !.stop = FALSE]
    <2>1. Handled(p, u, e) = ShowOptions(r, u)
      BY <1>4 DEF Handled
    <2>2. r \in Pages /\ r.open = p.open
      BY DEF Pages, States
    <2> HIDE DEF r
    <2> QED
      BY <2>1, <2>2 DEF ShowOptions, Pages
  <1>5. CASE e.type = "state" /\ e.state = "PLAYING"
    BY <1>5 DEF Handled, HideOptions, Pages
  <1>6. CASE e.type = "options"
    <2> DEFINE r == UpdateGameStatus(p, u, e.info)
    <2>1. e.info \in Games
      BY <1>6, EventKinds
    <2>2. r \in Pages /\ r.open = p.open
      BY <2>1, UpdateGameStatusType, UpdateOpen
    <2>3. Handled(p, u, e) = [r EXCEPT !.panels = @ \cup e.info.spectators]
      BY <1>6, HandledOptions
    <2> HIDE DEF r
    <2> QED
      BY <2>2, <2>3 DEF Pages
  <1>7. CASE e.type \in {"addCardset", "removeCardset"}
    <2> DEFINE a == [p.decks EXCEPT ![e.who] = @ + 1]
               b == [p.decks EXCEPT ![e.who] = 0]
    <2>1. Handled(p, u, e) = [p EXCEPT !.decks = a] \/ Handled(p, u, e) = [p EXCEPT !.decks = b]
      BY <1>7, HandledDeck
    <2> HIDE DEF a, b
    <2> QED
      BY <2>1 DEF Pages
  <1> QED
    BY <1>1, <1>2, <1>3, <1>4, <1>5, <1>6, <1>7, EventKinds DEF States

LEMMA LearnHeard ==
    ASSUME Base, NEW m \in Messages, Learn(m), NEW u \in Watched, u = m.user, HeardOK(u)
    PROVE  HeardOK(u)'
  <1> DEFINE p == page[u]
             x == m.data
             S == ToCome(u)
             q == Learned(p, m)
  <1>1. /\ m.answered /\ x \in Games
        /\ events' = events /\ game' = game /\ halfway' = halfway /\ slips \subseteq slips'
        /\ page'[u] = IF p.open THEN q ELSE p
        /\ \A n \in Messages' : n \in Messages
        /\ \A n \in Messages : n # m => n \in Messages'
    BY LearnFacts
  <1>2. /\ events[u] \in Seq(Events) /\ p \in Pages /\ m.ahead \in Nat
        /\ m.op # "CHANGE_GAME_OPTIONS" /\ m \in Requests /\ game \in Games
    BY <1>1, TypeFacts DEF Base
  <1>3. Infos(u)' \subseteq Infos(u) /\ Lists(u)' \subseteq Lists(u) /\ Changes(u)' = Changes(u)
    BY <1>1, <1>2 DEF Infos, Lists, Changes, Mine
  <1>4. m \in Infos(u) \/ m \in Lists(u)
    BY <1>2 DEF Infos, Lists, Mine, Requests, Ops
  <1>5. p.open /\ PageOK(u)
    BY <1>4 DEF HeardOK
  <1>6. ToCome(u)' = S
    BY <1>1 DEF ToCome
  <1>7. /\ EventsOK(u, events[u], game, slips') /\ AnswersOK(u, Infos(u), events[u], game, slips')
    BY <1>1, LessPromised DEF HeardOK
  <1>8. AnswersOK(u, Infos(u)', events[u], game, slips')
    BY <1>3, <1>7 DEF AnswersOK
  <1>9. /\ FormOK(u, p, game, slips', S, Infos(u), Changes(u), halfway)
        /\ PeopleOK(u, p, game, slips', S, Infos(u))
        /\ ButtonsOK(u, p, game, slips', S, Infos(u))
    <2>1. slips \subseteq slips' /\ halfway \subseteq halfway
      BY <1>1
    <2>2. FormOK(u, p, game, slips', S, Infos(u), Changes(u), halfway)
      BY <1>5, <2>1 DEF PageOK, FormOK
    <2>3. PeopleOK(u, p, game, slips', S, Infos(u))
      BY <1>5, <2>1, LessPromised DEF PageOK
    <2>4. ButtonsOK(u, p, game, slips', S, Infos(u))
      BY <1>5, <2>1, LessPromised DEF PageOK
    <2> QED
      BY <2>2, <2>3, <2>4
  <1> HIDE DEF p, x, S, q
  <1>10. /\ q.open
         /\ FormOK(u, q, game, slips', S, Infos(u)', Changes(u), halfway)
         /\ PeopleOK(u, q, game, slips', S, Infos(u)')
         /\ ButtonsOK(u, q, game, slips', S, Infos(u)')
    <2>1. CASE m.op = "GET_GAME_INFO"
      <3>1. q = [UpdateGameStatus(p, u, x) EXCEPT !.panels = @ \cup Members(x)]
        BY <2>1 DEF q, x, Learned
      <3>2. Shows(q, p, u, x) /\ q.panels = p.panels \cup Members(x)
        <4> DEFINE r == UpdateGameStatus(p, u, x)
        <4>1. r \in Pages /\ r.panels = p.panels
          BY <1>1, <1>2, UpdateGameStatusType, StatusFields
        <4>2. Shows(q, p, u, x)
          BY <1>1, <1>2, <3>1, StatusPanels
        <4> HIDE DEF r
        <4>3. q = [r EXCEPT !.panels = @ \cup Members(x)]
          BY <3>1 DEF r
        <4> QED
          BY <4>1, <4>2, <4>3 DEF Pages
      <3>3. q.open
        <4> DEFINE r == UpdateGameStatus(p, u, x)
        <4>0. r \in Pages /\ r.open = p.open
          BY <1>1, <1>2, UpdateGameStatusType, UpdateOpen
        <4>1. q.open = p.open
          <5>1. q = [r EXCEPT !.panels = @ \cup Members(x)]
            BY <3>1
          <5> HIDE DEF r
          <5> QED
            BY <4>0, <5>1 DEF Pages
        <4> QED
          BY <1>5, <4>1 DEF p
      <3>4. Fresh(u, x, game, slips', S)
        <4>1. Fresh(u, x, game, slips', After(events[u], m.ahead))
          BY <1>1, <1>7, <2>1 DEF AnswersOK, Infos, Mine, x
        <4>2. After(events[u], m.ahead) \subseteq S
          BY <1>2, AfterLess DEF S, ToCome
        <4> QED
          BY <1>1, <1>2, <4>1, <4>2, FreshMore
      <3>5. p.state = "PLAYING" => game.state = "PLAYING" \/ StateComes("LOBBY", S)
        BY <1>9 DEF ButtonsOK
      <3>6. PeopleOK(u, q, game, slips', S, Infos(u)')
        BY <1>9, <3>2, <3>4 DEF PeopleOK, Fresh, FreshPeople
      <3> QED
        BY <1>1, <1>2, <3>2, <3>3, <3>4, <3>5, <3>6, StatusOK
    <2>2. CASE m.op = "LIST_CARDSETS"
      <3> DEFINE d == [k \in Decks |-> IF k \in x.decks THEN 1 ELSE 0]
      <3>1. q = [p EXCEPT !.decks = d]
        BY <2>2 DEF q, x, Learned
      <3> HIDE DEF d
      <3>2. KeepsAll(q, p) /\ q.panels = p.panels /\ q.open = p.open
        BY <1>2, <3>1 DEF KeepsAll, KeepsLook, KeepsForm, Pages
      <3>3. Infos(u)' = Infos(u)
        BY <1>1, <2>2 DEF Infos, Mine
      <3>4. FormOK(u, q, game, slips', S, Infos(u)', Changes(u), halfway)
        BY <1>9, <3>2, <3>3 DEF FormOK, KeepsAll, KeepsLook, KeepsForm
      <3>5. PeopleOK(u, q, game, slips', S, Infos(u)')
        BY <1>9, <3>2, <3>3 DEF PeopleOK
      <3>6. ButtonsOK(u, q, game, slips', S, Infos(u)')
        BY <1>9, <3>2, <3>3 DEF ButtonsOK, KeepsAll, KeepsLook, KeepsForm
      <3> QED
        BY <1>5, <3>2, <3>4, <3>5, <3>6 DEF p
    <2> QED
      BY <1>2, <2>1, <2>2 DEF Requests, Ops
  <1>11. page'[u] = q
    BY <1>1, <1>5 DEF p
  <1>12. PageOK(u)'
    BY <1>1, <1>3, <1>6, <1>10, <1>11 DEF PageOK
  <1> QED
    BY <1>1, <1>7, <1>8, <1>10, <1>11, <1>12 DEF HeardOK

LEMMA HandleEventHeard ==
    ASSUME Base, NEW u \in Watched, HandleEvent(u), HeardOK(u), "overtaken" \notin slips'
    PROVE  HeardOK(u)'
  <1> DEFINE e == Head(events[u])
             p == page[u]
             q == events[u]
             S == After(q, 1)
             r == Request(u, "GET_GAME_INFO", None, None)
  <1>1. /\ q # <<>> /\ events'[u] = Tail(q)
        /\ game' = game /\ halfway' = halfway /\ slips \subseteq slips'
        /\ page'[u] = IF p.open THEN Handled(p, u, e) ELSE p
        /\ \A n \in Messages' : (\E m \in Messages : n = Closer(m, u)) \/ (p.open /\ n = r)
        /\ \A m \in Messages : Closer(m, u) \in Messages'
        /\ p.open /\ Refreshes(e, u) => r \in Messages'
        /\ ~AnswerIsDue(u)
    BY HandleEventFacts
  <1>2. q \in Seq(Events) /\ p \in Pages /\ game \in Games
    BY TypeFacts DEF Base
  <1>3. /\ \A n \in Nat : After(Tail(q), n) = After(q, n + 1)
        /\ ToCome(u) = {e} \cup S /\ e \in Events /\ e = q[1]
    BY <1>1, <1>2, AfterTail DEF ToCome
  <1>4. \A m \in Messages :
            LET c == Closer(m, u)
            IN  /\ c.user = m.user /\ c.op = m.op /\ c.answered = m.answered /\ c.data = m.data
                /\ m.user = u /\ m.ahead > 0 => c.ahead = m.ahead - 1
                /\ m.ahead \in Nat
                /\ m.user = u /\ m.op = "CHANGE_GAME_OPTIONS" => c = m
    <2>1. \A m \in Messages : RequestOK(m) /\ m.ahead \in Nat
          /\ (m.op = "CHANGE_GAME_OPTIONS" => m.ahead = 0)
      BY TypeFacts DEF Base
    <2> QED
      BY <2>1, CloserFacts
  <1>5. r.user = u /\ r.op = "GET_GAME_INFO" /\ ~r.answered
    BY DEF Request
  <1>6. /\ EventsOK(u, q, game, slips') /\ AnswersOK(u, Infos(u), q, game, slips')
    BY <1>1, LessPromised DEF HeardOK
  <1> HIDE DEF e, p, q, r
  <1>7. EventOK(u, e, game, slips', S)
    <2>1. 1 \in 1..Len(q)
      BY <1>1, <1>2
    <2> QED
      BY <1>3, <1>6, <2>1 DEF EventsOK
  <1>8. EventsOK(u, Tail(q), game, slips')
    <2>1. ASSUME NEW i \in 1..Len(Tail(q))
          PROVE  EventOK(u, Tail(q)[i], game, slips', After(Tail(q), i))
      <3>1. i + 1 \in 1..Len(q) /\ Tail(q)[i] = q[i + 1] /\ i \in Nat
        BY <1>1, <1>2, <2>1
      <3>2. EventOK(u, q[i + 1], game, slips', After(q, i + 1))
        BY <1>6, <3>1 DEF EventsOK
      <3> QED
        BY <1>3, <3>1, <3>2
    <2> QED
      BY <2>1 DEF EventsOK
  <1>9. AnswersOK(u, Infos(u)', Tail(q), game, slips')
    <2>1. ASSUME NEW n \in Infos(u)', n.answered
          PROVE  n.ahead <= Len(Tail(q)) /\ Fresh(u, n.data, game, slips', After(Tail(q), n.ahead))
      <3>1. PICK m \in Messages : n = Closer(m, u)
        BY <1>1, <1>5, <2>1 DEF Infos, Mine
      <3>2. m \in Infos(u) /\ m.answered /\ m.user = u /\ m.ahead \in Nat /\ n.data = m.data
        BY <1>4, <2>1, <3>1 DEF Infos, Mine
      <3>3. m.ahead > 0 /\ n.ahead = m.ahead - 1
        BY <1>1, <1>4, <3>1, <3>2 DEF AnswerIsDue
      <3>4. n.ahead \in Nat /\ n.ahead + 1 = m.ahead
        BY <3>2, <3>3
      <3>5. m.ahead <= Len(q) /\ Fresh(u, m.data, game, slips', After(q, m.ahead))
        BY <1>6, <3>2 DEF AnswersOK
      <3>6. n.ahead <= Len(Tail(q))
        BY <1>1, <1>2, <3>2, <3>3, <3>5
      <3>7. After(Tail(q), n.ahead) = After(q, m.ahead)
        BY <1>3, <3>4
      <3> QED
        BY <3>2, <3>5, <3>6, <3>7
    <2> QED
      BY <2>1 DEF AnswersOK
  <1>10. ToCome(u)' = S
    <2>1. ToCome(u)' = After(Tail(q), 0)
      BY <1>1 DEF ToCome
    <2> QED
      BY <1>3, <2>1
  <1>11. Changes(u)' = Changes(u)
    BY <1>1, <1>4, <1>5 DEF Changes, Mine
  <1>12. ASSUME p.open
         PROVE  page'[u].open /\ PageOK(u)'
    <2>1. PageOK(u)
      BY <1>12 DEF HeardOK, p
    <2>2. slips \subseteq slips' /\ halfway \subseteq halfway
      BY <1>1
    <2>3. /\ FormOK(u, p, game, slips', {e} \cup S, Infos(u), Changes(u), halfway)
          /\ PeopleOK(u, p, game, slips', {e} \cup S, Infos(u))
          /\ ButtonsOK(u, p, game, slips', {e} \cup S, Infos(u))
      <3>1. /\ FormOK(u, p, game, slips, {e} \cup S, Infos(u), Changes(u), halfway)
            /\ PeopleOK(u, p, game, slips, {e} \cup S, Infos(u))
            /\ ButtonsOK(u, p, game, slips, {e} \cup S, Infos(u))
        BY <1>3, <2>1 DEF PageOK, p
      <3>2. FormOK(u, p, game, slips', {e} \cup S, Infos(u), Changes(u), halfway)
        BY <2>2, <3>1 DEF FormOK
      <3>3. PeopleOK(u, p, game, slips', {e} \cup S, Infos(u))
        BY <2>2, <3>1 DEF PeopleOK
      <3>4. ButtonsOK(u, p, game, slips', {e} \cup S, Infos(u))
        BY <2>2, <3>1, LessPromised
      <3> QED
        BY <3>2, <3>3, <3>4
    <2>4. Infos(u) # {} \/ Refreshes(e, u) => Infos(u)' # {}
      <3>1. ASSUME Refreshes(e, u)
            PROVE  r \in Infos(u)'
        BY <1>1, <1>5, <1>12, <3>1 DEF Infos, Mine
      <3>2. ASSUME NEW m \in Infos(u)
            PROVE  Closer(m, u) \in Infos(u)'
        BY <1>1, <1>4 DEF Infos, Mine
      <3> QED
        BY <3>1, <3>2
    <2>5. /\ FormOK(u, Handled(p, u, e), game, slips', S, Infos(u)', Changes(u), halfway)
          /\ PeopleOK(u, Handled(p, u, e), game, slips', S, Infos(u)')
          /\ ButtonsOK(u, Handled(p, u, e), game, slips', S, Infos(u)')
      BY <1>2, <1>3, <1>7, <2>3, <2>4, HandledOK
    <2>6. page'[u] = Handled(p, u, e)
      BY <1>1, <1>12
    <2>7. Handled(p, u, e).open
      BY <1>2, <1>3, <1>12, HandledOpen
    <2> QED
      BY <1>1, <1>10, <1>11, <2>5, <2>6, <2>7 DEF PageOK
  <1>13. ASSUME ~p.open
         PROVE  ~page'[u].open /\ Infos(u)' = {} /\ Lists(u)' = {}
    <2>1. Infos(u) = {} /\ Lists(u) = {}
      BY <1>13 DEF HeardOK, p
    <2>2. \A n \in Messages' : \E m \in Messages : n.user = m.user /\ n.op = m.op
      BY <1>1, <1>4, <1>13
    <2>3. Infos(u)' = {} /\ Lists(u)' = {}
      BY <2>1, <2>2 DEF Infos, Lists, Mine
    <2> QED
      BY <1>1, <1>13, <2>3
  <1> QED
    BY <1>1, <1>8, <1>9, <1>12, <1>13 DEF HeardOK

\* A page that lets its user edit is that of the host in the lobby, or is about to learn better.
LEMMA OptionChangedHeard ==
    ASSUME Base, NEW u \in Watched, NEW f \in Fields, NEW v \in Values, OptionChanged(u, f, v), HeardOK(u)
    PROVE  HeardOK(u)'
  <1> DEFINE p == page[u]
             S == ToCome(u)
             form == [p.form EXCEPT ![f] = v]
             r == Request(u, "CHANGE_GAME_OPTIONS", form, f)
             q == [p EXCEPT !.form = form]
  <1>1. /\ p.open /\ p.shown /\ p.enabled /\ page'[u] = q
        /\ game' = game /\ halfway' = halfway /\ events' = events /\ slips \subseteq slips'
        /\ Messages' = Messages \cup {r}
        /\ r.user = u /\ r.op = "CHANGE_GAME_OPTIONS"
    BY OptionChangedFacts
  <1>2. p \in Pages
    BY TypeFacts DEF Base
  <1> HIDE DEF form, r
  <1>3. /\ q.open = p.open /\ q.host = p.host /\ q.shown = p.shown /\ q.enabled = p.enabled
        /\ q.state = p.state /\ q.start = p.start /\ q.stop = p.stop /\ q.panels = p.panels
    BY <1>2 DEF Pages
  <1>4. Infos(u)' = Infos(u) /\ Lists(u)' = Lists(u) /\ Changes(u)' # {}
    BY <1>1 DEF Infos, Lists, Changes, Mine
  <1>5. ToCome(u)' = S
    BY <1>1 DEF ToCome
  <1>6. /\ EventsOK(u, events[u], game, slips') /\ AnswersOK(u, Infos(u), events[u], game, slips')
    BY <1>1, LessPromised DEF HeardOK
  <1>7. PageOK(u)
    BY <1>1 DEF HeardOK
  <1> HIDE DEF p, q, S
  <1>8. FormOK(u, p, game, slips, S, Infos(u), Changes(u), halfway)
    BY <1>7 DEF PageOK, p, S
  <1>9. FormOK(u, q, game, slips', S, Infos(u), Changes(u)', halfway)
    <2>1. "shownInGame" \notin slips => IsHost(game, u) \/ Renewed(S, Infos(u))
      BY <1>1, <1>8 DEF FormOK, Renewed, IsHost
    <2>2. IsHost(game, u) => OwnChange(u, game, Changes(u)', halfway)
      BY <1>4 DEF OwnChange
    <2> QED
      BY <1>1, <1>3, <1>8, <2>1, <2>2 DEF FormOK
  <1>10. PeopleOK(u, p, game, slips, S, Infos(u)) /\ ButtonsOK(u, p, game, slips, S, Infos(u))
    BY <1>7 DEF PageOK, p, S
  <1>11. PeopleOK(u, q, game, slips', S, Infos(u))
    BY <1>1, <1>3, <1>10 DEF PeopleOK
  <1>12. ButtonsOK(u, q, game, slips', S, Infos(u))
    BY <1>1, <1>3, <1>10 DEF ButtonsOK
  <1>13. PageOK(u)'
    BY <1>1, <1>4, <1>5, <1>9, <1>11, <1>12 DEF PageOK
  <1> QED
    BY <1>1, <1>3, <1>4, <1>6, <1>13 DEF HeardOK

LEMMA ShowOptionsClickHeard ==
    ASSUME Base, NEW u \in Watched, ShowOptionsClick(u), HeardOK(u)
    PROVE  HeardOK(u)'
  <1> DEFINE p == page[u]
             S == ToCome(u)
             q == page'[u]
  <1>1. /\ p.open
        /\ q = ShowOptions(p, u) \/ q = HideOptions(p)
        /\ game' = game /\ halfway' = halfway /\ events' = events /\ inFlight' = inFlight
        /\ slips \subseteq slips'
        /\ q.shown /\ q.enabled /\ game.state # "LOBBY" => "shownInGame" \in slips'
    BY ShowOptionsClickFacts
  <1>2. p \in Pages /\ game.state \in States
    BY TypeFacts DEF Base, Games
  <1>3. Infos(u)' = Infos(u) /\ Lists(u)' = Lists(u) /\ Changes(u)' = Changes(u)
    BY <1>1 DEF Infos, Lists, Changes, Mine, Messages
  <1>4. ToCome(u)' = S
    BY <1>1 DEF ToCome
  <1>5. /\ EventsOK(u, events[u], game, slips') /\ AnswersOK(u, Infos(u), events[u], game, slips')
    BY <1>1, LessPromised DEF HeardOK
  <1>6. PageOK(u)
    BY <1>1 DEF HeardOK
  <1> HIDE DEF p, q, S
  <1>7. /\ q.open /\ q.host = p.host /\ q.form = p.form
        /\ q.state = p.state /\ q.start = p.start /\ q.stop = p.stop /\ q.panels = p.panels
        /\ q.shown => (q.enabled <=> p.host = u /\ p.state = "LOBBY")
    <2> DEFINE c == p.host = u /\ p.state = "LOBBY"
    <2>1. c \in BOOLEAN /\ (c <=> p.host = u /\ p.state = "LOBBY")
      OBVIOUS
    <2>2. ShowOptions(p, u) = [p EXCEPT !.shown = TRUE, !.enabled = c]
      BY DEF ShowOptions
    <2> HIDE DEF c
    <2>3. CASE q = ShowOptions(p, u)
      BY <1>1, <1>2, <2>1, <2>2, <2>3 DEF Pages
    <2>4. CASE q = HideOptions(p)
      BY <1>1, <1>2, <2>4 DEF HideOptions, Pages
    <2> QED
      BY <1>1, <2>3, <2>4
  <1>8. FormOK(u, q, game, slips', S, Infos(u), Changes(u), halfway)
    <2>1. FormOK(u, p, game, slips, S, Infos(u), Changes(u), halfway)
      BY <1>6 DEF PageOK, p, S
    <2> QED
      BY <1>1, <1>7, <2>1 DEF FormOK
  <1>9. PeopleOK(u, p, game, slips, S, Infos(u)) /\ ButtonsOK(u, p, game, slips, S, Infos(u))
    BY <1>6 DEF PageOK, p, S
  <1>10. PeopleOK(u, q, game, slips', S, Infos(u))
    BY <1>1, <1>7, <1>9 DEF PeopleOK
  <1>11. ButtonsOK(u, q, game, slips', S, Infos(u))
    BY <1>1, <1>7, <1>9 DEF ButtonsOK
  <1>12. page'[u] = q
    BY DEF q
  <1>13. PageOK(u)'
    BY <1>1, <1>3, <1>4, <1>8, <1>10, <1>11, <1>12 DEF PageOK
  <1> QED
    BY <1>1, <1>3, <1>5, <1>7, <1>12, <1>13 DEF HeardOK

LEMMA HeardInit == Init => HeardInv
  <1> SUFFICES ASSUME Init, NEW u \in Watched
               PROVE  HeardOK(u)
    BY DEF HeardInv
  <1>1. events[u] = <<>> /\ page[u] = Closed /\ inFlight = EmptyBag
    BY DEF Init
  <1>2. Messages = {}
    BY <1>1, NoneIsABag DEF Messages
  <1>3. Infos(u) = {} /\ Lists(u) = {}
    BY <1>2 DEF Infos, Lists, Mine
  <1>4. ~Closed.open
    BY NewPageType DEF Closed, NewPage
  <1>5. EventsOK(u, events[u], game, slips) /\ AnswersOK(u, Infos(u), events[u], game, slips)
    BY <1>1, <1>3 DEF EventsOK, AnswersOK
  <1> QED
    BY <1>1, <1>3, <1>4, <1>5 DEF HeardOK

\* One step for each of the other actions; those of other pages are of no matter to u.
LEMMA HeardStep ==
    ASSUME Base, HeardInv, [Next]_vars
    PROVE  HeardInv'
  <1> SUFFICES ASSUME InOrder(slips)', NEW u \in Watched, u \in Members(game')
               PROVE  HeardOK(u)'
    BY DEF HeardInv
  <1>0. InOrder(slips')
    OBVIOUS
  <1>1. ASSUME game' = game, slips \subseteq slips'
        PROVE  HeardOK(u) /\ "overtaken" \notin slips' /\ u \in Members(game)
    BY <1>0, <1>1, SlipsInOrder DEF HeardInv
  <1>2. CASE \E t : ServerStep(t)
    BY <1>0, <1>2, ServerHeard
  <1>3. ASSUME NEW v \in Watched, Enter(v)
        PROVE  HeardOK(u)'
    BY <1>1, <1>3, EnterFacts, EnterHeard, AsideHeard
  <1>4. ASSUME NEW v \in Watched, Exit(v)
        PROVE  HeardOK(u)'
    BY <1>1, <1>4, ExitFacts, AsideHeard
  <1>5. ASSUME NEW v \in Watched, Reload(v)
        PROVE  HeardOK(u)'
    BY <1>1, <1>5, ReloadFacts, ReloadHeard, AsideHeard
  <1>6. ASSUME NEW v \in Watched, HandleEvent(v)
        PROVE  HeardOK(u)'
    <2>1. /\ game' = game /\ halfway' = halfway /\ slips \subseteq slips'
          /\ u # v => Aside(u)
      BY <1>6, HandleEventFacts
    <2> QED
      BY <1>1, <1>6, <2>1, HandleEventHeard, AsideHeard
  <1>7. ASSUME NEW v \in Watched, ShowOptionsClick(v)
        PROVE  HeardOK(u)'
    <2>1. /\ game' = game /\ halfway' = halfway /\ slips \subseteq slips'
          /\ u # v => Aside(u)
      BY <1>7, ShowOptionsClickFacts
    <2> QED
      BY <1>1, <1>7, <2>1, ShowOptionsClickHeard, AsideHeard
  <1>8. ASSUME NEW v \in Watched, NEW f \in Fields, NEW x \in Values, OptionChanged(v, f, x)
        PROVE  HeardOK(u)'
    <2>1. /\ game' = game /\ halfway' = halfway /\ slips \subseteq slips'
          /\ u # v => Aside(u)
      BY <1>8, OptionChangedFacts
    <2> QED
      BY <1>1, <1>8, <2>1, OptionChangedHeard, AsideHeard
  <1>9. ASSUME NEW m \in Messages, Serve(m), m.op = "CHANGE_GAME_OPTIONS"
        PROVE  HeardOK(u)'
    <2>1. /\ game' = game /\ halfway \subseteq halfway' /\ slips \subseteq slips'
          /\ u # m.user => Aside(u)
      BY <1>9, ServeChangeFacts
    <2> QED
      BY <1>1, <1>9, <2>1, ServeChangeHeard, AsideHeard
  <1>10. ASSUME NEW m \in Messages, Serve(m), m.op # "CHANGE_GAME_OPTIONS"
         PROVE  HeardOK(u)'
    <2>1. /\ game' = game /\ halfway' = halfway /\ slips \subseteq slips'
          /\ u # m.user => Aside(u)
      BY <1>10, ServeReadFacts
    <2> QED
      BY <1>1, <1>10, <2>1, ServeReadHeard, AsideHeard
  <1>11. ASSUME NEW m \in Messages, Learn(m)
         PROVE  HeardOK(u)'
    <2>1. /\ game' = game /\ halfway' = halfway /\ slips \subseteq slips'
          /\ u # m.user => Aside(u)
      BY <1>11, LearnFacts
    <2> QED
      BY <1>1, <1>11, <2>1, LearnHeard, AsideHeard
  <1>12. CASE UNCHANGED vars
    <2>1. game' = game /\ halfway' = halfway /\ slips' = slips /\ Aside(u)
      BY <1>12 DEF vars, Aside, Mine, Messages
    <2> QED
      BY <1>1, <2>1, AsideHeard
  <1> QED
    BY <1>2, <1>3, <1>4, <1>5, <1>6, <1>7, <1>8, <1>9, <1>10, <1>11, <1>12, Steps

LEMMA HeardAlways == Spec => [](Base /\ HeardInv)
  <1>1. Init => Base /\ HeardInv
    BY BaseInit, HeardInit
  <1>2. Base /\ HeardInv /\ [Next]_vars => (Base /\ HeardInv)'
    BY BaseStep, HeardStep
  <1> QED
    BY <1>1, <1>2, PTL DEF Spec

-----------------------------------------------------------------------------
\* Of a page at rest, nothing is to come.
LEMMA AtRest ==
    ASSUME Base, HeardInv, InOrder(slips), NEW u \in Watched, Quiet(u)
    PROVE  /\ u \in Members(game) /\ page[u].open /\ PageOK(u)
           /\ Infos(u) = {} /\ Lists(u) = {} /\ Changes(u) = {} /\ halfway = {} /\ ToCome(u) = {}
  <1>1. /\ u \in Members(game) /\ page[u].open /\ halfway = {} /\ events[u] = <<>>
        /\ \A m \in Messages : m.user # u
    BY DEF Quiet
  <1>2. ToCome(u) = {}
    BY <1>1 DEF ToCome, After
  <1>3. Infos(u) = {} /\ Lists(u) = {} /\ Changes(u) = {}
    BY <1>1 DEF Infos, Lists, Changes, Mine
  <1>4. PageOK(u)
    BY <1>1 DEF HeardInv, HeardOK
  <1> QED
    BY <1>1, <1>2, <1>3, <1>4

LEMMA NothingToCome ==
    ASSUME NEW u
    PROVE  /\ ~WithOptions({}) /\ ~Refreshing(u, {}) /\ ~Renewing(u, {})
           /\ \A x : ~StateComes(x, {})
           /\ ~HostComes(u, {})
           /\ \A w : ~Leaves(w, {})
  BY DEF WithOptions, Refreshing, Renewing, StateComes, HostComes, Leaves

\* The scoreboard: for any users and any game, and however the pages come and go, a page at
\* rest has a panel for each of those in the game and for no other (updateUserStatus,
\* updateSpectator and playerLeave against addPlayer, addSpectator and removePlayer).
THEOREM Scoreboard == Spec => []RosterAgrees
  <1>1. Base /\ HeardInv => RosterAgrees
    <2> SUFFICES ASSUME Base, HeardInv, slips \cap {"lateHost", "overtaken", "soonBack"} = {},
                        NEW u \in Watched, Quiet(u)
                 PROVE  page[u].panels = Members(game)
      BY DEF RosterAgrees
    <2>1. InOrder(slips) /\ "lateHost" \notin slips
      BY DEF InOrder
    <2>2. PeopleOK(u, page[u], game, slips, {}, {})
      BY <2>1, AtRest DEF PageOK
    <2>3. (\A w \in page[u].panels : w \in Members(game)) /\ (\A w \in Members(game) : w \in page[u].panels)
      BY <2>1, <2>2, NothingToCome DEF PeopleOK, Somewhere
    <2> QED
      BY <2>3
  <1> QED
    BY <1>1, HeardAlways, PTL

\* The buttons: a page at rest offers to start the game, to stop it and to edit its options to
\* the host and to nobody else, whichever can be done in the state that the game is in, though
\* nobody is told of a host that takes the place of one that left (updateGameStatus,
\* updateOptionsEnabled_ and playerInfoChange against removePlayer, changeHost and start).
THEOREM HostsButtons == Spec => []HostKnows
  <1>1. Base /\ HeardInv => HostKnows
    <2> SUFFICES ASSUME Base, HeardInv,
                        slips \cap {"lateHost", "overtaken", "soonBack", "shownInGame"} = {},
                        NEW u \in Watched, Quiet(u)
                 PROVE  /\ page[u].start <=> game.host = u /\ game.state = "LOBBY"
                        /\ page[u].stop <=> game.host = u /\ game.state = "PLAYING"
                        /\ page[u].shown => (page[u].enabled <=> game.host = u /\ game.state = "LOBBY")
      BY DEF HostKnows
    <2>1. InOrder(slips) /\ "lateHost" \notin slips /\ "shownInGame" \notin slips
      BY DEF InOrder
    <2>2. /\ ButtonsOK(u, page[u], game, slips, {}, {})
          /\ FormOK(u, page[u], game, slips, {}, {}, {}, {})
      BY <2>1, AtRest DEF PageOK
    <2>3. page[u].state \in {"LOBBY", "PLAYING"} /\ game.state \in {"LOBBY", "PLAYING"} /\ game.host # None
      BY TypeFacts, LobbyAssumption DEF Base, Pages, Games, States
    <2>4. /\ page[u].host = game.host
          /\ page[u].start => IsHost(game, u)
          /\ IsHost(game, u) => page[u].start
          /\ page[u].stop => game.host = u /\ game.state = "PLAYING"
          /\ game.host = u /\ game.state = "PLAYING" => page[u].stop
          /\ page[u].state = "PLAYING" => game.state = "PLAYING"
          /\ page[u].shown /\ page[u].host # None => (page[u].enabled <=> page[u].host = u /\ page[u].state = "LOBBY")
      BY <2>1, <2>2, NothingToCome DEF ButtonsOK
    <2>5. page[u].shown /\ page[u].enabled => game.state = "LOBBY"
      BY <2>1, <2>2, NothingToCome DEF FormOK, Renewed
    <2> QED
      BY <2>3, <2>4, <2>5 DEF IsHost
  <1> QED
    BY <1>1, HeardAlways, PTL

-----------------------------------------------------------------------------
(* Custom decks: how often the page of u shows d is c.  What is to come of *)
(* d, after n events of q, makes that right; in: d is in the game.         *)

One(b) == IF b THEN 1 ELSE 0

NoDeck(q, d, m, n) == \A i \in 1..Len(q) : m < i /\ i < n => ~IsDeck(q[i], d)

Adding(e, d) == IsDeck(e, d) /\ e.type = "addCardset"

Removing(e, d) == IsDeck(e, d) /\ e.type = "removeCardset"

DeckRight(q, n, d, c, in) ==
    /\ NoDeck(q, d, n, Len(q) + 1) => c = One(in)
    /\ \A k \in 1..Len(q) : n < k /\ Adding(q[k], d) /\ NoDeck(q, d, n, k) => c = 0

\* Each removal of a deck that is there by the first n events is one that was taken back.
TakenBack(q, d, n) ==
    \A i \in 1..Len(q) : i <= n /\ Removing(q[i], d) =>
        \E k \in 1..Len(q) : i < k /\ k <= n /\ Adding(q[k], d)

DeckEventsOK(q, D) ==
    /\ \A i \in 1..Len(q), d \in Decks :
          IsDeck(q[i], d) => DeckRight(q, i, d, One(q[i].type = "addCardset"), d \in D)
    /\ \A d \in D : TakenBack(q, d, Len(q))

\* L: the lists of decks that the page has asked for.
ListsOK(L, q, D) ==
    \A m \in L : m.answered =>
        /\ m.ahead <= Len(q)
        /\ \A d \in Decks : DeckRight(q, m.ahead, d, One(d \in m.data.decks), d \in D)
        /\ \A d \in m.data.decks : TakenBack(q, d, m.ahead)

LEMMA QueueTail ==
    ASSUME NEW q \in Seq(Events), q # <<>>
    PROVE  /\ Len(q) \in Nat /\ Len(q) > 0 /\ Len(Tail(q)) = Len(q) - 1
           /\ \A i \in 1..Len(Tail(q)) : i + 1 \in 1..Len(q) /\ Tail(q)[i] = q[i + 1]
           /\ \A i \in 1..Len(q) : i > 1 => i - 1 \in 1..Len(Tail(q)) /\ Tail(q)[i - 1] = q[i]
           /\ \A n \in Nat : n + 1 > 0
  OBVIOUS

LEMMA QueueAppend ==
    ASSUME NEW q \in Seq(Events), NEW t \in Seq(Events)
    PROVE  LET p == q \o t
           IN  /\ Len(q) \in Nat /\ Len(t) \in Nat /\ Len(p) = Len(q) + Len(t)
               /\ \A i \in 1..Len(q) : i \in 1..Len(p) /\ p[i] = q[i]
               /\ \A i \in 1..Len(p) : i > Len(q) => p[i] \in ToSet(t)
               /\ \A i \in 1..Len(p) : i <= Len(q) => i \in 1..Len(q)
  <1> DEFINE p == q \o t
  <1>1. /\ Len(q) \in Nat /\ Len(t) \in Nat /\ Len(p) = Len(q) + Len(t)
        /\ \A i \in 1..Len(q) : p[i] = q[i]
        /\ \A i \in 1..Len(t) : p[Len(q) + i] = t[i]
    OBVIOUS
  <1> HIDE DEF p
  <1>2. ASSUME NEW i \in 1..Len(p), i > Len(q)
        PROVE  p[i] \in ToSet(t)
    <2>1. i - Len(q) \in 1..Len(t) /\ Len(q) + (i - Len(q)) = i
      BY <1>1, <1>2
    <2>2. p[i] = t[i - Len(q)]
      BY <1>1, <2>1
    <2> QED
      BY <2>1, <2>2 DEF ToSet
  <1>3. \A i \in 1..Len(q) : i \in 1..Len(p)
    BY <1>1
  <1>4. \A i \in 1..Len(p) : i <= Len(q) => i \in 1..Len(q)
    BY <1>1
  <1>5. /\ Len(q) \in Nat /\ Len(t) \in Nat /\ Len(p) = Len(q) + Len(t)
        /\ \A i \in 1..Len(q) : i \in 1..Len(p) /\ p[i] = q[i]
        /\ \A i \in 1..Len(p) : i > Len(q) => p[i] \in ToSet(t)
        /\ \A i \in 1..Len(p) : i <= Len(q) => i \in 1..Len(q)
    BY <1>1, <1>2, <1>3, <1>4
  <1> QED
    BY <1>5 DEF p

\* The page handles an event: what was to come after n + 1 events comes after n.
LEMMA DeckTail ==
    ASSUME NEW q \in Seq(Events), q # <<>>, NEW n \in Nat, NEW d
    PROVE  /\ \A c, in : DeckRight(q, n + 1, d, c, in) => DeckRight(Tail(q), n, d, c, in)
           /\ TakenBack(q, d, n + 1) => TakenBack(Tail(q), d, n)
  <1> DEFINE t == Tail(q)
  <1>1. /\ Len(q) \in Nat /\ Len(q) > 0 /\ Len(t) = Len(q) - 1
        /\ \A i \in 1..Len(t) : i + 1 \in 1..Len(q) /\ t[i] = q[i + 1]
        /\ \A i \in 1..Len(q) : i > 1 => i - 1 \in 1..Len(t) /\ t[i - 1] = q[i]
    BY QueueTail
  <1> HIDE DEF t
  <1>2. ASSUME NEW k \in Nat, NoDeck(t, d, n, k)
        PROVE  NoDeck(q, d, n + 1, k + 1)
    <2> SUFFICES ASSUME NEW i \in 1..Len(q), n + 1 < i, i < k + 1
                 PROVE  ~IsDeck(q[i], d)
      BY DEF NoDeck
    <2>1. i > 1 /\ i - 1 \in 1..Len(t) /\ n < i - 1 /\ i - 1 < k
      BY <1>1
    <2>2. ~IsDeck(t[i - 1], d)
      BY <1>2, <2>1 DEF NoDeck
    <2> QED
      BY <1>1, <2>1, <2>2
  <1>3. ASSUME NEW c, NEW in, DeckRight(q, n + 1, d, c, in)
        PROVE  DeckRight(t, n, d, c, in)
    <2>1. ASSUME NoDeck(t, d, n, Len(t) + 1)
          PROVE  c = One(in)
      <3>1. Len(t) + 1 \in Nat /\ Len(t) + 1 + 1 = Len(q) + 1
        BY <1>1
      <3>2. NoDeck(q, d, n + 1, Len(t) + 1 + 1)
        BY <1>2, <2>1, <3>1
      <3>3. NoDeck(q, d, n + 1, Len(q) + 1)
        BY <3>1, <3>2
      <3> QED
        BY <1>3, <3>3 DEF DeckRight
    <2>2. ASSUME NEW k \in 1..Len(t), n < k, Adding(t[k], d), NoDeck(t, d, n, k)
          PROVE  c = 0
      <3>1. k \in Nat /\ k + 1 \in 1..Len(q) /\ n + 1 < k + 1 /\ t[k] = q[k + 1]
        BY <1>1, <2>2
      <3>2. NoDeck(q, d, n + 1, k + 1)
        BY <1>2, <2>2, <3>1
      <3> QED
        BY <1>3, <2>2, <3>1, <3>2 DEF DeckRight
    <2> QED
      BY <2>1, <2>2 DEF DeckRight
  <1>4. ASSUME TakenBack(q, d, n + 1)
        PROVE  TakenBack(t, d, n)
    <2> SUFFICES ASSUME NEW i \in 1..Len(t), i <= n, Removing(t[i], d)
                 PROVE  \E k \in 1..Len(t) : i < k /\ k <= n /\ Adding(t[k], d)
      BY DEF TakenBack
    <2>1. i + 1 \in 1..Len(q) /\ i + 1 <= n + 1 /\ Removing(q[i + 1], d)
      BY <1>1
    <2>2. PICK k \in 1..Len(q) : i + 1 < k /\ k <= n + 1 /\ Adding(q[k], d)
      BY <1>4, <2>1 DEF TakenBack
    <2>3. k > 1 /\ k - 1 \in 1..Len(t) /\ i < k - 1 /\ k - 1 <= n
      BY <1>1, <2>2
    <2>4. Adding(t[k - 1], d)
      BY <1>1, <2>2, <2>3
    <2> QED
      BY <2>3, <2>4
  <1>5. /\ \A c, in : DeckRight(q, n + 1, d, c, in) => DeckRight(t, n, d, c, in)
        /\ TakenBack(q, d, n + 1) => TakenBack(t, d, n)
    BY <1>3, <1>4
  <1> QED
    BY <1>5 DEF t

\* The server tells of what changes.
LEMMA DeckAppend ==
    ASSUME NEW q \in Seq(Events), NEW t \in Seq(Events), NEW g \in Games, NEW h \in Games,
           DeckNews(g, h, t), NEW n \in Nat, n <= Len(q), NEW d \in Decks, NEW c,
           DeckRight(q, n, d, c, d \in g.decks)
    PROVE  DeckRight(q \o t, n, d, c, d \in h.decks)
  <1> DEFINE p == q \o t
  <1>1. /\ Len(q) \in Nat /\ Len(t) \in Nat /\ Len(p) = Len(q) + Len(t)
        /\ \A i \in 1..Len(q) : i \in 1..Len(p) /\ p[i] = q[i]
        /\ \A i \in 1..Len(p) : i > Len(q) => p[i] \in ToSet(t)
        /\ \A i \in 1..Len(p) : i <= Len(q) => i \in 1..Len(q)
    BY QueueAppend
  <1>2. \A x \in Decks : \A y : t = News(y, x) => Len(t) = 1 /\ ToSet(t) = {[type |-> y, who |-> x]}
    BY NewsSets DEF News
  <1> HIDE DEF p
  <1>3. \A k \in Nat : NoDeck(p, d, n, k) => NoDeck(q, d, n, k)
    BY <1>1 DEF NoDeck
  <1>4. ASSUME NEW k \in 1..Len(p), k <= Len(q), n < k, Adding(p[k], d), NoDeck(p, d, n, k)
        PROVE  c = 0
    BY <1>1, <1>3, <1>4 DEF DeckRight
  <1>5. NoDeck(p, d, n, Len(q) + 1) => c = One(d \in g.decks)
    BY <1>1, <1>3 DEF DeckRight
  <1>6. CASE (d \in h.decks <=> d \in g.decks) /\ \A e \in ToSet(t) : ~IsDeck(e, d)
    <2>1. ASSUME NoDeck(p, d, n, Len(p) + 1)
          PROVE  c = One(d \in h.decks)
      <3>1. NoDeck(p, d, n, Len(q) + 1)
        BY <1>1, <2>1 DEF NoDeck
      <3> QED
        BY <1>5, <1>6, <3>1 DEF One
    <2>2. ASSUME NEW k \in 1..Len(p), n < k, Adding(p[k], d), NoDeck(p, d, n, k)
          PROVE  c = 0
      <3>1. k <= Len(q)
        BY <1>1, <1>6, <2>2 DEF Adding
      <3> QED
        BY <1>4, <2>2, <3>1
    <2>3. DeckRight(p, n, d, c, d \in h.decks)
      BY <2>1, <2>2 DEF DeckRight
    <2> QED
      BY <2>3 DEF p
  <1>7. CASE Len(t) = 1 /\ (\A e \in ToSet(t) : IsDeck(e, d)) /\ (\A e \in ToSet(t) : Adding(e, d) => d \notin g.decks)
    <2>1. Len(p) \in 1..Len(p) /\ Len(p) > Len(q) /\ n < Len(p) /\ Len(p) < Len(p) + 1 /\ Len(p) = Len(q) + 1
      BY <1>1, <1>7
    <2>2. ~NoDeck(p, d, n, Len(p) + 1)
      BY <1>1, <1>7, <2>1 DEF NoDeck
    <2>3. ASSUME NEW k \in 1..Len(p), n < k, Adding(p[k], d), NoDeck(p, d, n, k)
          PROVE  c = 0
      <3>1. CASE k <= Len(q)
        BY <1>4, <2>3, <3>1
      <3>2. CASE k > Len(q)
        <4>1. k = Len(q) + 1 /\ d \notin g.decks
          BY <1>1, <1>7, <2>1, <2>3, <3>2
        <4> QED
          BY <1>5, <2>3, <4>1 DEF One
      <3> QED
        BY <1>1, <3>1, <3>2
    <2>4. DeckRight(p, n, d, c, d \in h.decks)
      BY <2>2, <2>3 DEF DeckRight
    <2> QED
      BY <2>4 DEF p
  <1>8. CASE \E x \in Decks : t = News("addCardset", x) /\ x \notin g.decks /\ h.decks = g.decks \cup {x}
    <2>1. PICK x \in Decks : t = News("addCardset", x) /\ x \notin g.decks /\ h.decks = g.decks \cup {x}
      BY <1>8
    <2>2. Len(t) = 1 /\ \A e \in ToSet(t) : e.type = "addCardset" /\ e.who = x
      BY <1>2, <2>1
    <2> QED
      BY <1>6, <1>7, <2>1, <2>2 DEF IsDeck
  <1>9. CASE \E x \in Decks : t = News("removeCardset", x) /\ h.decks = g.decks \ {x}
    <2>1. PICK x \in Decks : t = News("removeCardset", x) /\ h.decks = g.decks \ {x}
      BY <1>9
    <2>2. Len(t) = 1 /\ \A e \in ToSet(t) : e.type = "removeCardset" /\ e.who = x
      BY <1>2, <2>1
    <2> QED
      BY <1>6, <1>7, <2>1, <2>2 DEF IsDeck, Adding
  <1> QED
    BY <1>6, <1>8, <1>9 DEF DeckNews

\* What was taken back is so after more events.
LEMMA TakenBackMore ==
    ASSUME NEW q \in Seq(Events), NEW t \in Seq(Events), NEW d, NEW n \in Nat, n <= Len(q), TakenBack(q, d, n)
    PROVE  TakenBack(q \o t, d, n)
  <1> DEFINE p == q \o t
  <1>1. /\ Len(q) \in Nat /\ Len(t) \in Nat /\ Len(p) = Len(q) + Len(t)
        /\ \A i \in 1..Len(q) : i \in 1..Len(p) /\ p[i] = q[i]
        /\ \A i \in 1..Len(p) : i <= Len(q) => i \in 1..Len(q)
    BY QueueAppend
  <1> HIDE DEF p
  <1>2. TakenBack(p, d, n)
    <2> SUFFICES ASSUME NEW i \in 1..Len(p), i <= n, Removing(p[i], d)
                 PROVE  \E k \in 1..Len(p) : i < k /\ k <= n /\ Adding(p[k], d)
      BY DEF TakenBack
    <2>1. i \in 1..Len(q) /\ Removing(q[i], d)
      BY <1>1
    <2>2. PICK k \in 1..Len(q) : i < k /\ k <= n /\ Adding(q[k], d)
      BY <2>1 DEF TakenBack
    <2> QED
      BY <1>1, <2>2
  <1> QED
    BY <1>2 DEF p

LEMMA DeckEventsTold ==
    ASSUME NEW q \in Seq(Events), NEW t \in Seq(Events), NEW g \in Games, NEW h \in Games,
           DeckNews(g, h, t), DeckEventsOK(q, g.decks)
    PROVE  DeckEventsOK(q \o t, h.decks)
  <1> DEFINE p == q \o t
  <1>1. /\ Len(q) \in Nat /\ Len(t) \in Nat /\ Len(p) = Len(q) + Len(t)
        /\ \A i \in 1..Len(q) : i \in 1..Len(p) /\ p[i] = q[i]
        /\ \A i \in 1..Len(p) : i > Len(q) => p[i] \in ToSet(t)
        /\ \A i \in 1..Len(p) : i <= Len(q) => i \in 1..Len(q)
    BY QueueAppend
  <1>2. \A x \in Decks : \A y : t = News(y, x) => Len(t) = 1 /\ ToSet(t) = {[type |-> y, who |-> x]}
    BY NewsSets DEF News
  <1>0. g.decks \subseteq Decks /\ h.decks \subseteq Decks
    BY DEF Games
  <1>3. ASSUME NEW d \in Decks, NEW n \in Nat, n <= Len(q), NEW c, DeckRight(q, n, d, c, d \in g.decks)
        PROVE  DeckRight(p, n, d, c, d \in h.decks)
    BY <1>3, DeckAppend
  <1>4. ASSUME NEW d, TakenBack(q, d, Len(q))
        PROVE  TakenBack(p, d, Len(q))
    BY <1>1, <1>4, TakenBackMore
  <1> HIDE DEF p
  <1>5. ASSUME NEW i \in 1..Len(p), NEW d \in Decks, IsDeck(p[i], d)
        PROVE  DeckRight(p, i, d, One(p[i].type = "addCardset"), d \in h.decks)
    <2>1. CASE i <= Len(q)
      <3>1. i \in 1..Len(q) /\ i \in Nat /\ p[i] = q[i]
        BY <1>1, <2>1
      <3>2. DeckRight(q, i, d, One(q[i].type = "addCardset"), d \in g.decks)
        BY <1>5, <3>1 DEF DeckEventsOK
      <3>3. DeckRight(p, i, d, One(q[i].type = "addCardset"), d \in h.decks)
        BY <1>3, <2>1, <3>1, <3>2
      <3> QED
        BY <3>1, <3>3
    <2>2. CASE i > Len(q)
      <3>1. p[i] \in ToSet(t)
        BY <1>1, <2>2
      <3>2. Len(t) = 1 /\ (p[i].type = "addCardset" <=> d \in h.decks)
        BY <1>2, <1>5, <3>1 DEF DeckNews, IsDeck
      <3>3. i = Len(p)
        BY <1>1, <2>2, <3>2
      <3>4. \A k \in 1..Len(p) : ~(i < k)
        BY <3>3
      <3>5. One(p[i].type = "addCardset") = One(d \in h.decks)
        BY <3>2 DEF One
      <3> QED
        BY <3>4, <3>5 DEF DeckRight
    <2> QED
      BY <1>1, <2>1, <2>2
  <1>6. ASSUME NEW d \in h.decks
        PROVE  TakenBack(p, d, Len(p))
    <2>1. CASE d \in g.decks /\ \A e \in ToSet(t) : ~Removing(e, d)
      <3>1. TakenBack(p, d, Len(q))
        BY <1>4, <2>1 DEF DeckEventsOK
      <3> QED
        BY <1>1, <2>1, <3>1 DEF TakenBack
    <2>2. CASE Len(t) = 1 /\ \A e \in ToSet(t) : Adding(e, d)
      <3>1. Len(p) \in 1..Len(p) /\ Len(p) > Len(q) /\ Len(p) = Len(q) + 1
        BY <1>1, <2>2
      <3>2. Adding(p[Len(p)], d)
        BY <1>1, <2>2, <3>1
      <3>3. \A i \in 1..Len(p) : Removing(p[i], d) => i < Len(p)
        BY <3>1, <3>2 DEF Removing, Adding
      <3> QED
        BY <3>1, <3>2, <3>3 DEF TakenBack
    <2>3. \/ d \in g.decks /\ \A e \in ToSet(t) : ~Removing(e, d)
          \/ Len(t) = 1 /\ \A e \in ToSet(t) : Adding(e, d)
      <3>1. CASE h.decks = g.decks /\ \A e \in ToSet(t), x \in Decks : ~IsDeck(e, x)
        BY <1>0, <3>1 DEF Removing
      <3>2. ASSUME NEW x \in Decks, t = News("addCardset", x), x \notin g.decks, h.decks = g.decks \cup {x}
            PROVE  \/ d \in g.decks /\ \A e \in ToSet(t) : ~Removing(e, d)
                   \/ Len(t) = 1 /\ \A e \in ToSet(t) : Adding(e, d)
        BY <1>2, <3>2 DEF Removing, Adding, IsDeck
      <3>3. ASSUME NEW x \in Decks, t = News("removeCardset", x), h.decks = g.decks \ {x}
            PROVE  d \in g.decks /\ \A e \in ToSet(t) : ~Removing(e, d)
        BY <1>2, <3>3 DEF Removing, IsDeck
      <3> QED
        BY <3>1, <3>2, <3>3 DEF DeckNews
    <2> QED
      BY <2>1, <2>2, <2>3
  <1>7. DeckEventsOK(p, h.decks)
    BY <1>5, <1>6 DEF DeckEventsOK
  <1> QED
    BY <1>7 DEF p

ListOfDecks(u, q, c, D) == \A d \in Decks : DeckRight(q, 0, d, c[d], d \in D)

DecksOK(u) ==
    /\ DeckEventsOK(events[u], game.decks)
    /\ ListsOK(Lists(u), events[u], game.decks)
    /\ page[u].open /\ "early" \notin slips =>
          Lists(u) # {} \/ ListOfDecks(u, events[u], page[u].decks, game.decks)

DeckInv == InOrder(slips) => \A u \in Watched : u \in Members(game) => DecksOK(u)

LEMMA ServerDecks ==
    ASSUME Base, NEW t, ServerStep(t), DeckInv, HeardInv, InOrder(slips'), NEW u \in Watched, u \in Members(game')
    PROVE  DecksOK(u)'
  <1>1. /\ game \in Games /\ game' \in Games /\ t \in Seq(Events) /\ events' = Told(game', t)
        /\ inFlight' = inFlight /\ page' = page /\ slips \subseteq slips'
        /\ DeckNews(game, game', t)
        /\ u \notin Members(game) => Newcomer(u)
    BY StayingFacts DEF ServerStep, Announced
  <1>2. /\ events \in [Watched -> Seq(Events)] /\ events[u] \in Seq(Events)
        /\ \A m \in Lists(u) : m.ahead \in Nat /\ (m.answered => m.data \in Games)
    BY TypeFacts DEF Base, Lists, Mine
  <1>3. events'[u] = events[u] \o t
    BY <1>1, <1>2, ToldType
  <1>4. Lists(u)' = Lists(u)
    BY <1>1 DEF Lists, Mine, Messages
  <1>5. InOrder(slips) /\ "soonBack" \notin slips'
    BY <1>1, SlipsInOrder
  <1>6. CASE u \notin Members(game)
    <2>1. events[u] = <<>> /\ Mine(u) = {} /\ ~page[u].open
      BY <1>1, <1>5, <1>6 DEF Newcomer
    <2>2. Lists(u) = {}
      BY <2>1 DEF Lists
    <2>3. DeckEventsOK(events[u], game.decks)
      BY <2>1 DEF DeckEventsOK, TakenBack
    <2>4. DeckEventsOK(events[u] \o t, game'.decks)
      BY <1>1, <1>2, <2>3, DeckEventsTold
    <2>5. ListsOK({}, events[u] \o t, game'.decks)
      BY DEF ListsOK
    <2> QED
      BY <1>1, <1>3, <1>4, <2>1, <2>2, <2>4, <2>5 DEF DecksOK
  <1>7. CASE u \in Members(game)
    <2>1. DecksOK(u)
      BY <1>5, <1>7 DEF DeckInv
    <2>2. DeckEventsOK(events[u] \o t, game'.decks)
      BY <1>1, <1>2, <2>1, DeckEventsTold DEF DecksOK
    <2>3. ListsOK(Lists(u), events[u] \o t, game'.decks)
      <3> SUFFICES ASSUME NEW m \in Lists(u), m.answered
                   PROVE  /\ m.ahead <= Len(events[u] \o t)
                          /\ \A d \in Decks : DeckRight(events[u] \o t, m.ahead, d, One(d \in m.data.decks), d \in game'.decks)
                          /\ \A d \in m.data.decks : TakenBack(events[u] \o t, d, m.ahead)
        BY DEF ListsOK
      <3>1. /\ m.ahead <= Len(events[u]) /\ m.ahead \in Nat
            /\ \A d \in Decks : DeckRight(events[u], m.ahead, d, One(d \in m.data.decks), d \in game.decks)
            /\ \A d \in m.data.decks : TakenBack(events[u], d, m.ahead)
        BY <1>2, <2>1 DEF DecksOK, ListsOK
      <3>2. m.ahead <= Len(events[u] \o t)
        BY <1>1, <1>2, <3>1
      <3>3. ASSUME NEW d \in Decks
            PROVE  DeckRight(events[u] \o t, m.ahead, d, One(d \in m.data.decks), d \in game'.decks)
        BY <1>1, <1>2, <3>1, DeckAppend
      <3>4. ASSUME NEW d \in m.data.decks
            PROVE  TakenBack(events[u] \o t, d, m.ahead)
        BY <1>1, <1>2, <3>1, TakenBackMore
      <3> QED
        BY <3>2, <3>3, <3>4
    <2>4. ASSUME ListOfDecks(u, events[u], page[u].decks, game.decks)
          PROVE  ListOfDecks(u, events[u] \o t, page[u].decks, game'.decks)
      <3> SUFFICES ASSUME NEW d \in Decks
                   PROVE  DeckRight(events[u] \o t, 0, d, page[u].decks[d], d \in game'.decks)
        BY DEF ListOfDecks
      <3>1. DeckRight(events[u], 0, d, page[u].decks[d], d \in game.decks) /\ 0 \in Nat /\ 0 <= Len(events[u])
        BY <1>2, <2>4 DEF ListOfDecks
      <3> QED
        BY <1>1, <1>2, <3>1, DeckAppend
    <2> QED
      BY <1>1, <1>3, <1>4, <2>1, <2>2, <2>3, <2>4 DEF DecksOK
  <1> QED
    BY <1>6, <1>7

\* Nothing happens to the page or to what it has asked, as far as decks go.
LEMMA SameDecks ==
    ASSUME game'.decks = game.decks, slips \subseteq slips', NEW u, events'[u] = events[u],
           Lists(u)' = Lists(u), page'[u].open => page[u].open /\ page'[u].decks = page[u].decks, DecksOK(u)
    PROVE  DecksOK(u)'
  BY DEF DecksOK

LEMMA EnterDecks ==
    ASSUME Base, NEW u \in Watched, Enter(u), HeardOK(u), DecksOK(u)
    PROVE  DecksOK(u)'
  <1>1. /\ Request(u, "LIST_CARDSETS", None, None) \in Messages'
        /\ \A m \in Messages' : m \notin Messages => m.user = u /\ m.op # "CHANGE_GAME_OPTIONS" /\ ~m.answered
        /\ game' = game /\ events' = events /\ slips' = slips
    BY EnterFacts
  <1>2. Lists(u) = {}
    BY DEF HeardOK, Enter
  <1>3. Lists(u)' # {}
    BY <1>1 DEF Lists, Mine, Request
  <1>4. \A m \in Lists(u)' : ~m.answered
    BY <1>1, <1>2 DEF Lists, Mine
  <1> QED
    BY <1>1, <1>3, <1>4 DEF DecksOK, ListsOK

LEMMA ReloadDecks ==
    ASSUME Base, NEW u \in Watched, Reload(u), DecksOK(u)
    PROVE  DecksOK(u)'
  <1>1. /\ ~page'[u].open
        /\ \A m \in Messages' : m \in Messages /\ ~(m.user = u /\ m.op # "CHANGE_GAME_OPTIONS")
        /\ game' = game /\ events' = events
    BY ReloadFacts
  <1>2. Lists(u)' = {}
    BY <1>1 DEF Lists, Mine
  <1> QED
    BY <1>1, <1>2 DEF DecksOK, ListsOK

LEMMA ServeReadDecks ==
    ASSUME Base, NEW m \in Messages, Serve(m), m.op # "CHANGE_GAME_OPTIONS", NEW u \in Watched,
           u = m.user, u \in Members(game), DecksOK(u)
    PROVE  DecksOK(u)'
  <1> DEFINE r == Answer(m)
             q == events[u]
  <1>1. /\ events' = events /\ page' = page /\ game' = game /\ slips \subseteq slips'
        /\ r.op = m.op /\ r.user = m.user /\ r.answered /\ r.data = game /\ r.ahead = Len(q)
        /\ \A n \in Messages' : n \in Messages \/ n = r
        /\ \A n \in Messages : n # m /\ n # r => n \in Messages'
        /\ r \in Messages'
    BY ServeReadFacts
  <1>2. q \in Seq(Events) /\ Len(q) \in Nat
    BY TypeFacts DEF Base
  <1> HIDE DEF r
  <1>3. Lists(u) # {} => Lists(u)' # {}
    <2>1. ASSUME NEW n \in Lists(u)
          PROVE  \E k \in Messages' : k.user = u /\ k.op = "LIST_CARDSETS"
      BY <1>1 DEF Lists, Mine
    <2> QED
      BY <2>1 DEF Lists, Mine
  <1>4. ListsOK(Lists(u)', q, game.decks)
    <2> SUFFICES ASSUME NEW n \in Lists(u)', n.answered
                 PROVE  /\ n.ahead <= Len(q)
                        /\ \A d \in Decks : DeckRight(q, n.ahead, d, One(d \in n.data.decks), d \in game.decks)
                        /\ \A d \in n.data.decks : TakenBack(q, d, n.ahead)
      BY DEF ListsOK
    <2>1. CASE n \in Lists(u)
      BY <2>1 DEF DecksOK, ListsOK
    <2>2. CASE n \notin Lists(u)
      <3>1. n.ahead = Len(q) /\ n.data = game
        BY <1>1, <2>2 DEF Lists, Mine
      <3>2. \A d \in Decks : DeckRight(q, Len(q), d, One(d \in game.decks), d \in game.decks)
        BY <1>2 DEF DeckRight
      <3>3. \A d \in game.decks : TakenBack(q, d, Len(q))
        BY DEF DecksOK, DeckEventsOK
      <3> QED
        BY <1>2, <3>1, <3>2, <3>3
    <2> QED
      BY <2>1, <2>2
  <1> QED
    BY <1>1, <1>3, <1>4 DEF DecksOK

LEMMA LearnDecks ==
    ASSUME Base, NEW m \in Messages, Learn(m), NEW u \in Watched, u = m.user, HeardOK(u), DecksOK(u)
    PROVE  DecksOK(u)'
  <1> DEFINE p == page[u]
             q == events[u]
             x == m.data
  <1>1. /\ m.answered /\ x \in Games
        /\ events' = events /\ game' = game /\ slips \subseteq slips'
        /\ page'[u] = IF p.open THEN Learned(p, m) ELSE p
        /\ \A n \in Messages' : n \in Messages
        /\ \A n \in Messages : n # m => n \in Messages'
        /\ m.op = "LIST_CARDSETS" /\ Early(m) => "early" \in slips'
    BY LearnFacts
  <1>2. /\ q \in Seq(Events) /\ p \in Pages /\ m.ahead \in Nat /\ Len(q) \in Nat
        /\ m.op \in {"GET_GAME_INFO", "LIST_CARDSETS"}
    BY <1>1, TypeFacts DEF Base, Requests, Ops
  <1>3. Lists(u)' \subseteq Lists(u)
    BY <1>1 DEF Lists, Mine
  <1>4. DeckEventsOK(q, game.decks) /\ ListsOK(Lists(u)', q, game.decks)
    BY <1>3 DEF DecksOK, ListsOK
  <1>5. CASE m.op = "GET_GAME_INFO"
    <2>1. m \in Infos(u)
      BY <1>5 DEF Infos, Mine
    <2>2. p.open
      BY <2>1 DEF HeardOK
    <2>3. Lists(u)' = Lists(u)
      BY <1>1, <1>5 DEF Lists, Mine
    <2>4. page'[u].decks = p.decks
      <3> DEFINE r == UpdateGameStatus(p, u, x)
      <3>1. r \in Pages /\ r.decks = p.decks
        BY <1>1, <1>2, UpdateGameStatusType, StatusFields
      <3>2. page'[u] = [r EXCEPT !.panels = @ \cup Members(x)]
        BY <1>1, <1>5, <2>2 DEF Learned
      <3> HIDE DEF r
      <3> QED
        BY <3>1, <3>2 DEF Pages
    <2> QED
      BY <1>1, <2>2, <2>3, <2>4, SameDecks
  <1>6. CASE m.op = "LIST_CARDSETS"
    <2>1. m \in Lists(u)
      BY <1>6 DEF Lists, Mine
    <2>2. p.open
      BY <2>1 DEF HeardOK
    <2>3. page'[u].decks = [d \in Decks |-> One(d \in x.decks)]
      <3> DEFINE c == [d \in Decks |-> IF d \in x.decks THEN 1 ELSE 0]
      <3>1. page'[u] = [p EXCEPT !.decks = c]
        BY <1>1, <1>6, <2>2 DEF Learned
      <3>2. [d \in Decks |-> One(d \in x.decks)] = c
        BY DEF One
      <3> HIDE DEF c
      <3> QED
        BY <1>2, <3>1, <3>2 DEF Pages
    <2>4. ASSUME "early" \notin slips', NEW d \in Decks
          PROVE  DeckRight(q, 0, d, One(d \in x.decks), d \in game.decks)
      <3>1. \A i \in 1..m.ahead : ~(q[i].type = "addCardset" /\ q[i].who \in x.decks)
        BY <1>1, <1>6, <2>4 DEF Early
      <3>2. /\ m.ahead <= Len(q)
            /\ DeckRight(q, m.ahead, d, One(d \in x.decks), d \in game.decks)
            /\ d \in x.decks => TakenBack(q, d, m.ahead)
        BY <1>1, <2>1 DEF DecksOK, ListsOK
      <3>3. CASE d \in x.decks
        <4>1. \A i \in 1..Len(q) : i <= m.ahead => ~Adding(q[i], d)
          BY <1>2, <3>1, <3>3 DEF Adding, IsDeck
        <4>2. \A i \in 1..Len(q) : i <= m.ahead => ~Removing(q[i], d)
          BY <3>2, <3>3, <4>1 DEF TakenBack
        <4>3. \A i \in 1..Len(q) : i <= m.ahead => ~IsDeck(q[i], d)
          BY <4>1, <4>2 DEF Adding, Removing, IsDeck
        <4>4. \A k \in Nat : NoDeck(q, d, 0, k) => NoDeck(q, d, m.ahead, k)
          BY <1>2 DEF NoDeck
        <4>5. \A k \in 1..Len(q) : Adding(q[k], d) => m.ahead < k
          BY <1>2, <4>1
        <4>6. Len(q) + 1 \in Nat /\ \A k \in 1..Len(q) : k \in Nat
          BY <1>2
        <4> QED
          BY <3>2, <4>4, <4>5, <4>6 DEF DeckRight
      <3>4. CASE d \notin x.decks
        <4>1. One(d \in x.decks) = 0
          BY <3>4 DEF One
        <4>2. NoDeck(q, d, 0, Len(q) + 1) => NoDeck(q, d, m.ahead, Len(q) + 1)
          BY <1>2 DEF NoDeck
        <4> QED
          BY <3>2, <4>1, <4>2 DEF DeckRight
      <3> QED
        BY <3>3, <3>4
    <2>5. "early" \notin slips' => ListOfDecks(u, q, page'[u].decks, game.decks)
      BY <2>3, <2>4 DEF ListOfDecks
    <2> QED
      BY <1>1, <1>4, <2>5 DEF DecksOK
  <1> QED
    BY <1>2, <1>5, <1>6

\* The page counts the deck, or counts it no more.
LEMMA HandledDecks ==
    ASSUME NEW p \in Pages, NEW u, NEW q \in Seq(Events), q # <<>>, NEW D \in SUBSET Decks,
           DeckEventsOK(q, D), ListOfDecks(u, q, p.decks, D)
    PROVE  ListOfDecks(u, Tail(q), Handled(p, u, Head(q)).decks, D)
  <1> DEFINE e == Head(q)
             r == Handled(p, u, e)
  <1>1. /\ Len(q) \in Nat /\ 1 \in 1..Len(q) /\ e = q[1] /\ e \in Events
        /\ 0 \in Nat /\ 0 + 1 = 1
    OBVIOUS
  <1>2. p.decks \in [Decks -> Nat]
    BY DEF Pages
  <1> HIDE DEF e
  <1>3. ASSUME NEW d \in Decks
        PROVE  /\ Adding(e, d) => r.decks[d] = p.decks[d] + 1
               /\ Removing(e, d) => r.decks[d] = 0
               /\ ~IsDeck(e, d) => r.decks[d] = p.decks[d]
    <2>1. CASE e.type = "addCardset"
      <3>1. r = [p EXCEPT !.decks = [p.decks EXCEPT ![e.who] = @ + 1]]
        BY <2>1, HandledDeck
      <3>2. r.decks = [p.decks EXCEPT ![e.who] = @ + 1] /\ e.who \in Decks
        BY <1>1, <2>1, <3>1, EventKinds DEF Pages
      <3> HIDE DEF r
      <3> QED
        BY <1>2, <2>1, <3>2 DEF Adding, Removing, IsDeck
    <2>2. CASE e.type = "removeCardset"
      <3>1. r = [p EXCEPT !.decks = [p.decks EXCEPT ![e.who] = 0]]
        BY <2>2, HandledDeck
      <3>2. r.decks = [p.decks EXCEPT ![e.who] = 0] /\ e.who \in Decks
        BY <1>1, <2>2, <3>1, EventKinds DEF Pages
      <3> HIDE DEF r
      <3> QED
        BY <1>2, <2>2, <3>2 DEF Adding, Removing, IsDeck
    <2>3. CASE e.type \notin {"addCardset", "removeCardset"}
      <3>1. r.decks = p.decks
        <4>1. CASE e.type = "options"
          <5> DEFINE s == UpdateGameStatus(p, u, e.info)
          <5>1. e.info \in Games
            BY <1>1, <4>1, EventKinds
          <5>2. s \in Pages /\ s.decks = p.decks
            BY <5>1, UpdateGameStatusType, StatusFields
          <5>3. r = [s EXCEPT !.panels = @ \cup e.info.spectators]
            BY <4>1, HandledOptions
          <5> HIDE DEF s, r
          <5> QED
            BY <5>2, <5>3 DEF Pages
        <4>2. CASE e.type = "info"
          BY <4>2, HandledInfo
        <4>3. CASE e.type = "state"
          BY <1>1, <4>3, HandledLobby, HandledPlaying, EventKinds DEF States
        <4>4. CASE e.type \notin {"info", "state", "options"}
          BY <1>1, <2>3, <4>4, HandledOthers
        <4> QED
          BY <4>1, <4>2, <4>3, <4>4
      <3> QED
        BY <2>3, <3>1 DEF Adding, Removing, IsDeck
    <2> QED
      BY <2>1, <2>2, <2>3
  <1> HIDE DEF r
  <1>4. ASSUME NEW d \in Decks
        PROVE  DeckRight(q, 1, d, r.decks[d], d \in D)
    <2>1. DeckRight(q, 0, d, p.decks[d], d \in D) /\ p.decks[d] \in Nat
      BY <1>2 DEF ListOfDecks
    <2>2. CASE ~IsDeck(e, d)
      <3>1. \A k \in Nat : NoDeck(q, d, 1, k) => NoDeck(q, d, 0, k)
        BY <1>1, <2>2 DEF NoDeck
      <3>2. Len(q) + 1 \in Nat /\ \A k \in 1..Len(q) : k \in Nat /\ (1 < k => 0 < k)
        BY <1>1
      <3> QED
        BY <1>3, <2>1, <2>2, <3>1, <3>2 DEF DeckRight
    <2>3. CASE Adding(e, d)
      <3>1. NoDeck(q, d, 0, 1)
        BY DEF NoDeck
      <3>2. p.decks[d] = 0
        BY <1>1, <2>1, <2>3, <3>1 DEF DeckRight
      <3>3. r.decks[d] = One(q[1].type = "addCardset")
        BY <1>1, <1>3, <2>3, <3>2 DEF One, Adding
      <3> QED
        BY <1>1, <2>3, <3>3 DEF DeckEventsOK, Adding
    <2>4. CASE Removing(e, d)
      <3>1. r.decks[d] = One(q[1].type = "addCardset")
        BY <1>1, <1>3, <2>4 DEF One, Removing
      <3> QED
        BY <1>1, <2>4, <3>1 DEF DeckEventsOK, Removing
    <2> QED
      BY <2>2, <2>3, <2>4 DEF Adding, Removing, IsDeck
  <1>5. ASSUME NEW d \in Decks
        PROVE  DeckRight(Tail(q), 0, d, r.decks[d], d \in D)
    BY <1>1, <1>4, DeckTail
  <1>6. ListOfDecks(u, Tail(q), r.decks, D)
    BY <1>5 DEF ListOfDecks
  <1> QED
    BY <1>6 DEF r, e

LEMMA HandleEventDecks ==
    ASSUME Base, NEW u \in Watched, HandleEvent(u), HeardOK(u), DecksOK(u), "overtaken" \notin slips'
    PROVE  DecksOK(u)'
  <1> DEFINE e == Head(events[u])
             p == page[u]
             q == events[u]
             r == Request(u, "GET_GAME_INFO", None, None)
  <1>1. /\ q # <<>> /\ events'[u] = Tail(q)
        /\ game' = game /\ slips \subseteq slips'
        /\ page'[u] = IF p.open THEN Handled(p, u, e) ELSE p
        /\ \A n \in Messages' : (\E m \in Messages : n = Closer(m, u)) \/ (p.open /\ n = r)
        /\ \A m \in Messages : Closer(m, u) \in Messages'
        /\ ~AnswerIsDue(u)
    BY HandleEventFacts
  <1>2. q \in Seq(Events) /\ p \in Pages /\ game.decks \in SUBSET Decks
    BY TypeFacts DEF Base, Games
  <1>3. \A m \in Messages :
            LET c == Closer(m, u)
            IN  /\ c.user = m.user /\ c.op = m.op /\ c.answered = m.answered /\ c.data = m.data
                /\ m.user = u /\ m.ahead > 0 => c.ahead = m.ahead - 1
                /\ m.ahead \in Nat
    <2>1. \A m \in Messages : RequestOK(m) /\ m.ahead \in Nat
      BY TypeFacts DEF Base
    <2> QED
      BY <2>1, CloserFacts
  <1>4. r.op = "GET_GAME_INFO"
    BY DEF Request
  <1>5. Lists(u) # {} => Lists(u)' # {}
    <2>1. ASSUME NEW m \in Lists(u)
          PROVE  Closer(m, u) \in Lists(u)'
      BY <1>1, <1>3 DEF Lists, Mine
    <2> QED
      BY <2>1
  <1>0. Len(q) \in Nat /\ Len(Tail(q)) = Len(q) - 1 /\ Len(q) > 0
    BY <1>1, <1>2
  <1> HIDE DEF r, p
  <1>6. DeckEventsOK(Tail(q), game.decks)
    <2>1. ASSUME NEW i \in 1..Len(Tail(q)), NEW d \in Decks, IsDeck(Tail(q)[i], d)
          PROVE  DeckRight(Tail(q), i, d, One(Tail(q)[i].type = "addCardset"), d \in game.decks)
      <3>1. i + 1 \in 1..Len(q) /\ Tail(q)[i] = q[i + 1] /\ i \in Nat
        BY <1>1, <1>2, <2>1
      <3>2. DeckRight(q, i + 1, d, One(q[i + 1].type = "addCardset"), d \in game.decks)
        BY <2>1, <3>1 DEF DecksOK, DeckEventsOK
      <3> QED
        BY <1>1, <1>2, <3>1, <3>2, DeckTail
    <2>2. ASSUME NEW d \in game.decks
          PROVE  TakenBack(Tail(q), d, Len(Tail(q)))
      <3>1. Len(Tail(q)) \in Nat /\ Len(Tail(q)) + 1 = Len(q)
        BY <1>0
      <3>2. TakenBack(q, d, Len(Tail(q)) + 1)
        BY <3>1 DEF DecksOK, DeckEventsOK
      <3> QED
        BY <1>1, <1>2, <3>1, <3>2, DeckTail
    <2> QED
      BY <2>1, <2>2 DEF DeckEventsOK
  <1>7. ListsOK(Lists(u)', Tail(q), game.decks)
    <2> SUFFICES ASSUME NEW n \in Lists(u)', n.answered
                 PROVE  /\ n.ahead <= Len(Tail(q))
                        /\ \A d \in Decks : DeckRight(Tail(q), n.ahead, d, One(d \in n.data.decks), d \in game.decks)
                        /\ \A d \in n.data.decks : TakenBack(Tail(q), d, n.ahead)
      BY DEF ListsOK
    <2>1. PICK m \in Messages : n = Closer(m, u)
      BY <1>1, <1>4 DEF Lists, Mine
    <2>2. m \in Lists(u) /\ m.answered /\ m.user = u /\ m.ahead \in Nat /\ n.data = m.data
      BY <1>3, <2>1 DEF Lists, Mine
    <2>3. m.ahead > 0 /\ n.ahead = m.ahead - 1
      BY <1>1, <1>3, <2>1, <2>2 DEF AnswerIsDue
    <2>4. n.ahead \in Nat /\ n.ahead + 1 = m.ahead
      BY <2>2, <2>3
    <2>5. /\ m.ahead <= Len(q)
          /\ \A d \in Decks : DeckRight(q, n.ahead + 1, d, One(d \in m.data.decks), d \in game.decks)
          /\ \A d \in m.data.decks : TakenBack(q, d, n.ahead + 1)
      BY <2>2, <2>4 DEF DecksOK, ListsOK
    <2>6. n.ahead <= Len(Tail(q))
      BY <1>0, <2>4, <2>5
    <2>7. ASSUME NEW d \in Decks
          PROVE  DeckRight(Tail(q), n.ahead, d, One(d \in m.data.decks), d \in game.decks)
      BY <1>1, <1>2, <2>4, <2>5, DeckTail
    <2>8. ASSUME NEW d \in m.data.decks
          PROVE  TakenBack(Tail(q), d, n.ahead)
      BY <1>1, <1>2, <2>4, <2>5, DeckTail
    <2> QED
      BY <2>2, <2>6, <2>7, <2>8
  <1>8. ASSUME page'[u].open, "early" \notin slips', Lists(u)' = {}
        PROVE  ListOfDecks(u, Tail(q), page'[u].decks, game.decks)
    <2>1. p.open
      BY <1>1, <1>8
    <2>2. ListOfDecks(u, q, p.decks, game.decks) /\ DeckEventsOK(q, game.decks)
      BY <1>1, <1>5, <1>8, <2>1 DEF DecksOK, p
    <2>3. page'[u] = Handled(p, u, e)
      BY <1>1, <2>1
    <2> QED
      BY <1>1, <1>2, <2>2, <2>3, HandledDecks
  <1> QED
    BY <1>1, <1>6, <1>7, <1>8 DEF DecksOK

LEMMA DeckInit == Init => DeckInv
  <1> SUFFICES ASSUME Init, NEW u \in Watched
               PROVE  DecksOK(u)
    BY DEF DeckInv
  <1>1. events[u] = <<>> /\ page[u] = Closed /\ inFlight = EmptyBag
    BY DEF Init
  <1>2. Messages = {}
    BY <1>1, NoneIsABag DEF Messages
  <1>3. Lists(u) = {}
    BY <1>2 DEF Lists, Mine
  <1>4. ~Closed.open
    BY NewPageType DEF Closed, NewPage
  <1> QED
    BY <1>1, <1>3, <1>4 DEF DecksOK, DeckEventsOK, ListsOK, TakenBack

LEMMA DeckStep ==
    ASSUME Base, HeardInv, DeckInv, [Next]_vars
    PROVE  DeckInv'
  <1> SUFFICES ASSUME InOrder(slips)', NEW u \in Watched, u \in Members(game')
               PROVE  DecksOK(u)'
    BY DEF DeckInv
  <1>0. InOrder(slips')
    OBVIOUS
  <1>1. ASSUME game' = game, slips \subseteq slips'
        PROVE  /\ HeardOK(u) /\ DecksOK(u) /\ "overtaken" \notin slips' /\ u \in Members(game)
               /\ Aside(u) => DecksOK(u)'
    <2>1. HeardOK(u) /\ DecksOK(u) /\ "overtaken" \notin slips' /\ u \in Members(game)
      BY <1>0, <1>1, SlipsInOrder DEF HeardInv, DeckInv
    <2>2. ASSUME Aside(u)
          PROVE  DecksOK(u)'
      <3>1. Lists(u)' = Lists(u)
        BY <2>2, MineSame DEF Aside
      <3>2. events'[u] = events[u] /\ page'[u] = page[u]
        BY <2>2 DEF Aside
      <3> QED
        BY <1>1, <2>1, <3>1, <3>2, SameDecks
    <2> QED
      BY <2>1, <2>2
  <1>2. CASE \E t : ServerStep(t)
    BY <1>0, <1>2, ServerDecks
  <1>3. ASSUME NEW v \in Watched, Enter(v)
        PROVE  DecksOK(u)'
    <2>1. game' = game /\ slips' = slips /\ (u # v => Aside(u))
      BY <1>3, EnterFacts
    <2> QED
      BY <1>1, <1>3, <2>1, EnterDecks
  <1>4. ASSUME NEW v \in Watched, Exit(v)
        PROVE  DecksOK(u)'
    <2>1. game' = game /\ slips' = slips /\ (u # v => Aside(u)) /\ v \notin Members(game)
      BY <1>4, ExitFacts
    <2> QED
      BY <1>1, <2>1
  <1>5. ASSUME NEW v \in Watched, Reload(v)
        PROVE  DecksOK(u)'
    <2>1. game' = game /\ slips' = slips /\ (u # v => Aside(u))
      BY <1>5, ReloadFacts
    <2> QED
      BY <1>1, <1>5, <2>1, ReloadDecks
  <1>6. ASSUME NEW v \in Watched, HandleEvent(v)
        PROVE  DecksOK(u)'
    <2>1. game' = game /\ slips \subseteq slips' /\ (u # v => Aside(u))
      BY <1>6, HandleEventFacts
    <2> QED
      BY <1>1, <1>6, <2>1, HandleEventDecks
  <1>7. ASSUME NEW v \in Watched, ShowOptionsClick(v)
        PROVE  DecksOK(u)'
    <2>1. /\ game' = game /\ slips \subseteq slips' /\ events' = events /\ inFlight' = inFlight
          /\ u # v => Aside(u)
          /\ page'[v] = ShowOptions(page[v], v) \/ page'[v] = HideOptions(page[v])
          /\ page[v].open
      BY <1>7, ShowOptionsClickFacts
    <2>2. page[v] \in Pages
      BY TypeFacts DEF Base
    <2>3. page'[v].decks = page[v].decks
      <3> DEFINE c == page[v].host = v /\ page[v].state = "LOBBY"
      <3>1. ShowOptions(page[v], v) = [page[v] EXCEPT !.shown = TRUE, !.enabled = c]
        BY DEF ShowOptions
      <3> HIDE DEF c
      <3> QED
        BY <2>1, <2>2, <3>1 DEF HideOptions, Pages
    <2>4. Lists(v)' = Lists(v)
      BY <2>1 DEF Lists, Mine, Messages
    <2> QED
      BY <1>1, <2>1, <2>3, <2>4, SameDecks
  <1>8. ASSUME NEW v \in Watched, NEW f \in Fields, NEW x \in Values, OptionChanged(v, f, x)
        PROVE  DecksOK(u)'
    <2> DEFINE form == [page[v].form EXCEPT ![f] = x]
               r == Request(v, "CHANGE_GAME_OPTIONS", form, f)
    <2>1. /\ game' = game /\ slips \subseteq slips' /\ events' = events
          /\ u # v => Aside(u)
          /\ page[v].open /\ page'[v] = [page[v] EXCEPT !.form = form]
          /\ Messages' = Messages \cup {r} /\ r.op = "CHANGE_GAME_OPTIONS"
      BY <1>8, OptionChangedFacts
    <2>2. page[v] \in Pages
      BY TypeFacts DEF Base
    <2> HIDE DEF form, r
    <2>3. page'[v].decks = page[v].decks
      BY <2>1, <2>2 DEF Pages
    <2>4. Lists(v)' = Lists(v)
      BY <2>1 DEF Lists, Mine
    <2> QED
      BY <1>1, <2>1, <2>3, <2>4, SameDecks
  <1>9. ASSUME NEW m \in Messages, Serve(m), m.op = "CHANGE_GAME_OPTIONS"
        PROVE  DecksOK(u)'
    <2>1. /\ game' = game /\ slips' = slips /\ events' = events /\ page' = page
          /\ Messages' \subseteq Messages /\ \A n \in Messages : n # m => n \in Messages'
      BY <1>9, ServeChangeFacts
    <2>2. Lists(u)' = Lists(u)
      BY <1>9, <2>1 DEF Lists, Mine
    <2> QED
      BY <1>1, <2>1, <2>2, SameDecks
  <1>10. ASSUME NEW m \in Messages, Serve(m), m.op # "CHANGE_GAME_OPTIONS"
         PROVE  DecksOK(u)'
    <2>1. game' = game /\ slips \subseteq slips' /\ (u # m.user => Aside(u))
      BY <1>10, ServeReadFacts
    <2> QED
      BY <1>1, <1>10, <2>1, ServeReadDecks
  <1>11. ASSUME NEW m \in Messages, Learn(m)
         PROVE  DecksOK(u)'
    <2>1. game' = game /\ slips \subseteq slips' /\ (u # m.user => Aside(u))
      BY <1>11, LearnFacts
    <2> QED
      BY <1>1, <1>11, <2>1, LearnDecks
  <1>12. CASE UNCHANGED vars
    <2>1. game' = game /\ slips' = slips /\ Aside(u)
      BY <1>12 DEF vars, Aside, Mine, Messages
    <2> QED
      BY <1>1, <2>1
  <1> QED
    BY <1>2, <1>3, <1>4, <1>5, <1>6, <1>7, <1>8, <1>9, <1>10, <1>11, <1>12, Steps

\* The form: a page at rest shows the options that the server will play by and each custom
\* deck of the game once and no other, whoever has edited what in between (updateGameStatus,
\* optionChanged_, updateCustomDecks and customDeckAdded against updateGameSettings,
\* AddCardsetHandler and RemoveCardsetHandler).
THEOREM FormOfTheServer == Spec => []FormAgrees
  <1>1. Init => Base /\ HeardInv /\ DeckInv
    BY BaseInit, HeardInit, DeckInit
  <1>2. Base /\ HeardInv /\ DeckInv /\ [Next]_vars => (Base /\ HeardInv /\ DeckInv)'
    BY BaseStep, HeardStep, DeckStep
  <1>3. Base /\ HeardInv /\ DeckInv => FormAgrees
    <2> SUFFICES ASSUME Base, HeardInv, DeckInv,
                        slips \cap {"early", "overtaken", "soonBack", "shownInGame"} = {},
                        NEW u \in Watched, Quiet(u)
                 PROVE  /\ page[u].form = game.options
                        /\ \A d \in Decks : page[u].decks[d] = IF d \in game.decks THEN 1 ELSE 0
      BY DEF FormAgrees
    <2>1. InOrder(slips) /\ "early" \notin slips /\ "shownInGame" \notin slips
      BY DEF InOrder
    <2>2. /\ u \in Members(game) /\ page[u].open /\ PageOK(u)
          /\ Infos(u) = {} /\ Lists(u) = {} /\ Changes(u) = {} /\ halfway = {} /\ ToCome(u) = {}
      BY <2>1, AtRest
    <2>3. FormOK(u, page[u], game, slips, {}, {}, {}, {})
      BY <2>2 DEF PageOK
    <2>4. page[u].form = game.options
      BY <2>1, <2>3, NothingToCome DEF FormOK, Renewed, OwnChange
    <2>5. ListOfDecks(u, <<>>, page[u].decks, game.decks)
      BY <2>1, <2>2 DEF DeckInv, DecksOK, Quiet
    <2>6. ASSUME NEW d \in Decks
          PROVE  page[u].decks[d] = IF d \in game.decks THEN 1 ELSE 0
      <3>1. NoDeck(<<>>, d, 0, Len(<<>>) + 1)
        BY DEF NoDeck
      <3> QED
        BY <2>5, <3>1 DEF ListOfDecks, DeckRight, One
    <2> QED
      BY <2>4, <2>6
  <1> QED
    BY <1>1, <1>2, <1>3, PTL DEF Spec

-----------------------------------------------------------------------------
(* Changes of the options, sent and half done: there is one at a time, and *)
(* it agrees with the options but for what its user has edited.            *)

Neat(s) == s \cap {"overtaken", "soonBack", "shownInGame", "hasty"} = {}

Edits == {m \in Messages : m.op = "CHANGE_GAME_OPTIONS"}

HalfDone == {h \in halfway : h.task = "change"}

\* The form x changes nothing but its field.
Agrees(x, g) == \A f \in Fields \ {x.field} : x.form[f] = g.options[f]

OneEdit ==
    /\ Edits = {} \/ HalfDone = {}
    /\ \A m, n \in Edits : m = n
    /\ \A m \in Edits : inFlight[m] = 1 /\ (m.user \in Members(game) => Agrees(m, game))
    /\ \A h, i \in HalfDone : h = i
    /\ \A h \in HalfDone : Agrees(h, game)

EditInv == Neat(slips) => OneEdit

LEMMA NeatFacts ==
    ASSUME slips \subseteq slips', Neat(slips')
    PROVE  /\ Neat(slips) /\ InOrder(slips)
           /\ "soonBack" \notin slips' /\ "hasty" \notin slips' /\ "shownInGame" \notin slips
  BY DEF Neat, InOrder

LEMMA EditsAside ==
    ASSUME OneEdit, game'.options = game.options, Edits' = Edits, HalfDone' = HalfDone,
           \A m \in Edits : inFlight'[m] = inFlight[m],
           \A m \in Edits : m.user \in Members(game') => m.user \in Members(game)
    PROVE  OneEdit'
  BY DEF OneEdit, Agrees

\* A step of the server that has nothing to do with options.
Plain == (\E t : ServerStep(t)) /\ game'.options = game.options /\ HalfDone' = HalfDone

LEMMA PlainSteps ==
    ASSUME Base
    PROVE  /\ \A u \in Users : JoinGame(u) \/ SpectateGame(u) \/ LeaveSpectator(u) \/ LeaveGame(u) \/ ChangeHost(u) => Plain
           /\ \A d \in Decks : AddCardset(d) \/ RemoveCardset(d) => Plain
           /\ Start \/ NextRound \/ Stop => Plain
           /\ \A h \in halfway : FinishLeaving(h) => Plain
  <1>1. halfway' = halfway => HalfDone' = HalfDone
    BY DEF HalfDone
  <1>2. ASSUME NEW u \in Users, JoinGame(u)
        PROVE  Plain
    BY <1>1, <1>2, JoinFacts, JoinServer DEF Plain, SameBut
  <1>3. ASSUME NEW u \in Users, SpectateGame(u)
        PROVE  Plain
    BY <1>1, <1>3, SpectateFacts, SpectateServer DEF Plain, SameBut
  <1>4. ASSUME NEW u \in Users, LeaveSpectator(u)
        PROVE  Plain
    BY <1>1, <1>4, LeaveSpectatorFacts, LeaveSpectatorServer DEF Plain, SameBut
  <1>5. ASSUME NEW u \in Users, LeaveGame(u)
        PROVE  Plain
    <2>1. SameBut(game, game', {"players"}) /\ halfway' = halfway \cup {[task |-> "leave", user |-> u]}
      BY <1>5, LeaveFacts
    <2>2. HalfDone' = HalfDone
      BY <2>1 DEF HalfDone
    <2> QED
      BY <1>5, <2>1, <2>2, LeaveServer DEF Plain, SameBut
  <1>6. ASSUME NEW u \in Users, ChangeHost(u)
        PROVE  Plain
    BY <1>1, <1>6, ChangeHostFacts, ChangeHostServer DEF Plain, SameBut
  <1>7. ASSUME NEW d \in Decks, AddCardset(d) \/ RemoveCardset(d)
        PROVE  Plain
    BY <1>1, <1>7, AddCardsetFacts, RemoveCardsetFacts, DeckServer DEF Plain, SameBut
  <1>8. CASE Start
    BY <1>1, <1>8, StartFacts, StartServer DEF Plain, SameBut
  <1>9. CASE NextRound
    BY <1>1, <1>9, NextRoundFacts, NextRoundServer DEF Plain
  <1>10. CASE Stop
    BY <1>1, <1>10, StopFacts, StopServer DEF Plain, SameBut
  <1>11. ASSUME NEW h \in halfway, FinishLeaving(h)
         PROVE  Plain
    <2>1. /\ h.task = "leave" /\ halfway' = halfway \ {h}
          /\ game'.options = game.options
      BY <1>11, FinishLeavingFacts DEF SameBut
    <2>2. HalfDone' = HalfDone
      BY <2>1 DEF HalfDone
    <2> QED
      BY <1>11, <2>1, <2>2, FinishLeavingServer DEF Plain
  <1>12. \A u \in Users : JoinGame(u) \/ SpectateGame(u) \/ LeaveSpectator(u) \/ LeaveGame(u) \/ ChangeHost(u) => Plain
    BY <1>2, <1>3, <1>4, <1>5, <1>6
  <1>13. Start \/ NextRound \/ Stop => Plain
    BY <1>8, <1>9, <1>10
  <1> QED
    BY <1>7, <1>11, <1>12, <1>13

LEMMA PlainEdits ==
    ASSUME Base, OneEdit, Plain, Neat(slips')
    PROVE  OneEdit'
  <1>1. PICK t : ServerStep(t)
    BY DEF Plain
  <1>2. /\ inFlight' = inFlight /\ slips \subseteq slips'
        /\ \A u \in Watched : u \in Members(game') /\ u \notin Members(game) => Newcomer(u)
    BY <1>1 DEF ServerStep
  <1>3. Edits' = Edits
    BY <1>2 DEF Edits, Messages
  <1>4. ASSUME NEW m \in Edits, m.user \in Members(game')
        PROVE  m.user \in Members(game)
    <2>1. m \in Mine(m.user) /\ m.user \in Watched
      BY TypeFacts DEF Base, Edits, Mine
    <2>2. "soonBack" \notin slips'
      BY <1>2, NeatFacts
    <2> QED
      BY <1>2, <1>4, <2>1, <2>2 DEF Newcomer
  <1> QED
    BY <1>2, <1>3, <1>4, EditsAside DEF Plain

\* The only change that is half done is made: it changes what its user has edited.
LEMMA FinishChangeEdits ==
    ASSUME Base, OneEdit, NEW h \in halfway, FinishChange(h)
    PROVE  /\ OneEdit'
           /\ \A i \in halfway \ halfway' : i = h
           /\ \A f \in Fields \ {h.field} : game'.options[f] = game.options[f]
  <1>1. /\ h.task = "change" /\ halfway' = halfway \ {h} /\ inFlight' = inFlight
        /\ game'.options = h.form
    BY FinishChangeFacts
  <1>2. h \in HalfDone
    BY <1>1 DEF HalfDone
  <1>3. Edits = {} /\ Agrees(h, game) /\ HalfDone = {h}
    BY <1>2 DEF OneEdit
  <1>4. Edits' = {} /\ HalfDone' = {}
    BY <1>1, <1>3 DEF Edits, HalfDone, Messages
  <1>5. OneEdit'
    BY <1>4 DEF OneEdit
  <1> QED
    BY <1>1, <1>3, <1>5 DEF Agrees

LEMMA OthersChangeEdits ==
    ASSUME Base, NEW u \in Users \ Watched, NEW f \in Fields, NEW v \in Values, OthersChange(u, f, v),
           "hasty" \notin slips'
    PROVE  OneEdit' /\ halfway' = halfway
  <1>1. halfway' = halfway /\ inFlight' = inFlight /\ Slip(If("hasty", ChangeUnderWay))
    BY OthersChangeFacts
  <1>2. ~ChangeUnderWay
    BY <1>1 DEF Slip, If
  <1>3. Edits' = {} /\ HalfDone' = {}
    BY <1>1, <1>2 DEF Edits, HalfDone, Messages, ChangeUnderWay
  <1> QED
    BY <1>1, <1>3 DEF OneEdit

\* The change that is sent is served.
LEMMA ServeChangeEdits ==
    ASSUME Base, OneEdit, NEW m \in Messages, Serve(m), m.op = "CHANGE_GAME_OPTIONS"
    PROVE  OneEdit' /\ halfway \subseteq halfway'
  <1> DEFINE h == [task |-> "change", user |-> m.user, form |-> m.form, field |-> m.field]
  <1>1. /\ game' = game
        /\ Messages' \subseteq Messages
        /\ inFlight[m] = 1 => m \notin Messages'
        /\ halfway' = IF m.user \in Members(game) /\ IsHost(game, m.user) THEN halfway \cup {h} ELSE halfway
    BY ServeChangeFacts
  <1>2. h.task = "change" /\ h.form = m.form /\ h.field = m.field
    OBVIOUS
  <1> HIDE DEF h
  <1>3. m \in Edits
    BY DEF Edits
  <1>4. inFlight[m] = 1 /\ HalfDone = {} /\ (m.user \in Members(game) => Agrees(m, game)) /\ \A n \in Edits : n = m
    BY <1>3 DEF OneEdit
  <1>5. Edits' = {}
    BY <1>1, <1>4 DEF Edits
  <1>6. \A i \in HalfDone' : i = h /\ m.user \in Members(game)
    BY <1>1, <1>4 DEF HalfDone
  <1>7. m.user \in Members(game) => Agrees(h, game)
    BY <1>2, <1>4 DEF Agrees
  <1> QED
    BY <1>1, <1>5, <1>6, <1>7 DEF OneEdit

\* Its user edits the form of a page that has caught up: it shows the options as they are.
LEMMA OptionChangedEdits ==
    ASSUME Base, HeardInv, NEW u \in Watched, NEW f \in Fields, NEW v \in Values, OptionChanged(u, f, v),
           Neat(slips')
    PROVE  OneEdit' /\ halfway' = halfway
  <1> DEFINE form == [page[u].form EXCEPT ![f] = v]
             r == Request(u, "CHANGE_GAME_OPTIONS", form, f)
  <1>1. /\ page[u].open /\ slips \subseteq slips'
        /\ game' = game /\ halfway' = halfway
    BY OptionChangedFacts
  <1>12. page'[u] = [page[u] EXCEPT !.form = form] /\ Messages' = Messages \cup {r}
    BY OptionChangedFacts
  <1>11. r \notin Messages => inFlight'[r] = 1
    BY OptionChangedFacts
  <1>0. r.user = u /\ r.op = "CHANGE_GAME_OPTIONS" /\ r.form = form /\ r.field = f
    BY DEF Request
  <1>10. Behind(u) => "hasty" \in slips'
    BY OptionChangedFacts
  <1>2. Neat(slips) /\ InOrder(slips) /\ "hasty" \notin slips' /\ "shownInGame" \notin slips
    BY <1>1, NeatFacts
  <1>3. page[u].form \in Forms /\ events[u] \in Seq(Events)
    BY TypeFacts DEF Base, Pages
  <1>4. \A g \in Fields \ {f} : form[g] = page[u].form[g]
    BY <1>3 DEF Forms
  <1> HIDE DEF form, r
  <1>5. ~Behind(u)
    BY <1>2, <1>10
  <1>6. Edits = {} /\ HalfDone = {}
    BY <1>5 DEF Behind, ChangeUnderWay, Edits, HalfDone
  <1>7. ASSUME u \in Members(game)
        PROVE  Agrees(r, game)
    <2>1. FormOK(u, page[u], game, slips, ToCome(u), Infos(u), Changes(u), halfway)
      BY <1>1, <1>2, <1>7 DEF HeardInv, HeardOK, PageOK
    <2>2. Infos(u) = {} /\ Changes(u) = {}
      BY <1>5, <1>6 DEF Behind, Infos, Changes, Mine, Edits
    <2>3. \A e \in ToCome(u) : e.type \notin {"options", "state"}
      BY <1>3, <1>5 DEF Behind, ToCome, After
    <2>4. ~Renewed(ToCome(u), Infos(u))
      BY <2>2, <2>3 DEF Renewed, WithOptions, StateComes
    <2>5. ~OwnChange(u, game, Changes(u), halfway)
      BY <1>6, <2>2 DEF OwnChange, HalfDone
    <2>6. page[u].form = game.options
      BY <1>2, <2>1, <2>4, <2>5 DEF FormOK
    <2> QED
      BY <1>0, <1>4, <2>6 DEF Agrees
  <1>8. Edits' = {r} /\ r \notin Messages /\ HalfDone' = {}
    BY <1>0, <1>1, <1>6, <1>12 DEF Edits, HalfDone
  <1>9. inFlight'[r] = 1
    BY <1>8, <1>11
  <1> QED
    BY <1>0, <1>1, <1>7, <1>8, <1>9 DEF OneEdit

\* The rest of what pages do, and of what is served to them, concerns no change.
LEMMA PageEdits ==
    ASSUME Base, OneEdit,
           \/ \E u \in Watched : Enter(u) \/ Exit(u) \/ Reload(u) \/ HandleEvent(u) \/ ShowOptionsClick(u)
           \/ \E m \in Messages : Learn(m) \/ (Serve(m) /\ m.op # "CHANGE_GAME_OPTIONS")
    PROVE  OneEdit' /\ halfway' = halfway
  <1> SUFFICES /\ game' = game /\ halfway' = halfway
               /\ \A m \in Edits : m \in Messages' /\ inFlight'[m] = inFlight[m]
               /\ \A m \in Messages' : m.op = "CHANGE_GAME_OPTIONS" => m \in Messages
    <2>1. ASSUME game' = game, halfway' = halfway,
                 \A m \in Edits : m \in Messages' /\ inFlight'[m] = inFlight[m],
                 \A m \in Messages' : m.op = "CHANGE_GAME_OPTIONS" => m \in Messages
          PROVE  OneEdit'
      <3>1. Edits' = Edits
        BY <2>1 DEF Edits
      <3>2. HalfDone' = HalfDone
        BY <2>1 DEF HalfDone
      <3> QED
        BY <2>1, <3>1, <3>2, EditsAside
    <2> QED
      BY <2>1
  <1>1. ASSUME NEW u \in Watched, Enter(u)
        PROVE  /\ game' = game /\ halfway' = halfway
               /\ \A m \in Edits : m \in Messages' /\ inFlight'[m] = inFlight[m]
               /\ \A m \in Messages' : m.op = "CHANGE_GAME_OPTIONS" => m \in Messages
    BY <1>1, EnterFacts DEF Edits
  <1>2. ASSUME NEW u \in Watched, Exit(u)
        PROVE  game' = game /\ halfway' = halfway /\ inFlight' = inFlight
    BY <1>2, ExitFacts
  <1>3. ASSUME NEW u \in Watched, Reload(u)
        PROVE  /\ game' = game /\ halfway' = halfway
               /\ \A m \in Edits : m \in Messages' /\ inFlight'[m] = inFlight[m]
               /\ \A m \in Messages' : m.op = "CHANGE_GAME_OPTIONS" => m \in Messages
    BY <1>3, ReloadFacts DEF Edits
  <1>4. ASSUME NEW u \in Watched, HandleEvent(u)
        PROVE  /\ game' = game /\ halfway' = halfway
               /\ \A m \in Edits : m \in Messages' /\ inFlight'[m] = inFlight[m]
               /\ \A m \in Messages' : m.op = "CHANGE_GAME_OPTIONS" => m \in Messages
    <2>1. /\ game' = game /\ halfway' = halfway
          /\ \A n \in Messages' :
                (\E m \in Messages : n = Closer(m, u)) \/ n = Request(u, "GET_GAME_INFO", None, None)
          /\ \A m \in Messages : m.op = "CHANGE_GAME_OPTIONS" => m \in Messages' /\ inFlight'[m] = inFlight[m]
      BY <1>4, HandleEventFacts
    <2>2. \A m \in Messages : Closer(m, u).op = m.op /\ (m.op = "CHANGE_GAME_OPTIONS" => Closer(m, u) = m)
      <3>1. \A m \in Messages : RequestOK(m) /\ (m.op = "CHANGE_GAME_OPTIONS" => m.ahead = 0)
        BY TypeFacts DEF Base
      <3> QED
        BY <3>1, CloserFacts
    <2>3. Request(u, "GET_GAME_INFO", None, None).op = "GET_GAME_INFO"
      BY DEF Request
    <2> QED
      BY <2>1, <2>2, <2>3 DEF Edits
  <1>5. ASSUME NEW u \in Watched, ShowOptionsClick(u)
        PROVE  game' = game /\ halfway' = halfway /\ inFlight' = inFlight
    BY <1>5, ShowOptionsClickFacts
  <1>6. ASSUME NEW m \in Messages, Learn(m)
        PROVE  /\ game' = game /\ halfway' = halfway
               /\ \A n \in Edits : n \in Messages' /\ inFlight'[n] = inFlight[n]
               /\ \A n \in Messages' : n.op = "CHANGE_GAME_OPTIONS" => n \in Messages
    <2>1. m.op # "CHANGE_GAME_OPTIONS"
      BY <1>6, LearnFacts, TypeFacts DEF Base
    <2> QED
      BY <1>6, <2>1, LearnFacts DEF Edits
  <1>7. ASSUME NEW m \in Messages, Serve(m), m.op # "CHANGE_GAME_OPTIONS"
        PROVE  /\ game' = game /\ halfway' = halfway
               /\ \A n \in Edits : n \in Messages' /\ inFlight'[n] = inFlight[n]
               /\ \A n \in Messages' : n.op = "CHANGE_GAME_OPTIONS" => n \in Messages
    BY <1>7, ServeReadFacts DEF Edits
  <1>8. inFlight' = inFlight => Messages' = Messages
    BY DEF Messages
  <1> QED
    BY <1>1, <1>2, <1>3, <1>4, <1>5, <1>6, <1>7, <1>8 DEF Edits

\* What may become of a change in one step.
OnlyTheEdit ==
    \A h \in halfway \ halfway' :
        h.task = "change" => \A f \in Fields \ {h.field} : game'.options[f] = game.options[f]

LEMMA EditStep ==
    ASSUME Base, HeardInv, EditInv, [Next]_vars, Neat(slips')
    PROVE  OneEdit' /\ OnlyTheEdit
  <1>1. slips \subseteq slips' => OneEdit
    BY NeatFacts DEF EditInv
  <1>2. CASE Plain
    <2>1. slips \subseteq slips' /\ \A h \in halfway \ halfway' : h.task # "change"
      BY <1>2 DEF Plain, ServerStep, HalfDone
    <2> QED
      BY <1>1, <1>2, <2>1, PlainEdits DEF OnlyTheEdit
  <1>3. ASSUME NEW h \in halfway, FinishChange(h)
        PROVE  OneEdit' /\ OnlyTheEdit
    <2>1. slips \subseteq slips'
      BY <1>3 DEF FinishChange, Slip
    <2> QED
      BY <1>1, <1>3, <2>1, FinishChangeEdits DEF OnlyTheEdit
  <1>4. ASSUME NEW u \in Users \ Watched, NEW f \in Fields, NEW v \in Values, OthersChange(u, f, v)
        PROVE  OneEdit' /\ OnlyTheEdit
    BY <1>4, OthersChangeEdits DEF OnlyTheEdit, Neat
  <1>5. ASSUME NEW u \in Watched, NEW f \in Fields, NEW v \in Values, OptionChanged(u, f, v)
        PROVE  OneEdit' /\ OnlyTheEdit
    BY <1>5, OptionChangedEdits DEF OnlyTheEdit
  <1>6. ASSUME NEW m \in Messages, Serve(m), m.op = "CHANGE_GAME_OPTIONS"
        PROVE  OneEdit' /\ OnlyTheEdit
    <2>1. slips' = slips
      BY <1>6, ServeChangeFacts
    <2> QED
      BY <1>1, <1>6, <2>1, ServeChangeEdits DEF OnlyTheEdit
  <1>7. CASE \/ \E u \in Watched : Enter(u) \/ Exit(u) \/ Reload(u) \/ HandleEvent(u) \/ ShowOptionsClick(u)
             \/ \E m \in Messages : Learn(m) \/ (Serve(m) /\ m.op # "CHANGE_GAME_OPTIONS")
    <2>1. slips \subseteq slips'
      BY <1>7, EnterFacts, ExitFacts, ReloadFacts, HandleEventFacts, ShowOptionsClickFacts, LearnFacts, ServeReadFacts
    <2> QED
      BY <1>1, <1>7, <2>1, PageEdits DEF OnlyTheEdit
  <1>8. CASE UNCHANGED vars
    <2>1. slips' = slips /\ game' = game /\ halfway' = halfway /\ inFlight' = inFlight
      BY <1>8 DEF vars
    <2>2. Edits' = Edits /\ HalfDone' = HalfDone
      BY <2>1 DEF Edits, HalfDone, Messages
    <2> QED
      BY <1>1, <2>1, <2>2, EditsAside DEF OnlyTheEdit
  <1> QED
    BY <1>2, <1>3, <1>4, <1>5, <1>6, <1>7, <1>8, PlainSteps DEF Next

\* Edits: for any users and any options, a change that its user sends, and that the server takes
\* whole, changes no other option than the one edited: the form of a page that has caught up is
\* the server's when it is sent, and what comes in between leaves it so (optionChanged_ and
\* ChangeGameOptionHandler against GameOptions.update and updateGameSettings).
THEOREM EditsAlone == Spec => OnlyWhatWasEdited
  <1>1. Init => Base /\ HeardInv /\ EditInv
    <2>1. ASSUME Init
          PROVE  OneEdit
      <3>1. inFlight = EmptyBag /\ halfway = {}
        BY <2>1 DEF Init
      <3>2. Edits = {} /\ HalfDone = {}
        BY <3>1, NoneIsABag DEF Edits, HalfDone, Messages
      <3> QED
        BY <3>2 DEF OneEdit
    <2> QED
      BY <2>1, BaseInit, HeardInit DEF EditInv
  <1>2. Base /\ HeardInv /\ EditInv /\ [Next]_vars => (Base /\ HeardInv /\ EditInv)'
    <2>1. ASSUME Base, HeardInv, EditInv, [Next]_vars, Neat(slips)'
          PROVE  OneEdit'
      BY <2>1, EditStep
    <2> QED
      BY <2>1, BaseStep, HeardStep DEF EditInv
  <1>3. Base /\ HeardInv /\ EditInv /\ [Next]_vars =>
            [slips' \cap {"overtaken", "soonBack", "shownInGame", "hasty"} = {} =>
               \A h \in halfway \ halfway' :
                  h.task = "change" => \A f \in Fields \ {h.field} : game'.options[f] = game.options[f]]_vars
    BY EditStep DEF OnlyTheEdit, Neat
  <1> QED
    BY <1>1, <1>2, <1>3, PTL DEF Spec, OnlyWhatWasEdited
=============================================================================
