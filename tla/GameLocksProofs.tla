-------------------------- MODULE GameLocksProofs --------------------------
(***************************************************************************)
(* The monitors of GameLocks are taken in orders that agree, but for three *)
(* pairs, whatever number of requests meet.                                *)
(*                                                                         *)
(* A method is a tree of branches, and what is left of it is a sequence    *)
(* that a run has anywhere in the tree.  To speak of all of it without     *)
(* recursion, Follows says that there is some set of pairs (monitors that  *)
(* are held, what is left to do) that has the pair in question and that no *)
(* step leaves, in which a monitor is only taken in an order that is       *)
(* admitted.  Methods are then taken apart by the operators they are made  *)
(* of.                                                                     *)
(***************************************************************************)
EXTENDS GameLocks, SequenceTheorems, TLAPS

Monitors ==
    {"players", "roundPlayers", "spectators", "playedCards", "blackCardLock", "judgeLock",
     "roundTimerLock", "cardSetIds"}

Tasks == {"none", "warnPlay", "skipPlay", "warnJudge", "skipJudge", "nextRound", "win"}

\* What is taken while the first is held, by requests and by the timer's thread.
AllOrder ==
    ({"judgeLock"} \X {"blackCardLock", "playedCards", "players", "roundPlayers",
                       "roundTimerLock", "spectators"})
    \cup ({"roundPlayers"} \X {"playedCards", "players", "spectators"})
    \cup ({"players"} \X {"roundPlayers", "spectators"})
    \cup ({"blackCardLock"} \X {"players", "spectators"})

RequestOrder ==
    AllOrder \cup {<<"blackCardLock", "playedCards">>, <<"cardSetIds", "players">>}

PoolOrder ==
    AllOrder
    \cup ({"playedCards"} \X {"blackCardLock", "players", "roundPlayers", "roundTimerLock",
                              "spectators"})
    \cup ({"roundTimerLock"} \X {"playedCards", "players", "roundPlayers"})

Order(t) == IF t = Pool THEN PoolOrder ELSE RequestOrder

\* l may be taken by a thread that holds h.
MayTake(O, h, l) == l \in Monitors /\ \A i \in 1..Len(h) : h[i] = l \/ <<h[i], l>> \in O

MayTakeAll(O, h, L) == \A l \in L : MayTake(O, h, l)

\* What can be done from h and s, and what it leads to is in S; at the end, e is held.
GoesOnIn(O, V, S, e, h, s) ==
    /\ s = <<>> => h = e
    /\ s # <<>> =>
        /\ Head(s).do \in {"enter", "exit", "touch", "become", "pend", "when", "either"}
        /\ Head(s).do = "enter" =>
              MayTake(O, h, Head(s).lock) /\ <<Append(h, Head(s).lock), Tail(s)>> \in S
        /\ Head(s).do = "exit" => h # <<>> /\ <<Front(h), Tail(s)>> \in S
        /\ Head(s).do = "touch" => MayTake(O, h, Head(s).lock) /\ <<h, Tail(s)>> \in S
        /\ Head(s).do = "become" => <<h, Tail(s)>> \in S
        /\ Head(s).do = "pend" => Head(s).task \in Tasks /\ <<h, Tail(s)>> \in S
        /\ Head(s).do = "when" =>
              /\ Head(s).yes \in Seq(V) /\ <<h, Head(s).yes \o Tail(s)>> \in S
              /\ Head(s).no \in Seq(V) /\ <<h, Head(s).no \o Tail(s)>> \in S
        /\ Head(s).do = "either" =>
              /\ Head(s).one \in Seq(V) /\ <<h, Head(s).one \o Tail(s)>> \in S
              /\ Head(s).other \in Seq(V) /\ <<h, Head(s).other \o Tail(s)>> \in S

Closed(O, V, S, e) ==
    /\ S \subseteq Seq(Monitors) \X Seq(V)
    /\ \A h \in Seq(Monitors), s \in Seq(V) : <<h, s>> \in S => GoesOnIn(O, V, S, e, h, s)

\* Whoever holds h and does s takes monitors in orders of O, and holds e at the end.
Follows(O, h, s, e) == \E V, S : Closed(O, V, S, e) /\ <<h, s>> \in S

-----------------------------------------------------------------------------
(* How methods are made.                                                   *)

\* One does nothing.
LEMMA NothingFollows ==
    ASSUME NEW O, NEW h \in Seq(Monitors) PROVE Follows(O, h, <<>>, h)
<1> DEFINE S == {<<h, <<>>>>}
<1>1. <<>> \in Seq({}) OBVIOUS
<1>2. S \subseteq Seq(Monitors) \X Seq({})
  <2>1. <<h, <<>>>> \in Seq(Monitors) \X Seq({}) BY <1>1
  <2> QED BY <2>1
<1>3. ASSUME NEW g \in Seq(Monitors), NEW s \in Seq({}), <<g, s>> \in S
      PROVE  GoesOnIn(O, {}, S, h, g, s)
  BY <1>3 DEF GoesOnIn
<1>4. Closed(O, {}, S, h) BY <1>2, <1>3 DEF Closed
<1> QED BY <1>4 DEF Follows

\* It makes no difference when t is joined to w and the rest of q.
Joins(w, q, t) == (w \o Tail(q)) \o t = w \o Tail(q \o t)

\* A sequence is put before what another joined to a third goes on with.
LEMMA RestJoined ==
    ASSUME NEW E, NEW F, NEW w \in Seq(E), NEW q \in Seq(E), q # <<>>, NEW t \in Seq(F)
    PROVE  Joins(w, q, t)
<1> DEFINE G == E \cup F
           u == Tail(q)
<1>1. w \in Seq(G) /\ u \in Seq(G) /\ t \in Seq(G) /\ Tail(q \o t) = u \o t
  OBVIOUS
<1> HIDE DEF G, u
<1>2. (w \o u) \o t = w \o (u \o t)
  BY <1>1
<1> QED
  BY <1>1, <1>2 DEF u, Joins

\* One thing after the other.
LEMMA OneAfterTheOther ==
    ASSUME NEW O, NEW a, NEW s, NEW b, NEW t, NEW c, Follows(O, a, s, b), Follows(O, b, t, c)
    PROVE  Follows(O, a, s \o t, c)
<1>1. PICK V1, S1 : Closed(O, V1, S1, b) /\ <<a, s>> \in S1 BY DEF Follows
<1>2. PICK V2, S2 : Closed(O, V2, S2, c) /\ <<b, t>> \in S2 BY DEF Follows
<1> DEFINE V == V1 \cup V2
           S == {x \in Seq(Monitors) \X Seq(V) :
                    x \in S2 \/ \E r \in Seq(V1) : <<x[1], r>> \in S1 /\ x[2] = r \o t}
<1>3. /\ a \in Seq(Monitors) /\ s \in Seq(V1) /\ b \in Seq(Monitors) /\ t \in Seq(V2)
      /\ S1 \subseteq Seq(Monitors) \X Seq(V1) /\ S2 \subseteq Seq(Monitors) \X Seq(V2)
  BY <1>1, <1>2 DEF Closed
<1>4. Seq(V1) \subseteq Seq(V) /\ Seq(V2) \subseteq Seq(V) OBVIOUS
<1>5. ASSUME NEW h, NEW r, <<h, r>> \in S1 PROVE <<h, r \o t>> \in S
  <2>1. h \in Seq(Monitors) /\ r \in Seq(V1) BY <1>5, <1>3
  <2>2. r \o t \in Seq(V) BY <2>1, <1>3, <1>4
  <2> QED BY <2>1, <2>2, <1>5
<1>6. ASSUME NEW h, NEW r, <<h, r>> \in S2 PROVE <<h, r>> \in S
  BY <1>6, <1>3, <1>4
<1>7. ASSUME NEW h \in Seq(Monitors), NEW r \in Seq(V), <<h, r>> \in S
      PROVE  GoesOnIn(O, V, S, c, h, r)
  <2>1. CASE <<h, r>> \in S2
    <3>1. r \in Seq(V2) BY <2>1, <1>3
    <3>2. GoesOnIn(O, V2, S2, c, h, r) BY <3>1, <2>1, <1>2 DEF Closed
    <3> HIDE DEF S
    <3> QED BY <3>2, <1>4, <1>6 DEF GoesOnIn
  <2>2. ASSUME NEW q \in Seq(V1), <<h, q>> \in S1, r = q \o t
        PROVE  GoesOnIn(O, V, S, c, h, r)
    <3>1. GoesOnIn(O, V1, S1, b, h, q) BY <2>2, <1>1 DEF Closed
    <3>2. CASE q = <<>>
      <4>1. h = b BY <3>1, <3>2 DEF GoesOnIn
      <4>2. r = t BY <2>2, <3>2, <1>3
      <4>3. GoesOnIn(O, V2, S2, c, h, r) BY <4>1, <4>2, <1>2, <1>3 DEF Closed
      <4> HIDE DEF S
      <4> QED BY <4>3, <1>4, <1>6 DEF GoesOnIn
    <3>3. CASE q # <<>>
      <4>1. r # <<>> /\ Head(r) = Head(q) /\ Tail(r) = Tail(q) \o t /\ Tail(q) \in Seq(V1)
        BY <2>2, <3>3, <1>3
      <4>2. ASSUME NEW w \in Seq(V1), <<h, w \o Tail(q)>> \in S1 PROVE <<h, w \o Tail(r)>> \in S
        <5>1. (w \o Tail(q)) \o t = w \o Tail(q \o t)
          <6>1. t \in Seq(V2) BY <1>3
          <6> HIDE DEF S, V
          <6>2. Joins(w, q, t) BY <6>1, <3>3, RestJoined, Zenon
          <6> QED BY <6>2 DEF Joins
        <5>2. <<h, (w \o Tail(q)) \o t>> \in S BY <4>2, <1>5
        <5> HIDE DEF S
        <5> QED BY <5>1, <5>2, <2>2
      <4> HIDE DEF S
      <4>3. ASSUME NEW g, <<g, Tail(q)>> \in S1 PROVE <<g, Tail(r)>> \in S
        BY <4>1, <4>3, <1>5
      <4> QED BY <3>1, <3>3, <4>1, <4>2, <4>3, <1>4 DEF GoesOnIn
    <3> QED BY <3>2, <3>3
  <2>3. <<h, r>> \in S2 \/ \E q \in Seq(V1) : <<h, q>> \in S1 /\ r = q \o t BY <1>7
  <2> QED BY <2>1, <2>2, <2>3
<1>8. Closed(O, V, S, c) BY <1>7 DEF Closed
<1>9. <<a, s \o t>> \in S BY <1>1, <1>5
<1> HIDE DEF S, V
<1> QED BY <1>8, <1>9 DEF Follows

LEMMA Wider ==
    ASSUME NEW O, NEW V, NEW S, NEW W, NEW T, NEW e, NEW h, NEW s, GoesOnIn(O, V, S, e, h, s),
           Seq(V) \subseteq Seq(W), S \subseteq T
    PROVE  GoesOnIn(O, W, T, e, h, s)
BY DEF GoesOnIn

\* One step before what is known.
LEMMA OneMore ==
    ASSUME NEW O, NEW V, NEW S, NEW e, NEW h \in Seq(Monitors), NEW i,
           Closed(O, V, S, e), GoesOnIn(O, V, S, e, h, <<i>>)
    PROVE  Follows(O, h, <<i>>, e)
<1> DEFINE W == V \cup {i}
           T == S \cup {<<h, <<i>>>>}
<1>1. <<i>> \in Seq(W) /\ Seq(V) \subseteq Seq(W) OBVIOUS
<1>2. S \subseteq Seq(Monitors) \X Seq(V) BY DEF Closed
<1>3. <<h, <<i>>>> \in Seq(Monitors) \X Seq(W) BY <1>1
<1>4. T \subseteq Seq(Monitors) \X Seq(W) BY <1>1, <1>2, <1>3
<1>5. ASSUME NEW g \in Seq(Monitors), NEW r \in Seq(W), <<g, r>> \in T
      PROVE  GoesOnIn(O, W, T, e, g, r)
  <2>1. CASE <<g, r>> \in S
    <3>1. GoesOnIn(O, V, S, e, g, r) BY <2>1, <1>2 DEF Closed
    <3> QED BY <3>1, <1>1, Wider
  <2>2. CASE g = h /\ r = <<i>>
    BY <2>2, <1>1, Wider
  <2> QED BY <1>5, <2>1, <2>2
<1>6. Closed(O, W, T, e) BY <1>4, <1>5 DEF Closed
<1>7. <<h, <<i>>>> \in T OBVIOUS
<1> HIDE DEF W, T
<1> QED BY <1>6, <1>7 DEF Follows

\* One step, and nothing after it.
LEMMA OneStep ==
    ASSUME NEW O, NEW h \in Seq(Monitors), NEW g \in Seq(Monitors), NEW i,
           \A V, S : <<g, <<>>>> \in S => GoesOnIn(O, V, S, g, h, <<i>>)
    PROVE  Follows(O, h, <<i>>, g)
<1>1. PICK V, S : Closed(O, V, S, g) /\ <<g, <<>>>> \in S BY NothingFollows DEF Follows
<1> QED BY <1>1, OneMore

LEMMA TouchFollows ==
    ASSUME NEW O, NEW h \in Seq(Monitors), NEW l, MayTake(O, h, l) PROVE Follows(O, h, Touch(l), h)
<1> DEFINE i == [do |-> "touch", lock |-> l]
<1>1. ASSUME NEW V, NEW S, <<h, <<>>>> \in S PROVE GoesOnIn(O, V, S, h, h, <<i>>)
  BY <1>1 DEF GoesOnIn
<1> HIDE DEF i
<1>2. Follows(O, h, <<i>>, h) BY <1>1, OneStep
<1> QED BY <1>2 DEF Touch, i

LEMMA EnterFollows ==
    ASSUME NEW O, NEW h \in Seq(Monitors), NEW l, MayTake(O, h, l)
    PROVE  Follows(O, h, Enter(l), Append(h, l))
<1> DEFINE i == [do |-> "enter", lock |-> l]
<1>2. Append(h, l) \in Seq(Monitors) BY DEF MayTake
<1>4. i.do = "enter" /\ i.lock = l OBVIOUS
<1> HIDE DEF i
<1>5. <<i>> # <<>> /\ Head(<<i>>) = i /\ Tail(<<i>>) = <<>> OBVIOUS
<1>1. ASSUME NEW V, NEW S, <<Append(h, l), <<>>>> \in S
      PROVE  GoesOnIn(O, V, S, Append(h, l), h, <<i>>)
  BY <1>1, <1>4, <1>5 DEF GoesOnIn
<1>3. Follows(O, h, <<i>>, Append(h, l)) BY <1>1, <1>2, OneStep
<1> QED BY <1>3 DEF Enter, i

LEMMA ExitFollows ==
    ASSUME NEW O, NEW h \in Seq(Monitors), NEW l \in Monitors
    PROVE  Follows(O, Append(h, l), Exit, h)
<1> DEFINE i == [do |-> "exit"]
           g == Append(h, l)
<1>1. g \in Seq(Monitors) /\ g # <<>> /\ Len(g) = Len(h) + 1 BY AppendProperties
<1>2. Front(g) = h BY DEF Front
<1> HIDE DEF g
<1>3. ASSUME NEW V, NEW S, <<h, <<>>>> \in S PROVE GoesOnIn(O, V, S, h, g, <<i>>)
  BY <1>1, <1>2, <1>3 DEF GoesOnIn
<1> HIDE DEF i
<1>4. Follows(O, g, <<i>>, h) BY <1>1, <1>3, OneStep
<1> QED BY <1>4 DEF Exit, i, g

LEMMA BecomesFollows ==
    ASSUME NEW O, NEW h \in Seq(Monitors), NEW st PROVE Follows(O, h, Becomes(st), h)
<1> DEFINE i == [do |-> "become", state |-> st]
<1>1. ASSUME NEW V, NEW S, <<h, <<>>>> \in S PROVE GoesOnIn(O, V, S, h, h, <<i>>)
  BY <1>1 DEF GoesOnIn
<1> HIDE DEF i
<1>2. Follows(O, h, <<i>>, h) BY <1>1, OneStep
<1> QED BY <1>2 DEF Becomes, i

LEMMA PendFollows ==
    ASSUME NEW O, NEW h \in Seq(Monitors), NEW task \in Tasks PROVE Follows(O, h, Pend(task), h)
<1> DEFINE i == [do |-> "pend", task |-> task]
<1>1. ASSUME NEW V, NEW S, <<h, <<>>>> \in S PROVE GoesOnIn(O, V, S, h, h, <<i>>)
  BY <1>1 DEF GoesOnIn
<1> HIDE DEF i
<1>2. Follows(O, h, <<i>>, h) BY <1>1, OneStep
<1> QED BY <1>2 DEF Pend, i

\* Two ways on, both of which are known.
LEMMA Both ==
    ASSUME NEW O, NEW h, NEW s, NEW t, NEW e, Follows(O, h, s, e), Follows(O, h, t, e)
    PROVE  \E V, S : /\ Closed(O, V, S, e) /\ <<h, s>> \in S /\ <<h, t>> \in S
                     /\ h \in Seq(Monitors) /\ s \in Seq(V) /\ t \in Seq(V)
<1>1. PICK V1, S1 : Closed(O, V1, S1, e) /\ <<h, s>> \in S1 BY DEF Follows
<1>2. PICK V2, S2 : Closed(O, V2, S2, e) /\ <<h, t>> \in S2 BY DEF Follows
<1> DEFINE W == V1 \cup V2
           T == S1 \cup S2
<1>3. Seq(V1) \subseteq Seq(W) /\ Seq(V2) \subseteq Seq(W) OBVIOUS
<1>4. /\ S1 \subseteq Seq(Monitors) \X Seq(V1) /\ S2 \subseteq Seq(Monitors) \X Seq(V2)
  BY <1>1, <1>2 DEF Closed
<1>5. T \subseteq Seq(Monitors) \X Seq(W) BY <1>3, <1>4
<1>6. ASSUME NEW g \in Seq(Monitors), NEW r \in Seq(W), <<g, r>> \in T
      PROVE  GoesOnIn(O, W, T, e, g, r)
  <2>1. CASE <<g, r>> \in S1
    <3>1. GoesOnIn(O, V1, S1, e, g, r) BY <2>1, <1>1, <1>4 DEF Closed
    <3> QED BY <3>1, <1>3, Wider
  <2>2. CASE <<g, r>> \in S2
    <3>1. GoesOnIn(O, V2, S2, e, g, r) BY <2>2, <1>2, <1>4 DEF Closed
    <3> QED BY <3>1, <1>3, Wider
  <2> QED BY <1>6, <2>1, <2>2
<1>7. Closed(O, W, T, e) BY <1>5, <1>6 DEF Closed
<1>8. h \in Seq(Monitors) /\ s \in Seq(W) /\ t \in Seq(W) BY <1>1, <1>2, <1>3, <1>4
<1>9. <<h, s>> \in T /\ <<h, t>> \in T BY <1>1, <1>2
<1> HIDE DEF W, T
<1> QED BY <1>7, <1>8, <1>9

LEMMA WhenFollows ==
    ASSUME NEW O, NEW h, NEW states, NEW yes, NEW no, NEW e,
           Follows(O, h, yes, e), Follows(O, h, no, e)
    PROVE  Follows(O, h, When(states, yes, no), e)
<1> DEFINE i == [do |-> "when", states |-> states, yes |-> yes, no |-> no]
<1>1. PICK V, S : /\ Closed(O, V, S, e) /\ <<h, yes>> \in S /\ <<h, no>> \in S
                  /\ h \in Seq(Monitors) /\ yes \in Seq(V) /\ no \in Seq(V)
  BY Both
<1>2. yes \o <<>> = yes /\ no \o <<>> = no BY <1>1, ConcatEmptySeq
<1>5. i.do = "when" /\ i.yes = yes /\ i.no = no OBVIOUS
<1> HIDE DEF i
<1>6. <<i>> # <<>> /\ Head(<<i>>) = i /\ Tail(<<i>>) = <<>> OBVIOUS
<1>3. GoesOnIn(O, V, S, e, h, <<i>>) BY <1>1, <1>2, <1>5, <1>6 DEF GoesOnIn
<1>4. Follows(O, h, <<i>>, e) BY <1>1, <1>3, OneMore
<1> QED BY <1>4 DEF When, i

LEMMA EitherFollows ==
    ASSUME NEW O, NEW h, NEW one, NEW other, NEW e,
           Follows(O, h, one, e), Follows(O, h, other, e)
    PROVE  Follows(O, h, Either(one, other), e)
<1> DEFINE i == [do |-> "either", one |-> one, other |-> other]
<1>1. PICK V, S : /\ Closed(O, V, S, e) /\ <<h, one>> \in S /\ <<h, other>> \in S
                  /\ h \in Seq(Monitors) /\ one \in Seq(V) /\ other \in Seq(V)
  BY Both
<1>2. one \o <<>> = one /\ other \o <<>> = other BY <1>1, ConcatEmptySeq
<1>5. i.do = "either" /\ i.one = one /\ i.other = other OBVIOUS
<1> HIDE DEF i
<1>6. <<i>> # <<>> /\ Head(<<i>>) = i /\ Tail(<<i>>) = <<>> OBVIOUS
<1>3. GoesOnIn(O, V, S, e, h, <<i>>) BY <1>1, <1>2, <1>5, <1>6 DEF GoesOnIn
<1>4. Follows(O, h, <<i>>, e) BY <1>1, <1>3, OneMore
<1> QED BY <1>4 DEF Either, i

\* What is done with a monitor that is entered and left.
LEMMA SyncFollows ==
    ASSUME NEW O, NEW h \in Seq(Monitors), NEW l, NEW body, MayTake(O, h, l),
           Follows(O, Append(h, l), body, Append(h, l))
    PROVE  Follows(O, h, Sync(l, body), h)
<1>1. l \in Monitors BY DEF MayTake
<1>2. Follows(O, h, Enter(l), Append(h, l)) BY EnterFollows
<1>3. Follows(O, Append(h, l), Exit, h) BY <1>1, ExitFollows
<1>4. Follows(O, h, Enter(l) \o body, Append(h, l)) BY <1>2, OneAfterTheOther
<1>5. Follows(O, h, (Enter(l) \o body) \o Exit, h) BY <1>3, <1>4, OneAfterTheOther
<1> QED BY <1>5 DEF Sync

LEMMA MaybeFollows ==
    ASSUME NEW O, NEW h \in Seq(Monitors), NEW body, Follows(O, h, body, h)
    PROVE  Follows(O, h, Maybe(body), h)
BY NothingFollows, EitherFollows DEF Maybe

\* A monitor that may be taken may still be with another one held that comes before it.
LEMMA MayStillTake ==
    ASSUME NEW O, NEW h \in Seq(Monitors), NEW l, NEW k \in Monitors, MayTake(O, h, l),
           k = l \/ <<k, l>> \in O
    PROVE  MayTake(O, Append(h, k), l)
BY DEF MayTake

-----------------------------------------------------------------------------
(* What leaves the monitors as they are.                                   *)

Runs(O, h, s) == Follows(O, h, s, h)

LEMMA Pieces ==
    /\ \A O, h, s, t : Runs(O, h, s) /\ Runs(O, h, t) => Runs(O, h, s \o t)
    /\ \A O, h, states, yes, no :
          Runs(O, h, yes) /\ Runs(O, h, no) => Runs(O, h, When(states, yes, no))
    /\ \A O, h, one, other :
          Runs(O, h, one) /\ Runs(O, h, other) => Runs(O, h, Either(one, other))
    /\ \A O : \A h \in Seq(Monitors) : \A body : Runs(O, h, body) => Runs(O, h, Maybe(body))
<1>1. ASSUME NEW O, NEW h, NEW s, NEW t, Runs(O, h, s), Runs(O, h, t) PROVE Runs(O, h, s \o t)
  BY <1>1, OneAfterTheOther DEF Runs
<1>2. ASSUME NEW O, NEW h, NEW states, NEW yes, NEW no, Runs(O, h, yes), Runs(O, h, no)
      PROVE  Runs(O, h, When(states, yes, no))
  BY <1>2, WhenFollows DEF Runs
<1>3. ASSUME NEW O, NEW h, NEW one, NEW other, Runs(O, h, one), Runs(O, h, other)
      PROVE  Runs(O, h, Either(one, other))
  BY <1>3, EitherFollows DEF Runs
<1>4. ASSUME NEW O, NEW h \in Seq(Monitors), NEW body, Runs(O, h, body)
      PROVE  Runs(O, h, Maybe(body))
  BY <1>4, MaybeFollows DEF Runs
<1> QED BY <1>1, <1>2, <1>3, <1>4

\* What does little.
LEMMA Little ==
    ASSUME NEW O, NEW h \in Seq(Monitors)
    PROVE  /\ Runs(O, h, <<>>)
           /\ \A state_ : Runs(O, h, Becomes(state_))
           /\ \A task \in Tasks : Runs(O, h, Pend(task))
           /\ \A l : MayTake(O, h, l) => Runs(O, h, Touch(l))
<1>1. Runs(O, h, <<>>) BY NothingFollows DEF Runs
<1>2. ASSUME NEW st PROVE Runs(O, h, Becomes(st)) BY BecomesFollows DEF Runs
<1>3. ASSUME NEW task \in Tasks PROVE Runs(O, h, Pend(task)) BY PendFollows DEF Runs
<1>4. ASSUME NEW l, MayTake(O, h, l) PROVE Runs(O, h, Touch(l)) BY <1>4, TouchFollows DEF Runs
<1> QED BY <1>1, <1>2, <1>3, <1>4

\* Within a monitor.
LEMMA Within ==
    ASSUME NEW O, NEW h \in Seq(Monitors), NEW l, NEW body, MayTake(O, h, l),
           Runs(O, Append(h, l), body)
    PROVE  Runs(O, h, Sync(l, body))
BY SyncFollows DEF Runs

\* What may be taken within k.
LEMMA MayTakeWithin ==
    ASSUME NEW O, NEW h \in Seq(Monitors), NEW k, MayTake(O, h, k), NEW L, MayTakeAll(O, h, L),
           \A l \in L : k = l \/ <<k, l>> \in O
    PROVE  Append(h, k) \in Seq(Monitors) /\ MayTakeAll(O, Append(h, k), L)
<1>1. k \in Monitors BY DEF MayTake
<1>2. Append(h, k) \in Seq(Monitors) BY <1>1, AppendProperties
<1>3. ASSUME NEW l \in L PROVE MayTake(O, Append(h, k), l)
  <2>1. MayTake(O, h, l) BY DEF MayTakeAll
  <2> QED BY <2>1, <1>1, MayStillTake
<1> QED BY <1>2, <1>3 DEF MayTakeAll

-----------------------------------------------------------------------------
(* The methods of the game.                                                *)

\* BroadcastToPlayers, GetPlayerForUser, GetJudge and NotifyPlayerInfoChange.
LEMMA TellingRuns ==
    ASSUME NEW O, NEW h \in Seq(Monitors), MayTakeAll(O, h, {"players", "spectators"})
    PROVE  Runs(O, h, BroadcastToPlayers) /\ Runs(O, h, GetPlayerForUser) /\ Runs(O, h, GetJudge)
BY Pieces, Little DEF MayTakeAll, BroadcastToPlayers, GetPlayerForUser, GetJudge

LEMMA InfoRuns ==
    ASSUME NEW O, NEW h \in Seq(Monitors),
           MayTakeAll(O, h, {"players", "spectators", "roundPlayers", "playedCards"})
    PROVE  Runs(O, h, GetPlayerStatus) /\ Runs(O, h, NotifyPlayerInfoChange)
<1>1. Runs(O, h, BroadcastToPlayers) /\ Runs(O, h, GetJudge) BY TellingRuns DEF MayTakeAll
<1>2. Runs(O, h, Touch("roundPlayers")) /\ Runs(O, h, Touch("playedCards"))
  BY Little DEF MayTakeAll
<1>3. Runs(O, h, GetPlayerStatus) BY <1>1, <1>2, Pieces, Little DEF GetPlayerStatus
<1> QED BY <1>1, <1>3, Pieces DEF NotifyPlayerInfoChange

\* KillRoundTimer and RescheduleTimer
LEMMA TimerRuns ==
    ASSUME NEW O, NEW h \in Seq(Monitors), MayTake(O, h, "roundTimerLock")
    PROVE  /\ Runs(O, h, KillRoundTimer)
           /\ \A task \in Tasks : Runs(O, h, RescheduleTimer(task))
<1> DEFINE g == Append(h, "roundTimerLock")
<1>1. \A f \in Seq(Monitors) : MayTake(O, f, "roundTimerLock") => Runs(O, f, KillRoundTimer)
  <2> TAKE f \in Seq(Monitors)
  <2> HAVE MayTake(O, f, "roundTimerLock")
  <2>1. Append(f, "roundTimerLock") \in Seq(Monitors) BY DEF Monitors
  <2>2. Runs(O, Append(f, "roundTimerLock"), Pend("none")) BY <2>1, Little DEF Tasks
  <2> QED BY <2>2, Within DEF KillRoundTimer
<1>2. g \in Seq(Monitors) /\ MayTake(O, g, "roundTimerLock")
  <2>1. "roundTimerLock" \in Monitors BY DEF Monitors
  <2> QED BY <2>1, AppendProperties, MayStillTake
<1>3. ASSUME NEW task \in Tasks PROVE Runs(O, h, RescheduleTimer(task))
  <2> HIDE DEF g
  <2>1. Runs(O, g, KillRoundTimer \o Pend(task)) BY <1>1, <1>2, Pieces, Little
  <2> QED BY <2>1, Within DEF RescheduleTimer, g
<1> QED BY <1>1, <1>3

LEMMA JudgingStateRuns ==
    ASSUME NEW O, NEW h \in Seq(Monitors),
           MayTakeAll(O, h, {"players", "spectators", "roundPlayers", "playedCards",
                             "roundTimerLock"})
    PROVE  Runs(O, h, JudgingState)
<1>1. Runs(O, h, KillRoundTimer) /\ Runs(O, h, RescheduleTimer("warnJudge"))
  BY TimerRuns DEF MayTakeAll, Tasks
<1>2. /\ Runs(O, h, BroadcastToPlayers) /\ Runs(O, h, GetJudge)
      /\ Runs(O, h, NotifyPlayerInfoChange)
  BY TellingRuns, InfoRuns DEF MayTakeAll
<1>3. Runs(O, h, Touch("playedCards")) BY Little DEF MayTakeAll
<1> QED BY <1>1, <1>2, <1>3, Pieces, Little DEF JudgingState

LEMMA ResetStateRuns ==
    ASSUME NEW O, NEW h \in Seq(Monitors),
           MayTakeAll(O, h, {"players", "spectators", "roundPlayers", "playedCards",
                             "roundTimerLock", "blackCardLock"})
    PROVE  Runs(O, h, ResetState)
<1>1. Runs(O, h, KillRoundTimer) BY TimerRuns DEF MayTakeAll
<1>2. /\ Runs(O, h, BroadcastToPlayers) /\ Runs(O, h, GetJudge)
      /\ Runs(O, h, NotifyPlayerInfoChange)
  BY TellingRuns, InfoRuns DEF MayTakeAll
<1>3. /\ Runs(O, h, Touch("playedCards")) /\ Runs(O, h, Touch("players"))
      /\ Runs(O, h, Touch("blackCardLock")) /\ Runs(O, h, Touch("roundPlayers"))
  BY Little DEF MayTakeAll
<1> QED BY <1>1, <1>2, <1>3, Pieces, Little DEF ResetState

\* The monitors that the methods of a round take.
RoundMonitors ==
    {"players", "spectators", "roundPlayers", "playedCards", "roundTimerLock", "blackCardLock"}

\* What all methods do that neither enter a monitor nor branch.
LEMMA Common ==
    ASSUME NEW O, NEW h \in Seq(Monitors), MayTakeAll(O, h, RoundMonitors)
    PROVE  /\ Runs(O, h, BroadcastToPlayers) /\ Runs(O, h, GetPlayerForUser)
           /\ Runs(O, h, GetJudge) /\ Runs(O, h, NotifyPlayerInfoChange)
           /\ Runs(O, h, ReturnCardsToHand) /\ Runs(O, h, GetPlayerStatus)
           /\ Runs(O, h, KillRoundTimer) /\ \A task \in Tasks : Runs(O, h, RescheduleTimer(task))
           /\ Runs(O, h, JudgingState) /\ Runs(O, h, ResetState) /\ Runs(O, h, GetNextCard)
           /\ \A l \in RoundMonitors : Runs(O, h, Touch(l))
<1>1. \A l \in RoundMonitors : Runs(O, h, Touch(l)) BY Little DEF MayTakeAll
<1>2. /\ Runs(O, h, BroadcastToPlayers) /\ Runs(O, h, GetPlayerForUser) /\ Runs(O, h, GetJudge)
  BY TellingRuns DEF MayTakeAll, RoundMonitors
<1>3. Runs(O, h, NotifyPlayerInfoChange) /\ Runs(O, h, GetPlayerStatus)
  BY InfoRuns DEF MayTakeAll, RoundMonitors
<1>4. Runs(O, h, KillRoundTimer) /\ \A task \in Tasks : Runs(O, h, RescheduleTimer(task))
  BY TimerRuns DEF MayTakeAll, RoundMonitors
<1>5. Runs(O, h, JudgingState) BY JudgingStateRuns DEF MayTakeAll, RoundMonitors
<1>6. Runs(O, h, ResetState) BY ResetStateRuns DEF MayTakeAll, RoundMonitors
<1>7. Runs(O, h, ReturnCardsToHand) BY <1>1 DEF ReturnCardsToHand, RoundMonitors
<1>8. Runs(O, h, GetNextCard) BY <1>2, Pieces DEF GetNextCard
<1> QED BY <1>1, <1>2, <1>3, <1>4, <1>5, <1>6, <1>7, <1>8

\* With the list of players, or the lock of the black card, held a card is drawn; the list is
\* held, too, when the players of the round are chosen.
LEMMA DrawingRuns ==
    ASSUME NEW O, AllOrder \subseteq O, NEW h \in Seq(Monitors), MayTakeAll(O, h, RoundMonitors)
    PROVE  /\ Runs(O, h, Sync("blackCardLock", GetNextCard))
           /\ Runs(O, h, Sync("players", GetJudge \o GetNextCard))
           /\ Runs(O, h, Sync("players", Touch("roundPlayers") \o GetJudge \o Touch("roundPlayers")))
<1>1. MayTake(O, h, "players") /\ MayTake(O, h, "blackCardLock")
  BY DEF MayTakeAll, RoundMonitors
<1>2. MayTakeAll(O, h, {"players", "spectators"})
      /\ MayTakeAll(O, h, {"players", "spectators", "roundPlayers"})
  BY DEF MayTakeAll, RoundMonitors
<1>3. Runs(O, h, Sync("blackCardLock", GetNextCard))
  <2> DEFINE g == Append(h, "blackCardLock")
  <2>1. g \in Seq(Monitors) /\ MayTakeAll(O, g, {"players", "spectators"})
    <3>1. \A l \in {"players", "spectators"} : <<"blackCardLock", l>> \in O BY DEF AllOrder
    <3> QED BY <3>1, <1>1, <1>2, MayTakeWithin
  <2> HIDE DEF g
  <2>2. Runs(O, g, GetNextCard) BY <2>1, TellingRuns, Pieces DEF GetNextCard
  <2> QED BY <2>2, <1>1, Within DEF g
<1>4. /\ Runs(O, h, Sync("players", GetJudge \o GetNextCard))
      /\ Runs(O, h, Sync("players", Touch("roundPlayers") \o GetJudge \o Touch("roundPlayers")))
  <2> DEFINE g == Append(h, "players")
  <2>1. g \in Seq(Monitors) /\ MayTakeAll(O, g, {"players", "spectators", "roundPlayers"})
    <3>1. \A l \in {"players", "spectators", "roundPlayers"} : "players" = l \/ <<"players", l>> \in O
      BY DEF AllOrder
    <3> QED BY <3>1, <1>1, <1>2, MayTakeWithin
  <2> HIDE DEF g
  <2>2. MayTakeAll(O, g, {"players", "spectators"}) BY <2>1 DEF MayTakeAll
  <2>3. Runs(O, g, GetNextCard) /\ Runs(O, g, GetJudge)
    BY <2>1, <2>2, TellingRuns, Pieces DEF GetNextCard
  <2>4. Runs(O, g, Touch("roundPlayers")) BY <2>1, Little DEF MayTakeAll
  <2>5. /\ Runs(O, g, GetJudge \o GetNextCard)
        /\ Runs(O, g, Touch("roundPlayers") \o GetJudge \o Touch("roundPlayers"))
    BY <2>3, <2>4, Pieces
  <2> QED BY <2>5, <1>1, Within DEF g
<1> QED BY <1>3, <1>4

LEMMA RoundRuns ==
    ASSUME NEW O, AllOrder \subseteq O, NEW h \in Seq(Monitors), MayTakeAll(O, h, RoundMonitors)
    PROVE  Runs(O, h, NextRound) /\ Runs(O, h, StartNextRound)
<1>1. "warnPlay" \in Tasks /\ {"players", "playedCards", "blackCardLock"} \subseteq RoundMonitors
  BY DEF Tasks, RoundMonitors
<1>2. Runs(O, h, PlayingState) BY <1>1, Common, DrawingRuns, Pieces, Little DEF PlayingState
<1>3. Runs(O, h, DealState) BY <1>1, <1>2, Common, Pieces DEF DealState
<1>4. Runs(O, h, NextRound) BY <1>1, <1>3, Common, DrawingRuns, Pieces DEF NextRound
<1> QED BY <1>4, Common, Pieces, Little DEF StartNextRound

LEMMA StartJudgingRuns ==
    ASSUME NEW O, NEW h \in Seq(Monitors), MayTakeAll(O, h, RoundMonitors), NEW yes, NEW no,
           Runs(O, h, yes), Runs(O, h, no)
    PROVE  Runs(O, h, StartJudging(yes, no))
<1>1. {"roundPlayers", "playedCards"} \subseteq RoundMonitors BY DEF RoundMonitors
<1> QED BY <1>1, Common, Pieces DEF StartJudging

LEMMA RemovePlayerRuns ==
    ASSUME NEW O, NEW h \in Seq(Monitors), MayTakeAll(O, h, RoundMonitors)
    PROVE  Runs(O, h, RemovePlayer)
<1>1. {"roundPlayers", "playedCards", "players"} \subseteq RoundMonitors /\ "nextRound" \in Tasks
  BY DEF RoundMonitors, Tasks
<1>2. Runs(O, h, StartJudging(JudgingState, <<>>)) BY StartJudgingRuns, Common, Little
<1>3. Runs(O, h, HandleJudgeOnPlayerRemoval)
  BY <1>1, <1>2, Common, Pieces, Little DEF HandleJudgeOnPlayerRemoval
<1> QED BY <1>1, <1>3, Common, Pieces, Little DEF RemovePlayer

\* With judgeLock held, everything else may be taken.
LEMMA WithinJudgeLock ==
    ASSUME NEW O, AllOrder \subseteq O, NEW h \in Seq(Monitors), MayTake(O, h, "judgeLock"),
           MayTakeAll(O, h, RoundMonitors)
    PROVE  /\ Append(h, "judgeLock") \in Seq(Monitors)
           /\ MayTakeAll(O, Append(h, "judgeLock"), RoundMonitors)
<1>1. \A l \in RoundMonitors : <<"judgeLock", l>> \in O BY DEF AllOrder, RoundMonitors
<1> QED BY <1>1, MayTakeWithin

LEMMA SkipIdleJudgeRuns ==
    ASSUME NEW O, AllOrder \subseteq O, NEW h \in Seq(Monitors), MayTake(O, h, "judgeLock"),
           MayTakeAll(O, h, RoundMonitors)
    PROVE  Runs(O, h, SkipIdleJudge)
<1> DEFINE g == Append(h, "judgeLock")
           body == When({"JUDGING"},
                        GetJudge \o BroadcastToPlayers \o ReturnCardsToHand \o StartNextRound, <<>>)
<1>1. g \in Seq(Monitors) /\ MayTakeAll(O, g, RoundMonitors) BY WithinJudgeLock
<1> HIDE DEF g
<1>2. Runs(O, g, body) BY <1>1, Common, RoundRuns, Pieces, Little
<1> HIDE DEF body
<1>3. Runs(O, h, Sync("judgeLock", body)) BY <1>2, Within DEF g
<1> QED BY <1>3, Common, Pieces DEF SkipIdleJudge, body

LEMMA JudgeCardRuns ==
    ASSUME NEW O, AllOrder \subseteq O, NEW h \in Seq(Monitors), MayTake(O, h, "judgeLock"),
           MayTakeAll(O, h, RoundMonitors)
    PROVE  Runs(O, h, JudgeCard)
<1> DEFINE g == Append(h, "judgeLock")
           rest == Touch("playedCards")
                   \o BroadcastToPlayers \o NotifyPlayerInfoChange \o NotifyPlayerInfoChange
                   \o Either(RescheduleTimer("win"), RescheduleTimer("nextRound"))
                   \o Touch("playedCards")
           decided == Becomes("ROUND_OVER") \o Exit \o Touch("playedCards")
                      \o BroadcastToPlayers \o NotifyPlayerInfoChange \o NotifyPlayerInfoChange
                      \o Either(RescheduleTimer("win"), RescheduleTimer("nextRound"))
                      \o Touch("playedCards")
           judging == Touch("playedCards") \o Either(Exit, decided)
           test == When({"JUDGING"}, judging, Exit)
<1>1. /\ "judgeLock" \in Monitors /\ "playedCards" \in RoundMonitors
      /\ "win" \in Tasks /\ "nextRound" \in Tasks
  BY DEF Monitors, RoundMonitors, Tasks
<1>2. g \in Seq(Monitors) /\ MayTakeAll(O, g, RoundMonitors) BY WithinJudgeLock
<1>3. Follows(O, h, Enter("judgeLock"), g) /\ Follows(O, g, Exit, h)
  BY <1>1, EnterFollows, ExitFollows
<1> HIDE DEF g
<1>4. Follows(O, g, decided, h)
  <2>1. Runs(O, h, Touch("playedCards")) /\ Runs(O, h, BroadcastToPlayers)
        /\ Runs(O, h, NotifyPlayerInfoChange)
    BY <1>1, Common
  <2>2. Runs(O, h, Either(RescheduleTimer("win"), RescheduleTimer("nextRound")))
    BY <1>1, Common, Pieces
  <2>3. Follows(O, g, Becomes("ROUND_OVER") \o Exit, h)
    BY <1>2, <1>3, BecomesFollows, OneAfterTheOther
  <2> QED BY <2>1, <2>2, <2>3, OneAfterTheOther DEF Runs
<1> HIDE DEF decided
<1>5. Follows(O, g, judging, h)
  <2>1. Follows(O, g, Either(Exit, decided), h) BY <1>3, <1>4, EitherFollows
  <2>2. Follows(O, g, Touch("playedCards"), g) BY <1>1, <1>2, Common DEF Runs
  <2> QED BY <2>1, <2>2, OneAfterTheOther
<1> HIDE DEF judging
<1>6. Follows(O, g, test, h) BY <1>3, <1>5, WhenFollows
<1> HIDE DEF test
<1>7. Follows(O, g, GetPlayerForUser, g) /\ Follows(O, g, GetJudge, g) BY <1>2, Common DEF Runs
<1>8. Follows(O, h, Enter("judgeLock") \o GetPlayerForUser \o GetJudge \o test, h)
  BY <1>3, <1>6, <1>7, OneAfterTheOther
<1> QED BY <1>8 DEF Runs, JudgeCard, test, judging, decided

LEMMA SkipPlayerRuns ==
    ASSUME NEW O, AllOrder \subseteq O, NEW h \in Seq(Monitors), MayTake(O, h, "judgeLock"),
           MayTakeAll(O, h, RoundMonitors)
    PROVE  Runs(O, h, SkipPlayer)
<1> DEFINE g == Append(h, "roundPlayers")
           after == StartJudging(JudgingState,
                                 Touch("roundPlayers") \o Maybe(ReturnCardsToHand \o StartNextRound))
           skipped == BroadcastToPlayers \o Touch("playedCards") \o Exit
                      \o NotifyPlayerInfoChange \o after
           looking == Touch("playedCards") \o Either(Exit, skipped)
           test == When({"PLAYING"}, looking, Exit)
<1>1. "roundPlayers" \in Monitors /\ "playedCards" \in RoundMonitors /\ "roundPlayers" \in RoundMonitors
  BY DEF Monitors, RoundMonitors
<1>2. g \in Seq(Monitors) /\ MayTakeAll(O, g, {"playedCards", "players", "spectators"})
  <2>1. \A l \in {"playedCards", "players", "spectators"} : <<"roundPlayers", l>> \in O
    BY DEF AllOrder
  <2>2. MayTakeAll(O, h, {"playedCards", "players", "spectators"}) /\ MayTake(O, h, "roundPlayers")
    BY DEF MayTakeAll, RoundMonitors
  <2> QED BY <2>1, <2>2, MayTakeWithin
<1>3. Follows(O, h, Enter("roundPlayers"), g) /\ Follows(O, g, Exit, h)
  <2>1. MayTake(O, h, "roundPlayers") BY DEF MayTakeAll, RoundMonitors
  <2> QED BY <2>1, <1>1, EnterFollows, ExitFollows
<1> HIDE DEF g
<1>4. Follows(O, h, after, h)
  <2>1. Runs(O, h, Touch("roundPlayers") \o Maybe(ReturnCardsToHand \o StartNextRound))
    BY <1>1, Common, RoundRuns, Pieces
  <2>2. Runs(O, h, JudgingState) BY Common
  <2> QED BY <2>1, <2>2, StartJudgingRuns DEF Runs
<1> HIDE DEF after
<1>5. Follows(O, g, BroadcastToPlayers, g) /\ Follows(O, g, Touch("playedCards"), g)
  <2>1. MayTakeAll(O, g, {"players", "spectators"}) /\ MayTake(O, g, "playedCards")
    BY <1>2 DEF MayTakeAll
  <2> QED BY <2>1, <1>2, TellingRuns, TouchFollows DEF Runs
<1>6. Follows(O, g, skipped, h)
  <2>1. Follows(O, g, BroadcastToPlayers \o Touch("playedCards") \o Exit, h)
    BY <1>3, <1>5, OneAfterTheOther
  <2>2. Follows(O, h, NotifyPlayerInfoChange, h) BY Common DEF Runs
  <2> QED BY <2>1, <2>2, <1>4, OneAfterTheOther
<1> HIDE DEF skipped
<1>7. Follows(O, g, looking, h)
  <2>1. Follows(O, g, Either(Exit, skipped), h) BY <1>3, <1>6, EitherFollows
  <2> QED BY <2>1, <1>5, OneAfterTheOther
<1> HIDE DEF looking
<1>8. Follows(O, g, test, h) BY <1>3, <1>7, WhenFollows
<1> HIDE DEF test
<1>9. Runs(O, h, Enter("roundPlayers") \o test) BY <1>3, <1>8, OneAfterTheOther DEF Runs
<1>10. Runs(O, h, GetPlayerForUser \o GetJudge \o Either(SkipIdleJudge, Enter("roundPlayers") \o test))
  BY <1>9, SkipIdleJudgeRuns, Common, Pieces
<1> QED BY <1>10 DEF SkipPlayer, test, looking, skipped, after

-----------------------------------------------------------------------------
(* What a thread begins when it holds nothing.                             *)

LEMMA NothingHeld ==
    ASSUME NEW O
    PROVE  /\ <<>> \in Seq(Monitors) /\ MayTakeAll(O, <<>>, RoundMonitors)
           /\ MayTake(O, <<>>, "judgeLock") /\ MayTake(O, <<>>, "cardSetIds")
BY DEF MayTakeAll, MayTake, RoundMonitors, Monitors

LEMMA RequestRuns ==
    ASSUME NEW method \in Methods PROVE Follows(RequestOrder, <<>>, method, <<>>)
<1> DEFINE O == RequestOrder
<1>1. AllOrder \subseteq O BY DEF RequestOrder
<1>2. /\ <<>> \in Seq(Monitors) /\ MayTakeAll(O, <<>>, RoundMonitors)
      /\ MayTake(O, <<>>, "judgeLock") /\ MayTake(O, <<>>, "cardSetIds")
  BY NothingHeld
<1>3. {"players", "spectators", "blackCardLock", "playedCards", "roundPlayers"} \subseteq RoundMonitors
  BY DEF RoundMonitors
<1>4. Runs(O, <<>>, Start)
  <2> DEFINE g == Append(<<>>, "cardSetIds")
  <2>1. MayTake(O, <<>>, "players") BY <1>2, <1>3 DEF MayTakeAll
  <2>2. g \in Seq(Monitors) BY AppendProperties, <1>2 DEF MayTake
  <2>3. MayTake(O, g, "players")
    <3>1. <<"cardSetIds", "players">> \in O BY DEF RequestOrder
    <3>2. "cardSetIds" \in Monitors BY DEF Monitors
    <3> QED BY <2>1, <3>1, <3>2, <1>2, MayStillTake
  <2> HIDE DEF g
  <2>4. Runs(O, g, Touch("players")) BY <2>2, <2>3, Little
  <2>5. Runs(O, <<>>, Sync("cardSetIds", Touch("players"))) BY <2>4, <1>2, Within DEF g
  <2>6. Runs(O, <<>>, Touch("cardSetIds")) /\ Runs(O, <<>>, Touch("players"))
    BY <1>2, <2>1, Little
  <2>7. Runs(O, <<>>, KillRoundTimer) /\ Runs(O, <<>>, NextRound) BY <1>1, <1>2, Common, RoundRuns
  <2> HIDE DEF O
  <2> QED BY <2>5, <2>6, <2>7, <1>2, Pieces, Little DEF Start
<1>5. Runs(O, <<>>, PlayCard)
  <2> DEFINE g == Append(<<>>, "blackCardLock")
  <2>1. MayTake(O, <<>>, "playedCards") /\ MayTake(O, <<>>, "blackCardLock")
    BY <1>2, <1>3 DEF MayTakeAll
  <2>2. "blackCardLock" \in Monitors BY DEF Monitors
  <2>3. g \in Seq(Monitors) BY AppendProperties, <1>2, <2>2
  <2>4. MayTake(O, g, "playedCards")
    <3>1. <<"blackCardLock", "playedCards">> \in O BY DEF RequestOrder
    <3> QED BY <2>1, <3>1, <2>2, <1>2, MayStillTake
  <2> HIDE DEF g
  <2>5. Runs(O, g, Touch("playedCards")) BY <2>3, <2>4, Little
  <2>6. Runs(O, <<>>, Sync("blackCardLock", Touch("playedCards"))) BY <2>5, <2>1, <1>2, Within DEF g
  <2>7. /\ Runs(O, <<>>, GetPlayerForUser) /\ Runs(O, <<>>, GetJudge) /\ Runs(O, <<>>, JudgingState)
        /\ Runs(O, <<>>, NotifyPlayerInfoChange) /\ Runs(O, <<>>, Touch("playedCards"))
    BY <1>2, <1>3, Common
  <2>8. Runs(O, <<>>, StartJudging(JudgingState, <<>>)) BY <2>7, <1>2, StartJudgingRuns, Little
  <2> HIDE DEF O
  <2> QED BY <2>6, <2>7, <2>8, <1>2, Pieces, Little DEF PlayCard
<1> HIDE DEF O
<1>6. Runs(O, <<>>, Stop) BY <1>2, Common, Pieces, Little DEF Stop
<1>7. Runs(O, <<>>, AddPlayer) /\ Runs(O, <<>>, AddOrRemoveSpectator)
  BY <1>2, <1>3, Common, Pieces DEF AddPlayer, AddOrRemoveSpectator
<1>8. Runs(O, <<>>, RemovePlayer) BY <1>2, RemovePlayerRuns
<1>9. Runs(O, <<>>, JudgeCard) /\ Runs(O, <<>>, SkipPlayer) BY <1>1, <1>2, JudgeCardRuns, SkipPlayerRuns
<1>10. Runs(O, <<>>, GetCards) BY <1>2, <1>3, Common, Pieces, Little DEF GetCards
<1>11. Runs(O, <<>>, GetGameInfo) BY <1>2, <1>3, Common, Pieces DEF GetGameInfo
<1>12. Runs(O, <<>>, method)
  BY <1>4, <1>5, <1>6, <1>7, <1>8, <1>9, <1>10, <1>11 DEF Methods
<1> QED BY <1>12 DEF Runs, O

LEMMA TaskRuns ==
    ASSUME NEW task \in Tasks \ {"none"} PROVE Follows(PoolOrder, <<>>, Task[task], <<>>)
<1> DEFINE O == PoolOrder
<1>1. AllOrder \subseteq O BY DEF PoolOrder
<1>2. /\ <<>> \in Seq(Monitors) /\ MayTakeAll(O, <<>>, RoundMonitors)
      /\ MayTake(O, <<>>, "judgeLock")
  BY NothingHeld
<1>3. /\ {"players", "playedCards", "roundPlayers", "roundTimerLock"} \subseteq RoundMonitors
      /\ {"skipPlay", "skipJudge"} \subseteq Tasks
  BY DEF RoundMonitors, Tasks
<1>4. MayTake(O, <<>>, "roundPlayers") /\ MayTake(O, <<>>, "playedCards")
      /\ MayTake(O, <<>>, "roundTimerLock")
  BY <1>2, <1>3 DEF MayTakeAll
\* With the cards on the table held, the game is reset or goes on to judging.
<1>5. Runs(O, <<>>, ResetOrJudgeAfterIdleSkip)
  <2> DEFINE g == Append(<<>>, "playedCards")
  <2>1. \A l \in RoundMonitors : "playedCards" = l \/ <<"playedCards", l>> \in O
    BY DEF RoundMonitors, PoolOrder
  <2>2. g \in Seq(Monitors) /\ MayTakeAll(O, g, RoundMonitors) BY <2>1, <1>2, <1>4, MayTakeWithin
  <2> HIDE DEF g, O
  <2>3. Runs(O, g, ResetOrJudge) BY <2>2, <1>3, Common, Pieces DEF ResetOrJudge
  <2>4. Runs(O, g, When({"PLAYING"}, ResetOrJudge, Maybe(ResetOrJudge))) BY <2>2, <2>3, Pieces
  <2> QED BY <2>4, <1>2, <1>4, Within DEF ResetOrJudgeAfterIdleSkip, g
<1>6. Runs(O, <<>>, SkipIdlePlayers)
  <2> DEFINE g == Append(<<>>, "roundPlayers")
             body == Touch("playedCards")
                     \o Maybe(Touch("playedCards") \o BroadcastToPlayers \o Touch("playedCards"))
  <2>1. \A l \in {"playedCards", "players", "spectators"} : <<"roundPlayers", l>> \in O
    BY DEF AllOrder, PoolOrder
  <2>2. MayTakeAll(O, <<>>, {"playedCards", "players", "spectators"})
    BY <1>2 DEF MayTakeAll, RoundMonitors
  <2>3. g \in Seq(Monitors) /\ MayTakeAll(O, g, {"playedCards", "players", "spectators"})
    BY <2>1, <2>2, <1>2, <1>4, MayTakeWithin
  <2> HIDE DEF g, O
  <2>4. MayTakeAll(O, g, {"players", "spectators"}) /\ MayTake(O, g, "playedCards")
    BY <2>3 DEF MayTakeAll
  <2>5. Runs(O, g, body) BY <2>3, <2>4, TellingRuns, Little, Pieces
  <2> HIDE DEF body
  <2>6. Runs(O, <<>>, Sync("roundPlayers", body)) BY <2>5, <1>2, <1>4, Within DEF g
  <2>7. Runs(O, <<>>, RemovePlayer) BY <1>2, RemovePlayerRuns
  <2>8. Runs(O, <<>>, KillRoundTimer) /\ Runs(O, <<>>, NotifyPlayerInfoChange) BY <1>2, Common
  <2>9. Runs(O, <<>>, KillRoundTimer \o Sync("roundPlayers", body) \o Maybe(RemovePlayer)
                      \o ResetOrJudgeAfterIdleSkip \o Maybe(NotifyPlayerInfoChange))
    BY <2>6, <2>7, <2>8, <1>2, <1>5, Pieces
  <2> QED BY <2>9 DEF SkipIdlePlayers, body
\* The warnings are given with the lock of the timer held.
<1>7. Runs(O, <<>>, WarnPlayersToPlay) /\ Runs(O, <<>>, WarnJudgeToJudge)
  <2> DEFINE g == Append(<<>>, "roundTimerLock")
             f == Append(g, "roundPlayers")
             L == {"playedCards", "players", "roundPlayers", "roundTimerLock"}
  <2>1. \A l \in L : "roundTimerLock" = l \/ <<"roundTimerLock", l>> \in O BY DEF PoolOrder
  <2>2. MayTakeAll(O, <<>>, L) BY <1>2 DEF MayTakeAll, RoundMonitors
  <2>3. g \in Seq(Monitors) /\ MayTakeAll(O, g, L) BY <2>1, <2>2, <1>2, <1>4, MayTakeWithin
  <2> HIDE DEF g
  <2>4. f \in Seq(Monitors) /\ MayTake(O, f, "playedCards")
    <3>1. MayTake(O, g, "roundPlayers") /\ MayTake(O, g, "playedCards") BY <2>3 DEF MayTakeAll
    <3>2. <<"roundPlayers", "playedCards">> \in O BY DEF AllOrder, PoolOrder
    <3>3. "roundPlayers" \in Monitors BY DEF Monitors
    <3> QED BY <3>1, <3>2, <3>3, <2>3, MayStillTake, AppendProperties
  <2> HIDE DEF f, O
  <2>5. Runs(O, f, Touch("playedCards")) BY <2>4, Little
  <2>6. MayTake(O, g, "roundPlayers") /\ MayTake(O, g, "roundTimerLock") /\ MayTake(O, g, "players")
    BY <2>3 DEF MayTakeAll
  <2>7. Runs(O, g, Sync("roundPlayers", Touch("playedCards"))) BY <2>3, <2>5, <2>6, Within DEF f
  <2>8. Runs(O, g, KillRoundTimer) /\ Runs(O, g, RescheduleTimer("skipPlay"))
        /\ Runs(O, g, RescheduleTimer("skipJudge"))
    BY <1>3, <2>3, <2>6, TimerRuns
  <2>9. Runs(O, g, GetJudge) BY <2>3, <2>6, Little DEF GetJudge
  <2>10. Runs(O, g, KillRoundTimer \o Sync("roundPlayers", Touch("playedCards"))
                    \o RescheduleTimer("skipPlay"))
    BY <2>7, <2>8, Pieces
  <2>11. Runs(O, g, KillRoundTimer \o When({"JUDGING"}, GetJudge, <<>>)
                    \o RescheduleTimer("skipJudge"))
    BY <2>3, <2>8, <2>9, Pieces, Little
  <2> QED BY <2>10, <2>11, <1>2, <1>4, Within DEF WarnPlayersToPlay, WarnJudgeToJudge, g
<1>8. /\ Runs(O, <<>>, SkipIdleJudge) /\ Runs(O, <<>>, StartNextRound) /\ Runs(O, <<>>, ResetState)
  BY <1>1, <1>2, SkipIdleJudgeRuns, RoundRuns, Common
<1> HIDE DEF O
<1>9. Runs(O, <<>>, Task[task]) BY <1>6, <1>7, <1>8 DEF Task, Tasks
<1> QED BY <1>9 DEF Runs, O

-----------------------------------------------------------------------------
(* The steps of the threads.                                               *)

\* What is left when a step has been done.
LEMMA StepFollows ==
    ASSUME NEW O, NEW h, NEW s, NEW e, Follows(O, h, s, e), s # <<>>
    PROVE  /\ Head(s).do = "enter" =>
                 /\ MayTake(O, h, Head(s).lock)
                 /\ Follows(O, Append(h, Head(s).lock), <<>> \o Tail(s), e)
           /\ Head(s).do = "exit" => h # <<>> /\ Follows(O, Front(h), <<>> \o Tail(s), e)
           /\ Head(s).do = "touch" =>
                 MayTake(O, h, Head(s).lock) /\ Follows(O, h, <<>> \o Tail(s), e)
           /\ Head(s).do = "become" => Follows(O, h, <<>> \o Tail(s), e)
           /\ Head(s).do = "pend" => Head(s).task \in Tasks /\ Follows(O, h, <<>> \o Tail(s), e)
           /\ Head(s).do = "when" =>
                 /\ Follows(O, h, Head(s).yes \o Tail(s), e)
                 /\ Follows(O, h, Head(s).no \o Tail(s), e)
           /\ Head(s).do = "either" =>
                 /\ Follows(O, h, Head(s).one \o Tail(s), e)
                 /\ Follows(O, h, Head(s).other \o Tail(s), e)
<1>1. PICK V, S : Closed(O, V, S, e) /\ <<h, s>> \in S BY DEF Follows
<1>2. h \in Seq(Monitors) /\ s \in Seq(V) BY <1>1 DEF Closed
<1>3. GoesOnIn(O, V, S, e, h, s) BY <1>1, <1>2 DEF Closed
<1>4. <<>> \o Tail(s) = Tail(s)
  <2>1. Tail(s) \in Seq(V) BY <1>2, HeadTailProperties
  <2> QED BY <2>1, ConcatEmptySeq
<1>5. \A g, r : <<g, r>> \in S => Follows(O, g, r, e) BY <1>1 DEF Follows
<1> QED BY <1>3, <1>4, <1>5 DEF GoesOnIn

\* What is held is a sequence of monitors, and nothing is held at the end.
LEMMA Holding ==
    ASSUME NEW O, NEW h, NEW s, NEW e, Follows(O, h, s, e)
    PROVE  h \in Seq(Monitors) /\ (s = <<>> => h = e)
<1>1. PICK V, S : Closed(O, V, S, e) /\ <<h, s>> \in S BY DEF Follows
<1>2. h \in Seq(Monitors) /\ s \in Seq(V) BY <1>1 DEF Closed
<1>3. GoesOnIn(O, V, S, e, h, s) BY <1>1, <1>2 DEF Closed
<1> QED BY <1>2, <1>3 DEF GoesOnIn

\* No monitor is held by two threads.
Exclusive ==
    \A t, u \in Threads : t # u =>
        \A i \in 1..Len(held[t]), j \in 1..Len(held[u]) : held[t][i] # held[u][j]

\* Every thread takes monitors in its order and leaves them all.
InOrder == \A t \in Threads : Follows(Order(t), held[t], todo[t], <<>>)

LocksInv ==
    /\ timer \in Tasks
    /\ held = [t \in Threads |-> held[t]] /\ todo = [t \in Threads |-> todo[t]]
    /\ InOrder
    /\ Exclusive

LEMMA InitLocks == Init => LocksInv
<1> SUFFICES ASSUME Init PROVE LocksInv OBVIOUS
<1>1. \A t \in Threads : held[t] = <<>> /\ todo[t] = <<>> BY DEF Init
<1>2. InOrder BY <1>1, NothingHeld, NothingFollows DEF InOrder
<1>3. Exclusive BY <1>1 DEF Exclusive
<1> QED BY <1>2, <1>3 DEF LocksInv, Init, Tasks

\* A step of t changes nothing of the other threads.
LEMMA OneGoesOn ==
    ASSUME LocksInv, NEW t \in Threads, NEW h, NEW s, NEW st, Follows(Order(t), h, s, <<>>),
           held' = [held EXCEPT ![t] = h], todo' = [todo EXCEPT ![t] = s],
           timer' \in Tasks,
           \A i \in 1..Len(h) :
              \/ \E j \in 1..Len(held[t]) : h[i] = held[t][j]
              \/ \A u \in Threads \ {t} : \A j \in 1..Len(held[u]) : h[i] # held[u][j]
    PROVE  LocksInv'
<1>1. held' = [u \in Threads |-> IF u = t THEN h ELSE held[u]]
      /\ todo' = [u \in Threads |-> IF u = t THEN s ELSE todo[u]]
  BY DEF LocksInv
<1>2. InOrder' BY <1>1 DEF InOrder, LocksInv, Order
<1>3. Exclusive'
  <2> SUFFICES ASSUME NEW p \in Threads, NEW q \in Threads, p # q,
                      NEW i \in 1..Len(held'[p]), NEW j \in 1..Len(held'[q])
               PROVE  held'[p][i] # held'[q][j]
    BY DEF Exclusive
  <2>1. \A u, v \in Threads : u # v =>
            \A k \in 1..Len(held[u]), l \in 1..Len(held[v]) : held[u][k] # held[v][l]
    BY DEF LocksInv, Exclusive
  <2>2. CASE p # t /\ q # t BY <1>1, <2>1, <2>2
  <2>3. CASE p = t
    <3>1. held'[p] = h /\ held'[q] = held[q] BY <1>1, <2>3
    <3> QED BY <2>1, <2>3, <3>1
  <2>4. CASE q = t
    <3>1. held'[q] = h /\ held'[p] = held[p] BY <1>1, <2>4
    <3> QED BY <2>1, <2>4, <3>1
  <2> QED BY <2>2, <2>3, <2>4
<1> QED BY <1>1, <1>2, <1>3 DEF LocksInv

\* What t holds stays the same.
LEMMA HoldsTheSame ==
    ASSUME LocksInv, NEW t \in Threads, NEW s, Follows(Order(t), held[t], s, <<>>),
           held' = held, todo' = [todo EXCEPT ![t] = s], timer' \in Tasks
    PROVE  LocksInv'
<1>1. held' = [held EXCEPT ![t] = held[t]] BY DEF LocksInv
<1> QED BY <1>1, OneGoesOn

LEMMA NextLocks == LocksInv /\ [Next]_vars => LocksInv'
<1> SUFFICES ASSUME LocksInv, [Next]_vars PROVE LocksInv' OBVIOUS
<1>1. ASSUME NEW t \in Threads, todo[t] # <<>>, NEW kind, Does(t, kind)
      PROVE  Follows(Order(t), held[t], todo[t], <<>>) /\ Now(t).do = kind /\ Now(t) = Head(todo[t])
             /\ held[t] \in Seq(Monitors)
  BY <1>1, Holding DEF LocksInv, InOrder, Does, Now
<1>2. ASSUME NEW t \in Requests, Request(t) PROVE LocksInv'
  <2>1. PICK method \in Methods : todo' = [todo EXCEPT ![t] = method] BY <1>2 DEF Request
  <2>2. todo[t] = <<>> /\ held' = held /\ timer' = timer /\ t \in Threads
    BY <1>2 DEF Request, Threads
  <2>3. held[t] = <<>> BY <2>2, Holding DEF LocksInv, InOrder
  <2>4. Order(t) = RequestOrder BY ThreadsAssumption DEF Order
  <2>5. Follows(Order(t), held[t], method, <<>>) BY <2>3, <2>4, RequestRuns
  <2> QED BY <2>1, <2>2, <2>5, HoldsTheSame DEF LocksInv
<1>3. CASE TimerFires
  <2>1. /\ todo[Pool] = <<>> /\ held' = held /\ timer' = "none" /\ Pool \in Threads
        /\ timer # "none" /\ todo' = [todo EXCEPT ![Pool] = Task[timer]]
    BY <1>3 DEF TimerFires, Threads
  <2>2. held[Pool] = <<>> BY <2>1, Holding DEF LocksInv, InOrder
  <2>3. Follows(Order(Pool), held[Pool], Task[timer], <<>>)
    BY <2>1, <2>2, TaskRuns DEF Order, LocksInv
  <2> QED BY <2>1, <2>3, HoldsTheSame DEF Tasks
<1>4. ASSUME NEW t \in Threads, Step(t) PROVE LocksInv'
  <2>1. CASE EnterMonitor(t)
    <3> DEFINE l == Now(t).lock
    <3>1. /\ Follows(Order(t), Append(held[t], l), <<>> \o Tail(todo[t]), <<>>)
          /\ held[t] \in Seq(Monitors) /\ MayTake(Order(t), held[t], l)
      BY <2>1, <1>1, StepFollows DEF EnterMonitor, Does
    <3>2. /\ held' = [held EXCEPT ![t] = Append(held[t], l)]
          /\ todo' = [todo EXCEPT ![t] = <<>> \o Tail(todo[t])]
      BY <2>1 DEF EnterMonitor, GoesOn, LocksInv
    <3>3. \A u \in Threads \ {t} : \A j \in 1..Len(held[u]) : held[u][j] # l
      BY <2>1 DEF EnterMonitor, Free, Contains
    <3>4. l \in Monitors BY <3>1 DEF MayTake
    <3> HIDE DEF l
    <3>5. ASSUME NEW i \in 1..Len(Append(held[t], l))
          PROVE  \/ \E j \in 1..Len(held[t]) : Append(held[t], l)[i] = held[t][j]
                 \/ Append(held[t], l)[i] = l
      BY <3>1, <3>4
    <3>6. timer' \in Tasks BY <2>1 DEF EnterMonitor, LocksInv
    <3>7. \A i \in 1..Len(Append(held[t], l)) :
              \/ \E j \in 1..Len(held[t]) : Append(held[t], l)[i] = held[t][j]
              \/ \A u \in Threads \ {t} : \A j \in 1..Len(held[u]) : Append(held[t], l)[i] # held[u][j]
      BY <3>3, <3>5
    <3> DEFINE h == Append(held[t], l)
    <3> HIDE DEF h
    <3> QED BY <3>1, <3>2, <3>6, <3>7, OneGoesOn DEF h
  <2>2. CASE ExitMonitor(t)
    <3>1. /\ Follows(Order(t), Front(held[t]), <<>> \o Tail(todo[t]), <<>>)
          /\ held[t] \in Seq(Monitors) /\ held[t] # <<>>
      BY <2>2, <1>1, StepFollows DEF ExitMonitor, Does
    <3>2. /\ held' = [held EXCEPT ![t] = Front(held[t])]
          /\ todo' = [todo EXCEPT ![t] = <<>> \o Tail(todo[t])]
      BY <2>2 DEF ExitMonitor, GoesOn, LocksInv
    <3>3. \A i \in 1..Len(Front(held[t])) : \E j \in 1..Len(held[t]) : Front(held[t])[i] = held[t][j]
      BY <3>1 DEF Front
    <3>4. timer' \in Tasks BY <2>2 DEF ExitMonitor, LocksInv
    <3> QED BY <3>1, <3>2, <3>3, <3>4, OneGoesOn
  <2>3. CASE TouchMonitor(t)
    <3>1. Follows(Order(t), held[t], <<>> \o Tail(todo[t]), <<>>)
      BY <2>3, <1>1, StepFollows DEF TouchMonitor, Does
    <3>2. held' = held /\ todo' = [todo EXCEPT ![t] = <<>> \o Tail(todo[t])] /\ timer' \in Tasks
      BY <2>3 DEF TouchMonitor, GoesOn, LocksInv
    <3> QED BY <3>1, <3>2, HoldsTheSame
  <2>4. CASE ChangeState(t)
    <3>1. Follows(Order(t), held[t], <<>> \o Tail(todo[t]), <<>>)
      BY <2>4, <1>1, StepFollows DEF ChangeState, Does
    <3>2. held' = held /\ todo' = [todo EXCEPT ![t] = <<>> \o Tail(todo[t])] /\ timer' \in Tasks
      BY <2>4 DEF ChangeState, GoesOn, LocksInv
    <3> QED BY <3>1, <3>2, HoldsTheSame
  <2>5. CASE ChangeTimer(t)
    <3>1. Follows(Order(t), held[t], <<>> \o Tail(todo[t]), <<>>) /\ Now(t).task \in Tasks
      BY <2>5, <1>1, StepFollows DEF ChangeTimer, Does
    <3>2. held' = held /\ todo' = [todo EXCEPT ![t] = <<>> \o Tail(todo[t])] /\ timer' \in Tasks
      BY <2>5, <3>1 DEF ChangeTimer, GoesOn, LocksInv
    <3> QED BY <3>1, <3>2, HoldsTheSame
  <2>6. ASSUME NEW way, GoesOn(t, way), UNCHANGED <<state, timer, held>>,
               Follows(Order(t), held[t], way \o Tail(todo[t]), <<>>)
        PROVE  LocksInv'
    <3>1. held' = held /\ todo' = [todo EXCEPT ![t] = way \o Tail(todo[t])] /\ timer' \in Tasks
      BY <2>6 DEF GoesOn, LocksInv
    <3> QED BY <3>1, <2>6, HoldsTheSame
  <2>7. CASE Branch(t)
    <3>1. CASE Does(t, "when") /\ GoesOn(t, IF state \in Now(t).states THEN Now(t).yes ELSE Now(t).no)
      <4>1. /\ Follows(Order(t), held[t], Now(t).yes \o Tail(todo[t]), <<>>)
            /\ Follows(Order(t), held[t], Now(t).no \o Tail(todo[t]), <<>>)
        BY <3>1, <1>1, StepFollows DEF Does
      <4>2. GoesOn(t, Now(t).yes) \/ GoesOn(t, Now(t).no) BY <3>1
      <4>3. UNCHANGED <<state, timer, held>> BY <2>7 DEF Branch
      <4> QED BY <4>1, <4>2, <4>3, <2>6
    <3>2. CASE Does(t, "either") /\ (GoesOn(t, Now(t).one) \/ GoesOn(t, Now(t).other))
      <4>1. /\ Follows(Order(t), held[t], Now(t).one \o Tail(todo[t]), <<>>)
            /\ Follows(Order(t), held[t], Now(t).other \o Tail(todo[t]), <<>>)
        BY <3>2, <1>1, StepFollows DEF Does
      <4>2. UNCHANGED <<state, timer, held>> BY <2>7 DEF Branch
      <4> QED BY <3>2, <4>1, <4>2, <2>6
    <3> QED BY <2>7, <3>1, <3>2 DEF Branch
  <2> QED BY <1>4, <2>1, <2>2, <2>3, <2>4, <2>5, <2>7 DEF Step
<1>5. CASE UNCHANGED vars
  BY <1>5 DEF vars, LocksInv, InOrder, Exclusive, Order
<1> QED BY <1>2, <1>3, <1>4, <1>5 DEF Next

-----------------------------------------------------------------------------

\* Whatever number of requests are served at once, and whatever of the timer's tasks runs,
\* a monitor is held by one thread, is taken in the orders of the methods, and left.
THEOREM OrdersKept == Spec => []LocksInv
<1> QED BY InitLocks, NextLocks, PTL DEF Spec

\* Threads that wait for each other take one of three pairs of monitors in opposite orders,
\* whatever number of requests are served at once: the other nestings of Game.java agree.
THEOREM NoOtherPairs == Spec => []ThreePairs
<1>1. LocksInv => ThreePairs
  <2> SUFFICES ASSUME LocksInv, NEW t \in Threads, NEW u \in Threads, t # u,
                      WaitsFor(t, u), WaitsFor(u, t)
               PROVE  {Now(t).lock, Now(u).lock} \in
                          {{"roundPlayers", "players"}, {"blackCardLock", "playedCards"},
                           {"roundPlayers", "playedCards"}}
    BY DEF ThreePairs, WaitForEachOther
  <2>1. ASSUME NEW p \in Threads, NEW q \in Threads, WaitsFor(p, q)
        PROVE  /\ \E i \in 1..Len(held[q]) : held[q][i] = Now(p).lock
               /\ \A i \in 1..Len(held[p]) :
                    held[p][i] = Now(p).lock \/ <<held[p][i], Now(p).lock>> \in Order(p)
    <3>1. Follows(Order(p), held[p], todo[p], <<>>) BY DEF LocksInv, InOrder
    <3>2. todo[p] # <<>> /\ Head(todo[p]).do \in {"enter", "touch"} BY <2>1 DEF WaitsFor, Does
    <3>3. MayTake(Order(p), held[p], Now(p).lock) BY <3>1, <3>2, StepFollows DEF Now
    <3> QED BY <2>1, <3>3 DEF MayTake, WaitsFor, Contains
  <2>2. PICK i \in 1..Len(held[t]) : held[t][i] = Now(u).lock BY <2>1
  <2>3. PICK j \in 1..Len(held[u]) : held[u][j] = Now(t).lock BY <2>1
  <2>4. Now(t).lock # Now(u).lock BY <2>2, <2>3 DEF LocksInv, Exclusive
  <2>5. <<Now(u).lock, Now(t).lock>> \in Order(t) /\ <<Now(t).lock, Now(u).lock>> \in Order(u)
    BY <2>1, <2>2, <2>3, <2>4
  <2>6. Order(t) = RequestOrder \/ Order(u) = RequestOrder BY DEF Order
  <2>7. Order(t) \in {RequestOrder, PoolOrder} /\ Order(u) \in {RequestOrder, PoolOrder} BY DEF Order
  <2>8. \A k, l : <<k, l>> \in RequestOrder /\ <<l, k>> \in RequestOrder \cup PoolOrder =>
            {k, l} \in {{"roundPlayers", "players"}, {"blackCardLock", "playedCards"},
                        {"roundPlayers", "playedCards"}}
    BY DEF RequestOrder, PoolOrder, AllOrder
  <2>9. CASE Order(t) = RequestOrder
    <3>1. <<Now(u).lock, Now(t).lock>> \in RequestOrder BY <2>5, <2>9
    <3>2. <<Now(t).lock, Now(u).lock>> \in RequestOrder \cup PoolOrder BY <2>5, <2>7
    <3>3. {Now(u).lock, Now(t).lock} = {Now(t).lock, Now(u).lock} OBVIOUS
    <3> QED BY <3>1, <3>2, <3>3, <2>8
  <2>10. CASE Order(u) = RequestOrder
    <3>1. <<Now(t).lock, Now(u).lock>> \in RequestOrder BY <2>5, <2>10
    <3>2. <<Now(u).lock, Now(t).lock>> \in RequestOrder \cup PoolOrder BY <2>5, <2>7
    <3> QED BY <3>1, <3>2, <2>8
  <2> QED BY <2>6, <2>9, <2>10
<1> QED BY <1>1, OrdersKept, PTL
=============================================================================
