--------------------------- MODULE LongPollProofs ---------------------------
(***************************************************************************)
(* The message queue, the servlet and the poll loop of LongPoll implement  *)
(* what Delivery promises, for any number of events, of messages in an     *)
(* answer and of failed polls.                                             *)
(***************************************************************************)
EXTENDS LongPoll, SequenceTheorems, TLAPS

\* The events that the server queues, and the answers without events.
Queued == [n : Nat \ {0}, kind : {"news", "chat", "idle", "kicked"}]

Bare == [n : {0}, kind : {"NOT_REGISTERED", "SESSION_EXPIRED", "NOOP"}]

TypeOK ==
    /\ queue \in Seq(Queued)
    /\ sent \in Nat /\ cuts \in Nat /\ strays \in Nat
    /\ user \in {"valid", "leaving", "gone", "none"}
    /\ loop \in {"asked", "waiting", "answered", "handling", "pausing", "stopped"}
    /\ page \in [resume : BOOLEAN, open : BOOLEAN, got : Seq(Nat), ok : BOOLEAN]
    /\ reply \in Seq(Queued) \/ \E e \in Bare : reply = <<e>>

\* Something is under way to the page exactly while its loop says so, a thread
\* without a listener comes from a poll that failed, and a page whose handler
\* has thrown polls no more.
LInv ==
    /\ TypeOK
    /\ loop \in {"answered", "handling"} <=> reply # <<>>
    /\ strays > 0 => cuts > 0
    /\ page.ok \/ loop = "stopped"

-----------------------------------------------------------------------------
(***************************************************************************)
(* The invariant.                                                          *)
(***************************************************************************)
\* What an answer takes and what it leaves are the two parts of the queue.
LEMMA TakenAndLeft ==
    ASSUME NEW q \in Seq(Queued)
    PROVE  /\ Taken(q) \in Seq(Queued) /\ Left(q) \in Seq(Queued)
           /\ Len(Taken(q)) \in 0..Len(q)
           /\ q # <<>> => Taken(q) # <<>>
           /\ Len(Left(q)) = Len(q) - Len(Taken(q))
           /\ \A i \in 1..Len(Taken(q)) : Taken(q)[i] = q[i]
           /\ \A i \in 1..Len(Left(q)) : Left(q)[i] = q[i + Len(Taken(q))]
<1> DEFINE t == IF Len(q) > PerPoll THEN PerPoll ELSE Len(q)
<1>1. t \in 0..Len(q) /\ (q # <<>> => t # 0)
  BY BoundsAssumption, EmptySeq
<1>2. Taken(q) = SubSeq(q, 1, t)
  BY DEF Taken
<1>3. /\ Taken(q) \in Seq(Queued) /\ Len(Taken(q)) = t
      /\ \A i \in 1..Len(Taken(q)) : Taken(q)[i] = q[i]
  <2> HIDE DEF t
  <2> QED
    BY <1>1, <1>2
<1>4. Left(q) = SubSeq(q, t + 1, Len(q))
  BY <1>3 DEF Left
<1>5. /\ Left(q) \in Seq(Queued) /\ Len(Left(q)) = Len(q) - t
      /\ \A i \in 1..Len(Left(q)) : Left(q)[i] = q[i + t]
  <2> HIDE DEF t
  <2> QED
    BY <1>1, <1>4
<1> HIDE DEF t
<1> QED
  BY <1>1, <1>3, <1>5

\* Queueing an event keeps the queue a sequence of events.
LEMMA QueuedEvent ==
    ASSUME TypeOK, NEW kind \in {"news", "chat", "idle", "kicked"}, Enqueue(kind)
    PROVE  queue' \in Seq(Queued) /\ sent' \in Nat
<1>1. Event(sent + 1, kind) \in Queued
  BY DEF TypeOK, Event, Queued
<1> QED
  BY <1>1 DEF TypeOK, Enqueue

\* A handler leaves a page, and a page that has thrown has thrown.
LEMMA HandledPage ==
    ASSUME TypeOK, NEW e \in Queued \cup Bare
    PROVE  /\ Handled(page, e) \in [resume : BOOLEAN, open : BOOLEAN, got : Seq(Nat), ok : BOOLEAN]
           /\ Handled(page, e).ok => page.ok
<1>1. page.got \in Seq(Nat) /\ e.n \in Nat
  BY DEF TypeOK, Queued, Bare
<1>2. Append(page.got, e.n) \in Seq(Nat)
  BY <1>1
<1> QED
  BY <1>1, <1>2 DEF TypeOK, Handled

\* The next event of an answer, and the rest.
LEMMA Remainder ==
    ASSUME TypeOK, reply # <<>>
    PROVE  \/ /\ reply \in Seq(Queued) /\ Head(reply) \in Queued /\ Tail(reply) \in Seq(Queued)
              /\ Len(Tail(reply)) = Len(reply) - 1 /\ Len(reply) \in Nat \ {0}
              /\ reply[1] = Head(reply)
              /\ \A i \in 1..Len(Tail(reply)) : Tail(reply)[i] = reply[i + 1]
           \/ Head(reply) \in Bare /\ Tail(reply) = <<>>
<1>1. CASE reply \in Seq(Queued)
  BY <1>1
<1>2. CASE \E e \in Bare : reply = <<e>>
  BY <1>2
<1> QED
  BY <1>1, <1>2 DEF TypeOK

LEMMA InvInit == Init => LInv
BY DEF Init, LInv, TypeOK

LEMMA InvStep == LInv /\ [Next]_vars => LInv'
<1> SUFFICES ASSUME LInv, [Next]_vars
             PROVE  LInv'
  OBVIOUS
<1> USE DEF LInv
<1>1. CASE News
  <2>1. queue' \in Seq(Queued) /\ sent' \in Nat
    BY <1>1, QueuedEvent DEF News
  <2> QED
    BY <1>1, <2>1 DEF News, TypeOK
<1>2. CASE Chat
  <2>1. queue' \in Seq(Queued) /\ sent' \in Nat
    BY <1>2, QueuedEvent DEF Chat
  <2> QED
    BY <1>2, <2>1 DEF Chat, TypeOK
<1>3. CASE KickedFromGame
  <2>1. queue' \in Seq(Queued) /\ sent' \in Nat
    BY <1>3, QueuedEvent DEF KickedFromGame
  <2> QED
    BY <1>3, <2>1 DEF KickedFromGame, TypeOK
<1>4. CASE Kick
  <2>1. queue' \in Seq(Queued) /\ sent' \in Nat
    BY <1>4, QueuedEvent DEF Kick
  <2> QED
    BY <1>4, <2>1 DEF Kick, TypeOK
<1>5. CASE KickEnds \/ TimesOut
  BY <1>5 DEF KickEnds, TimesOut, RemoveUser, TypeOK
<1>6. CASE Restart
  BY <1>6 DEF Restart, Completed, TypeOK
<1>7. CASE Admit
  <2>1. CASE InService
    BY <1>7, <2>1 DEF Admit, Expired, TypeOK
  <2>2. CASE ~InService
    <3>1. PICK e \in Bare : reply' = <<e>>
      BY <1>7, <2>2 DEF Admit, Single, Event, Bare
    <3>2. reply' # <<>>
      BY <3>1
    <3> QED
      BY <1>7, <2>2, <3>1, <3>2 DEF Admit, Expired, TypeOK
  <2> QED
    BY <2>1, <2>2
<1>8. CASE Answer
  <2>1. reply' \in Seq(Queued) /\ reply' # <<>> /\ queue' \in Seq(Queued)
    BY <1>8, TakenAndLeft DEF Answer, TypeOK
  <2> QED
    BY <1>8, <2>1 DEF Answer, TypeOK
<1>9. CASE NoNews
  <2>1. PICK e \in Bare : reply' = <<e>>
    BY <1>9 DEF NoNews, Single, Event, Bare
  <2>2. reply' # <<>>
    BY <2>1
  <2> QED
    BY <1>9, <2>1, <2>2 DEF NoNews, TypeOK
<1>10. CASE Handle
  <2> DEFINE p == Handled(page, Head(reply))
  <2>1. reply # <<>>
    BY <1>10 DEF Handle
  <2>2. Head(reply) \in Queued \cup Bare /\ (Tail(reply) \in Seq(Queued) \/ Tail(reply) = <<>>)
    BY <2>1, Remainder
  <2>3. p \in [resume : BOOLEAN, open : BOOLEAN, got : Seq(Nat), ok : BOOLEAN]
    BY <2>2, HandledPage
  <2>4. /\ page' = p
        /\ reply' = IF p.ok THEN Tail(reply) ELSE <<>>
        /\ loop' = CASE ~p.ok -> "stopped"
                     [] p.ok /\ Tail(reply) # <<>> -> "handling"
                     [] OTHER -> Completed(p)
    BY <1>10 DEF Handle
  <2> HIDE DEF p
  <2>5. loop' \in {"handling", "pausing", "stopped"}
        /\ (loop' = "handling" <=> reply' # <<>>) /\ (p.ok \/ loop' = "stopped")
    BY <2>3, <2>4 DEF Completed
  <2>6. reply' \in Seq(Queued)
    <3>1. <<>> \in Seq(Queued)
      BY EmptySeq
    <3>2. Tail(reply) \in Seq(Queued)
      BY <2>2, <3>1
    <3> QED
      BY <2>4, <3>1, <3>2
  <2> QED
    BY <1>10, <2>3, <2>4, <2>5, <2>6 DEF Handle, TypeOK
<1>11. CASE Fail
  BY <1>11 DEF Fail, Completed, TypeOK
<1>12. CASE StrayAnswers
  <2>1. queue' \in Seq(Queued)
    BY <1>12, TakenAndLeft DEF StrayAnswers, TypeOK
  <2> QED
    BY <1>12, <2>1 DEF StrayAnswers, TypeOK
<1>13. CASE Timer
  BY <1>13 DEF Timer, TypeOK
<1>14. CASE Ask
  BY <1>14 DEF Ask, TypeOK
<1>15. CASE Serve
  BY <1>15 DEF Serve, Expired, TypeOK
<1>16. CASE Learn
  BY <1>16 DEF Learn, TypeOK
<1>17. CASE UNCHANGED vars
  BY <1>17 DEF vars, TypeOK
<1> QED
  BY <1>1, <1>2, <1>3, <1>4, <1>5, <1>6, <1>7, <1>8, <1>9, <1>10, <1>11, <1>12, <1>13,
     <1>14, <1>15, <1>16, <1>17 DEF Next

-----------------------------------------------------------------------------
(***************************************************************************)
(* The events on their way, one by one.                                    *)
(***************************************************************************)
\* An answer without events has none, any other those it consists of.
LEMMA AnswerEvents ==
    ASSUME NEW r, r \in Seq(Queued) \/ \E e \in Bare : r = <<e>>
    PROVE  /\ Events(r) \in Seq(Queued)
           /\ r \in Seq(Queued) => Events(r) = r
           /\ r # <<>> /\ Head(r) \in Bare => Events(r) = <<>>
<1>1. CASE r \in Seq(Queued)
  <2>1. r # <<>> => Head(r) \in Queued
    BY <1>1
  <2>2. r # <<>> => Head(r).n # 0
    BY <2>1 DEF Queued
  <2>3. r # <<>> => Head(r) \notin Bare
    BY <2>2 DEF Bare
  <2> QED
    BY <1>1, <2>2, <2>3 DEF Events
<1>2. CASE \E e \in Bare : r = <<e>>
  <2>1. r # <<>> /\ Head(r).n = 0
    BY <1>2 DEF Bare
  <2>2. Events(r) = <<>>
    BY <2>1 DEF Events
  <2>3. r \notin Seq(Queued)
    <3>1. SUFFICES ASSUME r \in Seq(Queued) PROVE FALSE
      OBVIOUS
    <3>2. Head(r) \in Queued
      BY <2>1, <3>1
    <3> QED
      BY <2>1, <3>2 DEF Queued
  <2>4. <<>> \in Seq(Queued)
    BY EmptySeq
  <2> QED
    BY <2>2, <2>3, <2>4
<1> QED
  BY <1>1, <1>2

\* The numbers of one sequence of events after another.
LEMMA NumbersOf ==
    ASSUME NEW r \in Seq(Queued), NEW q \in Seq(Queued)
    PROVE  /\ Numbers(r \o q) \in Seq(Nat)
           /\ Len(Numbers(r \o q)) = Len(r) + Len(q)
           /\ \A i \in 1..Len(r) : Numbers(r \o q)[i] = r[i].n
           /\ \A i \in 1..Len(q) : Numbers(r \o q)[Len(r) + i] = q[i].n
<1> DEFINE s == r \o q
<1>1. /\ s \in Seq(Queued) /\ Len(s) = Len(r) + Len(q)
      /\ \A i \in 1..Len(r) : s[i] = r[i]
      /\ \A i \in 1..Len(q) : s[Len(r) + i] = q[i]
  BY ConcatProperties
<1> HIDE DEF s
<1>2. /\ Len(s) \in Nat /\ DOMAIN s = 1..Len(s) /\ \A i \in 1..Len(s) : s[i] \in Queued
      /\ Len(r) \in Nat /\ Len(q) \in Nat
  BY <1>1
<1>3. Numbers(s) \in [1..Len(s) -> Nat]
  BY <1>2 DEF Numbers, Queued
<1>4. Numbers(s) \in Seq(Nat) /\ Len(Numbers(s)) = Len(s)
  BY <1>2, <1>3
<1>5. \A i \in 1..Len(s) : Numbers(s)[i] = s[i].n
  BY <1>2 DEF Numbers
<1>6. /\ \A i \in 1..Len(r) : i \in 1..Len(s)
      /\ \A i \in 1..Len(q) : Len(r) + i \in 1..Len(s)
  BY <1>1, <1>2
<1> QED
  BY <1>1, <1>4, <1>5, <1>6 DEF s

\* The events on their way are those of the answer and those of the queue.
LEMMA TransitOf ==
    ASSUME NEW r, NEW q \in Seq(Queued), r \in Seq(Queued) \/ \E e \in Bare : r = <<e>>
    PROVE  /\ Events(r) \in Seq(Queued) /\ Len(Events(r)) \in Nat /\ Len(q) \in Nat
           /\ Numbers(Events(r) \o q) \in Seq(Nat)
           /\ Len(Numbers(Events(r) \o q)) = Len(Events(r)) + Len(q)
           /\ \A i \in 1..Len(Events(r)) : Numbers(Events(r) \o q)[i] = Events(r)[i].n
           /\ \A i \in 1..Len(q) : Numbers(Events(r) \o q)[Len(Events(r)) + i] = q[i].n
<1>1. Events(r) \in Seq(Queued)
  BY AnswerEvents
<1> QED
  BY <1>1, NumbersOf

LEMMA Transit ==
    ASSUME TypeOK
    PROVE  /\ Events(reply) \in Seq(Queued) /\ Len(Events(reply)) \in Nat /\ Len(queue) \in Nat
           /\ InTransit \in Seq(Nat)
           /\ Len(InTransit) = Len(Events(reply)) + Len(queue)
           /\ \A i \in 1..Len(Events(reply)) : InTransit[i] = Events(reply)[i].n
           /\ \A i \in 1..Len(queue) : InTransit[Len(Events(reply)) + i] = queue[i].n
BY TransitOf DEF TypeOK, InTransit

\* The same after a step.
LEMMA TransitThen ==
    ASSUME TypeOK'
    PROVE  /\ Events(reply') \in Seq(Queued) /\ Len(Events(reply')) \in Nat /\ Len(queue') \in Nat
           /\ InTransit' \in Seq(Nat)
           /\ Len(InTransit') = Len(Events(reply')) + Len(queue')
           /\ \A i \in 1..Len(Events(reply')) : InTransit'[i] = Events(reply')[i].n
           /\ \A i \in 1..Len(queue') : InTransit'[Len(Events(reply')) + i] = queue'[i].n
BY TransitOf DEF TypeOK, InTransit

-----------------------------------------------------------------------------
(***************************************************************************)
(* What a step may do to them.                                             *)
(***************************************************************************)
\* A place in two sequences, one after the other, is a place in one of them.
LEMMA TwoParts ==
    ASSUME NEW a \in Nat, NEW b \in Nat, NEW i \in 1..(a + b)
    PROVE  i \in 1..a \/ \E j \in 1..b : i = a + j
<1>1. CASE i <= a
  BY <1>1
<1>2. CASE ~(i <= a)
  <2>1. i - a \in 1..b /\ i = a + (i - a)
    BY <1>2
  <2> QED
    BY <2>1
<1> QED
  BY <1>1, <1>2

\* Moving the numbers above a up by d keeps their order.
LEMMA Shifted ==
    ASSUME NEW n, NEW a \in Nat, NEW d \in Nat, NEW i \in 1..n, NEW j \in 1..n, n \in Nat, i < j
    PROVE  (IF i <= a THEN i ELSE i + d) < (IF j <= a THEN j ELSE j + d)
OBVIOUS

\* A sequence from which d neighbours are taken out, after the first a, is thinned.
LEMMA CutOut ==
    ASSUME NEW s \in Seq(Nat), NEW t \in Seq(Nat), NEW a \in Nat, NEW d \in Nat, NEW b \in Nat,
           Len(t) = a + b, Len(s) = a + d + b,
           \A i \in 1..a : t[i] = s[i],
           \A i \in 1..b : t[a + i] = s[a + d + i]
    PROVE  D!Thinned(s, t)
<1> DEFINE place == [i \in 1..Len(t) |-> IF i <= a THEN i ELSE i + d]
<1>1. place \in [1..Len(t) -> 1..Len(s)]
  OBVIOUS
<1>2. \A i, j \in 1..Len(t) : i < j => place[i] < place[j]
  BY Shifted
<1>3. ASSUME NEW i \in 1..Len(t) PROVE t[i] = s[place[i]]
  <2>1. CASE i \in 1..a
    BY <2>1
  <2>2. ASSUME NEW j \in 1..b, i = a + j PROVE t[i] = s[place[i]]
    <3>1. place[i] = a + d + j
      BY <2>2
    <3> QED
      BY <2>2, <3>1
  <2> QED
    BY <2>1, <2>2, TwoParts
<1> HIDE DEF place
<1> QED
  BY <1>1, <1>2, <1>3 DEF D!Thinned

\* Something has gone wrong.
Lossy == cuts > 0 \/ ~InService \/ ~page.ok

\* Nothing is handled, and some neighbours among the events on their way get lost.
LEMMA SomeLost ==
    ASSUME TypeOK, TypeOK', page'.got = page.got, Lossy',
           NEW a \in Nat, NEW d \in Nat, NEW b \in Nat,
           Len(InTransit') = a + b, Len(InTransit) = a + d + b,
           \A i \in 1..a : InTransit'[i] = InTransit[i],
           \A i \in 1..b : InTransit'[a + i] = InTransit[a + d + i]
    PROVE  D!Deliver
<1>1. InTransit \in Seq(Nat) /\ InTransit' \in Seq(Nat)
  BY Transit, TransitThen
<1>2. page.got \in Seq(Nat)
  BY DEF TypeOK
<1>3. SubSeq(InTransit, 0 + 1, Len(InTransit)) = InTransit /\ SubSeq(InTransit, 1, 0) = <<>>
  BY <1>1
<1>4. page'.got = page.got \o SubSeq(InTransit, 1, 0)
  BY <1>2, <1>3, ConcatEmptySeq
<1>5. D!Thinned(InTransit, InTransit')
  BY <1>1, CutOut
<1>6. 0 \in 0..Len(InTransit)
  BY <1>1
<1> QED
  BY <1>3, <1>4, <1>5, <1>6 DEF D!Deliver, Lossy

\* The page handles the first of the events on their way.
LEMMA FirstHandled ==
    ASSUME TypeOK, TypeOK', page'.got = Append(page.got, InTransit[1]),
           NEW b \in Nat, Len(InTransit') = b, Len(InTransit) = b + 1,
           \A i \in 1..b : InTransit'[i] = InTransit[i + 1]
    PROVE  D!Deliver
<1>1. InTransit \in Seq(Nat) /\ InTransit' \in Seq(Nat)
  BY Transit, TransitThen
<1>2. page.got \in Seq(Nat)
  BY DEF TypeOK
<1> DEFINE rest == SubSeq(InTransit, 1 + 1, Len(InTransit))
           first == SubSeq(InTransit, 1, 1)
<1>3. /\ rest \in Seq(Nat) /\ Len(rest) = b
      /\ \A i \in 1..b : rest[i] = InTransit[i + 1]
  <2>1. rest = SubSeq(InTransit, 2, b + 1)
    OBVIOUS
  <2>2. \A i \in 1..(b + 1) : InTransit[i] \in Nat
    BY <1>1
  <2> QED
    BY <1>1, <2>1, <2>2
<1>4. first \in Seq(Nat) /\ Len(first) = 1 /\ first[1] = InTransit[1]
  BY <1>1
<1>5. InTransit[1] \in Nat
  BY <1>1
<1> HIDE DEF rest, first
<1>6. InTransit' = rest
  BY <1>1, <1>3, SeqEqual
<1>7. page'.got = page.got \o first
  <2>1. first = <<InTransit[1]>>
    BY <1>4
  <2> QED
    BY <1>2, <1>5, <2>1, AppendIsConcat
<1>8. D!Thinned(rest, InTransit')
  <2>1. 0 \in Nat /\ Len(InTransit') = b + 0 /\ Len(rest) = b + 0 + 0
    BY <1>3
  <2>2. \A i \in 1..b : InTransit'[i] = rest[i]
    BY <1>6
  <2>3. \A i \in 1..0 : InTransit'[b + i] = rest[b + 0 + i]
    OBVIOUS
  <2> QED
    BY <1>1, <1>3, <2>1, <2>2, <2>3, CutOut
<1>9. 1 \in 0..Len(InTransit)
  BY <1>1
<1> QED
  BY <1>6, <1>7, <1>8, <1>9 DEF D!Deliver, rest, first

\* A step that leaves the events on their way where they are.
LEMMA NoneMoved ==
    ASSUME Events(reply') = Events(reply), queue' = queue
    PROVE  InTransit' = InTransit
BY DEF InTransit

-----------------------------------------------------------------------------
(***************************************************************************)
(* Every step of LongPoll is one of Delivery, or none.                     *)
(***************************************************************************)
\* What has gone wrong stays so.
LEMMA StaysLossy ==
    ASSUME LInv, LInv', [Next]_vars, Lossy
    PROVE  Lossy'
<1> USE DEF LInv, Lossy, InService
<1>1. CASE News \/ Chat \/ KickedFromGame \/ Kick
  BY <1>1 DEF News, Chat, KickedFromGame, Kick
<1>2. CASE KickEnds \/ TimesOut \/ Restart
  BY <1>2 DEF KickEnds, TimesOut, RemoveUser, Restart
<1>3. CASE Admit \/ Answer \/ NoNews \/ Timer \/ Ask \/ Serve
  BY <1>3 DEF Admit, Answer, NoNews, Timer, Ask, Serve, Expired
<1>4. CASE Handle
  <2>1. ~page.ok => loop = "stopped"
    OBVIOUS
  <2> QED
    BY <1>4, <2>1 DEF Handle
<1>5. CASE Fail \/ StrayAnswers
  BY <1>5 DEF Fail, StrayAnswers, TypeOK
<1>6. CASE Learn
  BY <1>6 DEF Learn, TypeOK
<1>7. CASE UNCHANGED vars
  BY <1>7 DEF vars
<1> QED
  BY <1>1, <1>2, <1>3, <1>4, <1>5, <1>6, <1>7 DEF Next

\* An event is queued behind those on their way.
LEMMA EnqueueStep ==
    ASSUME TypeOK, TypeOK', NEW kind \in {"news", "chat", "idle", "kicked"}, Enqueue(kind),
           reply' = reply, page' = page
    PROVE  D!Send
<1> DEFINE r == Events(reply)
<1>1. /\ Len(r) \in Nat /\ Len(queue) \in Nat
      /\ InTransit \in Seq(Nat) /\ Len(InTransit) = Len(r) + Len(queue)
      /\ \A i \in 1..Len(r) : InTransit[i] = r[i].n
      /\ \A i \in 1..Len(queue) : InTransit[Len(r) + i] = queue[i].n
  BY Transit
<1>2. /\ InTransit' \in Seq(Nat) /\ Len(InTransit') = Len(r) + Len(queue')
      /\ \A i \in 1..Len(r) : InTransit'[i] = r[i].n
      /\ \A i \in 1..Len(queue') : InTransit'[Len(r) + i] = queue'[i].n
  BY TransitThen
<1> HIDE DEF r
<1>3. queue \in Seq(Queued) /\ queue' = Append(queue, Event(sent + 1, kind))
  BY DEF TypeOK, Enqueue
<1>4. Len(queue') = Len(queue) + 1 /\ \A i \in 1..Len(queue) : queue'[i] = queue[i]
  BY <1>3
<1>5. Len(InTransit') = Len(InTransit) + 1
  BY <1>1, <1>2, <1>4
<1>6. ASSUME NEW i \in 1..Len(InTransit) PROVE InTransit'[i] = InTransit[i]
  <2>1. CASE i \in 1..Len(r)
    BY <1>1, <1>2, <2>1
  <2>2. ASSUME NEW j \in 1..Len(queue), i = Len(r) + j PROVE InTransit'[i] = InTransit[i]
    <3>1. j \in 1..Len(queue')
      BY <1>1, <1>4
    <3> QED
      BY <1>1, <1>2, <1>4, <2>2, <3>1
  <2>3. i \in 1..Len(r) \/ \E j \in 1..Len(queue) : i = Len(r) + j
    <3>1. i \in 1..(Len(r) + Len(queue))
      BY <1>1
    <3> QED
      BY <1>1, <3>1, TwoParts, Zenon
  <2> QED
    BY <2>1, <2>2, <2>3
<1>7. D!IsPrefix(InTransit, InTransit')
  <2>1. SubSeq(InTransit', 1, Len(InTransit)) = InTransit
    BY <1>1, <1>2, <1>5, <1>6, SeqEqual
  <2> QED
    BY <1>1, <1>5, <2>1 DEF D!IsPrefix
<1> QED
  BY <1>5, <1>7 DEF D!Send

\* The user is removed: from now on events may get lost, none is yet.
LEMMA RemoveUserStep ==
    ASSUME TypeOK, TypeOK', RemoveUser
    PROVE  D!Deliver
<1>1. InTransit' = InTransit
  BY NoneMoved DEF RemoveUser
<1>2. InTransit \in Seq(Nat)
  BY Transit
<1>3. page'.got = page.got /\ Lossy'
  BY DEF RemoveUser, Lossy, InService
<1> DEFINE b == Len(InTransit)
<1>4. 0 \in Nat /\ b \in Nat /\ Len(InTransit') = 0 + b /\ Len(InTransit) = 0 + 0 + b
  BY <1>1, <1>2
<1>5. \A i \in 1..0 : InTransit'[i] = InTransit[i]
  BY <1>1
<1>6. \A i \in 1..b : InTransit'[0 + i] = InTransit[0 + 0 + i]
  BY <1>1, <1>4
<1> HIDE DEF b
<1> QED
  BY <1>3, <1>4, <1>5, <1>6, SomeLost

\* A restart takes the queue, and leaves the answer that is under way.
LEMMA RestartStep ==
    ASSUME TypeOK, TypeOK', Restart
    PROVE  D!Deliver
<1> DEFINE r == Events(reply)
<1>1. page'.got = page.got /\ Lossy'
  BY DEF Restart, Lossy, InService
<1>2. /\ Len(r) \in Nat /\ Len(queue) \in Nat
      /\ InTransit \in Seq(Nat) /\ Len(InTransit) = Len(r) + Len(queue)
      /\ \A i \in 1..Len(r) : InTransit[i] = r[i].n
  BY Transit
<1>3. /\ InTransit' \in Seq(Nat) /\ Len(InTransit') = Len(r) + 0
      /\ \A i \in 1..Len(r) : InTransit'[i] = r[i].n
  BY TransitThen DEF Restart
<1> HIDE DEF r
<1>4. 0 \in Nat /\ Len(InTransit) = Len(r) + Len(queue) + 0
  BY <1>2
<1>5. \A i \in 1..Len(r) : InTransit'[i] = InTransit[i]
  BY <1>2, <1>3
<1>6. \A i \in 1..0 : InTransit'[Len(r) + i] = InTransit[Len(r) + Len(queue) + i]
  OBVIOUS
<1> QED
  BY <1>1, <1>2, <1>3, <1>4, <1>5, <1>6, SomeLost

\* The answer gets lost, as a whole.
LEMMA AnswerLost ==
    ASSUME TypeOK, TypeOK', Lossy', page'.got = page.got, reply' = <<>>, queue' = queue
    PROVE  D!Deliver
<1> DEFINE r == Events(reply)
<1>1. /\ Len(r) \in Nat /\ Len(queue) \in Nat
      /\ InTransit \in Seq(Nat) /\ Len(InTransit) = Len(r) + Len(queue)
      /\ \A i \in 1..Len(queue) : InTransit[Len(r) + i] = queue[i].n
  BY Transit
<1>2. Events(reply') = <<>>
  BY DEF Events
<1>3. /\ Len(InTransit') = 0 + Len(queue)
      /\ \A i \in 1..Len(queue) : InTransit'[0 + i] = queue[i].n
  BY <1>2, TransitThen
<1> HIDE DEF r
<1>4. 0 \in Nat /\ Len(InTransit) = 0 + Len(r) + Len(queue) /\ 0 + Len(r) = Len(r)
  BY <1>1
<1>5. \A i \in 1..0 : InTransit'[i] = InTransit[i]
  OBVIOUS
<1>6. \A i \in 1..Len(queue) : InTransit'[0 + i] = InTransit[0 + Len(r) + i]
  BY <1>1, <1>3, <1>4
<1> QED
  BY <1>1, <1>3, <1>4, <1>5, <1>6, SomeLost

\* A poll is admitted, or turned away with an answer without events.
LEMMA AdmitStep ==
    ASSUME LInv, Admit
    PROVE  InTransit' = InTransit /\ page' = page /\ Lossy' = Lossy
<1>1. reply = <<>>
  BY DEF LInv, Admit
<1>2. Events(reply') = <<>> /\ Events(reply) = <<>>
  BY <1>1 DEF Admit, Events, Single, Event
<1>3. InTransit' = InTransit /\ page' = page
  BY <1>2, NoneMoved DEF Admit
<1> QED
  BY <1>3 DEF Admit, Expired, Lossy, InService

\* The poll that waits has no news.
LEMMA NoNewsStep ==
    ASSUME LInv, NoNews
    PROVE  InTransit' = InTransit /\ page' = page /\ Lossy' = Lossy
<1>1. reply = <<>>
  BY DEF LInv, NoNews
<1>2. Events(reply') = <<>> /\ Events(reply) = <<>>
  BY <1>1 DEF NoNews, Events, Single, Event
<1>3. InTransit' = InTransit /\ page' = page
  BY <1>2, NoneMoved DEF NoNews
<1> QED
  BY <1>3 DEF NoNews, Lossy, InService

\* The oldest messages move from the queue into the answer.
LEMMA AnswerStep ==
    ASSUME LInv, LInv', Answer
    PROVE  InTransit' = InTransit /\ page' = page /\ Lossy' = Lossy
<1> DEFINE t == Taken(queue)
           l == Left(queue)
<1>1. TypeOK /\ TypeOK' /\ reply = <<>> /\ reply' = t /\ queue' = l
  BY DEF LInv, Answer
<1>2. /\ t \in Seq(Queued) /\ l \in Seq(Queued) /\ Len(t) \in 0..Len(queue)
      /\ Len(l) = Len(queue) - Len(t)
      /\ \A i \in 1..Len(t) : t[i] = queue[i]
      /\ \A i \in 1..Len(l) : l[i] = queue[i + Len(t)]
  BY <1>1, TakenAndLeft DEF TypeOK
<1>3. Events(reply') = t /\ Events(reply) = <<>>
  BY <1>1, <1>2, AnswerEvents DEF Events
<1>4. /\ Len(queue) \in Nat
      /\ InTransit \in Seq(Nat) /\ Len(InTransit) = 0 + Len(queue)
      /\ \A i \in 1..Len(queue) : InTransit[0 + i] = queue[i].n
  BY <1>1, <1>3, Transit
<1>5. /\ InTransit' \in Seq(Nat) /\ Len(InTransit') = Len(t) + Len(l)
      /\ \A i \in 1..Len(t) : InTransit'[i] = t[i].n
      /\ \A i \in 1..Len(l) : InTransit'[Len(t) + i] = l[i].n
  BY <1>1, <1>3, TransitThen
<1> HIDE DEF t, l
<1>6. Len(t) \in Nat /\ Len(l) \in Nat /\ Len(InTransit') = Len(InTransit)
  BY <1>2, <1>4, <1>5
<1>7. ASSUME NEW i \in 1..Len(InTransit') PROVE InTransit'[i] = InTransit[i]
  <2>1. i \in 1..(Len(t) + Len(l)) /\ i \in 1..Len(queue)
    BY <1>4, <1>5, <1>6
  <2>2. InTransit[i] = queue[i].n
    BY <1>4, <2>1
  <2>3. CASE i \in 1..Len(t)
    BY <1>2, <1>5, <2>2, <2>3
  <2>4. ASSUME NEW j \in 1..Len(l), i = Len(t) + j PROVE InTransit'[i] = InTransit[i]
    <3>1. j + Len(t) = i
      BY <1>6, <2>4
    <3> QED
      BY <1>2, <1>5, <2>2, <2>4, <3>1
  <2>5. i \in 1..Len(t) \/ \E j \in 1..Len(l) : i = Len(t) + j
    BY <1>6, <2>1, TwoParts, Zenon
  <2> QED
    BY <2>3, <2>4, <2>5
<1>8. InTransit' = InTransit
  BY <1>4, <1>5, <1>6, <1>7, SeqEqual
<1> QED
  BY <1>8 DEF Answer, Lossy, InService

\* The messages that a thread without a listener takes are lost: the oldest of
\* the queue, behind the answer.
LEMMA StrayStep ==
    ASSUME LInv, LInv', StrayAnswers
    PROVE  D!Deliver
<1> DEFINE r == Events(reply)
           t == Taken(queue)
           l == Left(queue)
<1>1. TypeOK /\ TypeOK' /\ reply' = reply /\ queue' = l /\ page'.got = page.got
  BY DEF LInv, StrayAnswers
<1>2. Lossy'
  BY DEF LInv, StrayAnswers, TypeOK, Lossy
<1>3. /\ Len(t) \in 0..Len(queue) /\ Len(l) = Len(queue) - Len(t)
      /\ \A i \in 1..Len(l) : l[i] = queue[i + Len(t)]
  BY <1>1, TakenAndLeft DEF TypeOK
<1>4. /\ Len(r) \in Nat /\ Len(queue) \in Nat
      /\ InTransit \in Seq(Nat) /\ Len(InTransit) = Len(r) + Len(queue)
      /\ \A i \in 1..Len(r) : InTransit[i] = r[i].n
      /\ \A i \in 1..Len(queue) : InTransit[Len(r) + i] = queue[i].n
  BY <1>1, Transit
<1>5. /\ Len(InTransit') = Len(r) + Len(l)
      /\ \A i \in 1..Len(r) : InTransit'[i] = r[i].n
      /\ \A i \in 1..Len(l) : InTransit'[Len(r) + i] = l[i].n
  BY <1>1, TransitThen
<1> HIDE DEF r, t, l
<1>6. Len(t) \in Nat /\ Len(l) \in Nat /\ Len(InTransit) = Len(r) + Len(t) + Len(l)
  BY <1>3, <1>4
<1>7. \A i \in 1..Len(r) : InTransit'[i] = InTransit[i]
  BY <1>4, <1>5
<1>8. ASSUME NEW i \in 1..Len(l)
      PROVE  InTransit'[Len(r) + i] = InTransit[Len(r) + Len(t) + i]
  <2>1. i + Len(t) \in 1..Len(queue) /\ Len(r) + Len(t) + i = Len(r) + (i + Len(t))
    BY <1>3, <1>4, <1>6
  <2>2. InTransit[Len(r) + (i + Len(t))] = queue[i + Len(t)].n
    BY <1>4, <2>1
  <2> QED
    BY <1>3, <1>5, <2>1, <2>2
<1> QED
  BY <1>1, <1>2, <1>4, <1>5, <1>6, <1>7, <1>8, SomeLost

\* The page handles the next event of an answer.  An answer without events
\* changes neither what is on its way nor what has been handled, and an
\* exception loses the rest of the answer, the event included.
LEMMA HandleStep ==
    ASSUME LInv, LInv', Handle
    PROVE  D!Deliver \/ (InTransit' = InTransit /\ page'.got = page.got /\ Lossy' = Lossy)
<1> DEFINE r == Events(reply)
           e == Head(reply)
           rest == Tail(reply)
<1>1. /\ TypeOK /\ TypeOK' /\ reply # <<>> /\ page.ok /\ page' = Handled(page, e)
      /\ reply' = (IF page'.ok THEN rest ELSE <<>>) /\ queue' = queue
      /\ user' = user /\ cuts' = cuts
  BY DEF LInv, Handle
<1>2. CASE ~page'.ok
  <2>1. e \in Queued \cup Bare
    BY <1>1, Remainder
  <2>2. page'.got = page.got
    BY <1>1, <1>2, <2>1 DEF Handled, TypeOK
  <2>3. Lossy'
    BY <1>2 DEF Lossy
  <2> QED
    BY <1>1, <1>2, <2>2, <2>3, AnswerLost
<1>3. CASE page'.ok /\ e \in Bare /\ rest = <<>>
  <2>1. Events(reply) = <<>> /\ Events(reply') = <<>>
    BY <1>1, <1>3, AnswerEvents DEF Events, TypeOK
  <2>2. InTransit' = InTransit
    BY <1>1, <2>1, NoneMoved
  <2>3. page'.got = page.got
    BY <1>1, <1>3 DEF Handled, Bare, TypeOK
  <2> QED
    BY <1>1, <1>3, <2>2, <2>3 DEF Lossy, InService
<1>4. CASE /\ page'.ok
           /\ reply \in Seq(Queued) /\ e \in Queued /\ rest \in Seq(Queued)
           /\ Len(rest) = Len(reply) - 1 /\ Len(reply) \in Nat \ {0}
           /\ reply[1] = e
           /\ \A i \in 1..Len(rest) : rest[i] = reply[i + 1]
  <2>1. r = reply /\ Events(reply') = rest
    BY <1>1, <1>4, AnswerEvents
  <2>2. page'.got = Append(page.got, e.n)
    BY <1>1, <1>4 DEF Handled, Queued, TypeOK
  <2>3. /\ Len(reply) \in Nat /\ Len(queue) \in Nat
        /\ InTransit \in Seq(Nat) /\ Len(InTransit) = Len(reply) + Len(queue)
        /\ \A i \in 1..Len(reply) : InTransit[i] = reply[i].n
        /\ \A i \in 1..Len(queue) : InTransit[Len(reply) + i] = queue[i].n
    BY <1>1, <2>1, Transit
  <2>4. /\ Len(InTransit') = Len(rest) + Len(queue)
        /\ \A i \in 1..Len(rest) : InTransit'[i] = rest[i].n
        /\ \A i \in 1..Len(queue) : InTransit'[Len(rest) + i] = queue[i].n
    BY <1>1, <2>1, TransitThen
  <2> DEFINE b == Len(rest) + Len(queue)
  <2> HIDE DEF r, e, rest
  <2>5. /\ Len(rest) \in Nat /\ b \in Nat /\ Len(InTransit) = b + 1 /\ Len(InTransit') = b
        /\ Len(reply) = Len(rest) + 1
    BY <1>4, <2>3, <2>4
  <2>6. InTransit[1] = e.n
    BY <1>4, <2>3
  <2>7. ASSUME NEW i \in 1..b PROVE InTransit'[i] = InTransit[i + 1]
    <3>1. ASSUME i \in 1..Len(rest) PROVE InTransit'[i] = InTransit[i + 1]
      <4>1. i + 1 \in 1..Len(reply)
        BY <2>5, <3>1
      <4>2. rest[i] = reply[i + 1]
        BY <1>4, <3>1
      <4>3. InTransit'[i] = rest[i].n
        BY <2>4, <3>1
      <4>4. InTransit[i + 1] = reply[i + 1].n
        BY <2>3, <4>1
      <4> QED
        BY <4>2, <4>3, <4>4
    <3>2. ASSUME NEW j \in 1..Len(queue), i = Len(rest) + j
          PROVE  InTransit'[i] = InTransit[i + 1]
      <4>1. i + 1 = Len(reply) + j
        BY <2>5, <3>2
      <4>2. InTransit'[i] = queue[j].n
        BY <2>4, <3>2
      <4>3. InTransit[i + 1] = queue[j].n
        BY <2>3, <4>1
      <4> QED
        BY <4>2, <4>3
    <3>3. i \in 1..Len(rest) \/ \E j \in 1..Len(queue) : i = Len(rest) + j
      BY <2>3, <2>5, TwoParts, Zenon
    <3> QED
      BY <3>1, <3>2, <3>3
  <2> HIDE DEF b
  <2> QED
    BY <1>1, <2>2, <2>5, <2>6, <2>7, FirstHandled
<1>5. \/ /\ reply \in Seq(Queued) /\ e \in Queued /\ rest \in Seq(Queued)
         /\ Len(rest) = Len(reply) - 1 /\ Len(reply) \in Nat \ {0}
         /\ reply[1] = e
         /\ \A i \in 1..Len(rest) : rest[i] = reply[i + 1]
      \/ e \in Bare /\ rest = <<>>
  BY <1>1, Remainder
<1> QED
  BY <1>2, <1>3, <1>4, <1>5

LEMMA InitDelivers == Init => D!Init
<1> SUFFICES ASSUME Init
             PROVE  D!Init
  OBVIOUS
<1>1. Events(reply) = <<>> /\ queue = <<>>
  BY DEF Init, Events
<1>2. <<>> \in Seq(Queued)
  BY EmptySeq
<1>3. /\ Numbers(<<>> \o <<>>) \in Seq(Nat)
      /\ Len(Numbers(<<>> \o <<>>)) = Len(<<>>) + Len(<<>>)
  BY <1>2, NumbersOf
<1>4. InTransit \in Seq(Nat) /\ Len(InTransit) = 0
  BY <1>1, <1>3 DEF InTransit
<1>5. InTransit = <<>>
  BY <1>4
<1> QED
  BY <1>5 DEF Init, D!Init, InService

LEMMA StepDelivers == LInv /\ LInv' /\ [Next]_vars => [D!Next]_(D!vars)
<1> SUFFICES ASSUME LInv, LInv', [Next]_vars
             PROVE  [D!Next]_(D!vars)
  OBVIOUS
<1> DEFINE Same == InTransit' = InTransit /\ page'.got = page.got /\ Lossy' = Lossy
<1>1. TypeOK /\ TypeOK'
  BY DEF LInv
<1>2. Lossy => Lossy'
  BY StaysLossy
<1>3. CASE News \/ Chat \/ KickedFromGame \/ Kick
  <2>1. PICK kind \in {"news", "chat", "idle", "kicked"} : Enqueue(kind)
    BY <1>3 DEF News, Chat, KickedFromGame, Kick
  <2>2. reply' = reply /\ page' = page
    BY <1>3 DEF News, Chat, KickedFromGame, Kick
  <2>3. D!Send
    BY <1>1, <2>1, <2>2, EnqueueStep
  <2> QED
    BY <1>2, <2>3 DEF D!Next, Lossy
<1>4. CASE KickEnds \/ TimesOut \/ Restart
  <2>1. D!Deliver
    BY <1>1, <1>4, RemoveUserStep, RestartStep DEF KickEnds, TimesOut
  <2> QED
    BY <1>2, <2>1 DEF D!Next, Lossy
<1>5. CASE Fail
  <2>1. Lossy'
    BY <1>1, <1>5 DEF Fail, Lossy, TypeOK
  <2>2. D!Deliver
    BY <1>1, <1>5, <2>1, AnswerLost DEF Fail
  <2> QED
    BY <1>2, <2>2 DEF D!Next, Lossy
<1>6. CASE StrayAnswers
  BY <1>2, <1>6, StrayStep DEF D!Next, Lossy
<1>7. CASE Admit \/ Answer \/ NoNews
  <2>1. Same
    BY <1>7, AdmitStep, AnswerStep, NoNewsStep
  <2> QED
    BY <2>1 DEF D!vars, Lossy
<1>8. CASE Handle
  <2>1. CASE D!Deliver
    BY <1>2, <2>1 DEF D!Next, Lossy
  <2>2. CASE Same
    BY <2>2 DEF D!vars, Lossy
  <2> QED
    BY <1>8, <2>1, <2>2, HandleStep
<1>9. CASE Timer \/ Ask \/ Serve \/ Learn
  <2>1. reply' = reply /\ queue' = queue
    BY <1>9 DEF Timer, Ask, Serve, Learn
  <2>2. InTransit' = InTransit
    BY <2>1, NoneMoved
  <2>3. page'.got = page.got /\ page'.ok = page.ok
    BY <1>1, <1>9 DEF Timer, Ask, Serve, Learn, TypeOK
  <2>4. (user' = user \/ (user = "gone" /\ user' = "none")) /\ cuts' = cuts
    <3>1. CASE Serve
      BY <3>1 DEF Serve, Expired
    <3>2. CASE Timer \/ Ask \/ Learn
      BY <3>2 DEF Timer, Ask, Learn
    <3> QED
      BY <1>9, <3>1, <3>2
  <2> QED
    BY <2>2, <2>3, <2>4 DEF D!vars, InService
<1>10. CASE UNCHANGED vars
  <2>1. reply' = reply /\ queue' = queue /\ page' = page /\ user' = user /\ cuts' = cuts
    BY <1>10 DEF vars
  <2>2. InTransit' = InTransit
    BY <2>1, NoneMoved
  <2> QED
    BY <2>1, <2>2 DEF D!vars, InService
<1> QED
  BY <1>3, <1>4, <1>5, <1>6, <1>7, <1>8, <1>9, <1>10 DEF Next

-----------------------------------------------------------------------------
\* For any number of events, of messages in an answer and of failed polls, the
\* queue, the servlet and the poll loop deliver the events of a user in their
\* order and at most once, and all of them until a poll fails, the user is
\* removed or a handler throws (User.getNextQueuedMessages,
\* LongPollServlet.handleRequest, longpoll.done).
THEOREM EventsDelivered == Spec => Delivers
<1>1. Spec => []LInv
  BY InvInit, InvStep, PTL DEF Spec
<1>2. Init => D!Init
  BY InitDelivers
<1>3. LInv /\ LInv' /\ [Next]_vars => [D!Next]_(D!vars)
  BY StepDelivers
<1> QED
  BY <1>1, <1>2, <1>3, PTL DEF Spec, Delivers, D!Spec

=============================================================================
