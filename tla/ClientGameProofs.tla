-------------------------- MODULE ClientGameProofs --------------------------
(***************************************************************************)
(* Proofs about the page of a player, for any cards, bounds and requests   *)
(* under way.  What fails only in an order that Races names is proved      *)
(* without that order.                                                     *)
(***************************************************************************)
EXTENDS ClientGame, Integers, SequenceTheorems, TLAPS

States == {"LOBBY", "PLAYING", "JUDGING", "ROUND_OVER"}
Statuses == {"IDLE", "JUDGE", "JUDGING", "PLAYING"}
OnTable == {"mine", "theirs", "faceDown"}

Servers ==
    [state : States, judge : {"me", "other"}, hand : SUBSET Cards, played : SUBSET Cards,
     pick : Nat, othersDone : BOOLEAN]

Events ==
    [type : {"deal"}, cards : SUBSET Cards]
    \cup [type : {"state"}, state : {"LOBBY", "PLAYING", "JUDGING"}, table : SUBSET OnTable]
    \cup [type : {"info"}, who : {"me", "judge", "player"}, status : Statuses]
    \cup [type : {"complete"}]

Messages ==
    [op : Ops, card : Cards \cup {None, "shown", "gone"}, answer : {"asked", "ok", "error"},
     data : Servers, ahead : Nat]

Pages ==
    [state : States, judge : {None, "me", "other"}, hand : [Cards -> Int],
     handSelectedCard : Cards \cup {None}, roundSelectedCard : {None, "shown", "gone"},
     canSelectCard : BOOLEAN, confirm : BOOLEAN, status : Statuses \cup {None},
     playerStatus : Statuses \cup {None}, table : SUBSET OnTable]

TypeOK ==
    /\ server \in Servers /\ events \in Seq(Events) /\ page \in Pages
    /\ inFlight \subseteq Messages

-----------------------------------------------------------------------------
(* What operators of the model return.                                     *)

LEMMA StatusTypes ==
    ASSUME NEW s \in Servers
    PROVE  /\ MyStatus(s) \in Statuses /\ PlayerStatus(s) \in Statuses /\ JudgeStatus(s) \in Statuses
           /\ Table(s) \subseteq OnTable
<1>1. MyStatus(s) \in Statuses
  BY DEF MyStatus, Statuses, Servers
<1>2. PlayerStatus(s) \in Statuses
  BY DEF PlayerStatus, Statuses
<1>3. JudgeStatus(s) \in Statuses
  BY DEF JudgeStatus, Statuses, Servers
<1>4. Table(s) \subseteq OnTable
  BY DEF Table, OnTable
<1> QED
  BY <1>1, <1>2, <1>3, <1>4

LEMMA MyTurns ==
    ASSUME NEW s \in Servers
    PROVE  /\ MyStatus(s) = "PLAYING" => s.state = "PLAYING" /\ s.judge = "other"
           /\ MyStatus(s) = "JUDGING" <=> s.state = "JUDGING" /\ s.judge = "me"
           /\ MyStatus(s) = "JUDGE" <=> s.state \in {"PLAYING", "ROUND_OVER"} /\ s.judge = "me"
           /\ s.state = "PLAYING" /\ s.judge = "other" => JudgeStatus(s) = "JUDGE"
BY DEF MyStatus, JudgeStatus, Servers, States

LEMMA EventTypes ==
    /\ \A cards \in SUBSET Cards : Deal(cards) \in Seq(Events)
    /\ \A s \in Servers : s.state # "ROUND_OVER" => StateChange(s) \in Seq(Events)
    /\ \A who \in {"me", "judge", "player"}, status \in Statuses : Info(who, status) \in Seq(Events)
    /\ \A s \in Servers : JudgeInfo(s) \in Seq(Events)
    /\ <<[type |-> "complete"]>> \in Seq(Events)
<1>1. ASSUME NEW cards \in SUBSET Cards PROVE Deal(cards) \in Seq(Events)
  <2>1. [type |-> "deal", cards |-> cards] \in Events
    BY DEF Events
  <2> QED
    BY <2>1 DEF Deal
<1>2. ASSUME NEW s \in Servers, s.state # "ROUND_OVER" PROVE StateChange(s) \in Seq(Events)
  <2>1. [type |-> "state", state |-> s.state, table |-> Table(s)] \in Events
    BY <1>2, StatusTypes DEF Events, Servers, States
  <2> QED
    BY <2>1 DEF StateChange
<1>3. ASSUME NEW who \in {"me", "judge", "player"}, NEW status \in Statuses
      PROVE  Info(who, status) \in Seq(Events)
  <2>1. [type |-> "info", who |-> who, status |-> status] \in Events
    BY DEF Events
  <2> QED
    BY <2>1 DEF Info
<1>4. ASSUME NEW s \in Servers PROVE JudgeInfo(s) \in Seq(Events)
  BY <1>3, StatusTypes DEF JudgeInfo
<1>5. [type |-> "complete"] \in Events
  BY DEF Events
<1> QED
  BY <1>1, <1>2, <1>3, <1>4, <1>5

\* What lies on the table and what a page knows of it stays within what can lie there.
LEMMA PageTypes ==
    ASSUME NEW p \in Pages
    PROVE  /\ \A cards : Dealt(p, cards) \in Pages
           /\ \A s \in Servers : LearnInfo(p, s) \in Pages /\ LearnCards(p, s) \in Pages
           /\ PlayComplete(p) \in Pages
           /\ \A e \in Events : Handled(p, e) \in Pages
<1>1. ASSUME NEW q \in Pages, NEW cards PROVE Dealt(q, cards) \in Pages
  <2>1. [c \in Cards |-> q.hand[c] + (IF c \in cards THEN 1 ELSE 0)] \in [Cards -> Int]
    BY DEF Pages
  <2> QED
    BY <2>1 DEF Dealt, Pages
<1>2. ASSUME NEW q \in Pages, NEW status \in Statuses
      PROVE  /\ UpdateMe(q, status) \in Pages /\ UpdateJudge(q, status) \in Pages
             /\ UpdatePlayer(q, status) \in Pages
  <2>1. UpdateMe(q, status) \in Pages
    <3> DEFINE on == \/ status = "PLAYING" /\ q.handSelectedCard # None
                     \/ status = "JUDGING" /\ q.roundSelectedCard # None
               card == IF status = "PLAYING" THEN q.handSelectedCard ELSE None
               judge == IF status \in {"JUDGE", "JUDGING"} THEN "me" ELSE q.judge
    <3>1. on \in BOOLEAN /\ card \in Cards \cup {None} /\ judge \in {None, "me", "other"}
      BY DEF Pages
    <3>2. UpdateMe(q, status) =
            [q EXCEPT !.status = status, !.confirm = on, !.handSelectedCard = card, !.judge = judge]
      BY DEF UpdateMe
    <3> HIDE DEF on, card, judge
    <3> QED
      BY <3>1, <3>2 DEF Pages
  <2>2. UpdateJudge(q, status) \in Pages
    BY DEF UpdateJudge, Pages
  <2>3. UpdatePlayer(q, status) \in Pages
    BY DEF UpdatePlayer, Pages, OnTable
  <2> QED
    BY <2>1, <2>2, <2>3
<1>3. ASSUME NEW s \in Servers PROVE LearnInfo(p, s) \in Pages
  BY <1>2, StatusTypes DEF LearnInfo
<1>4. ASSUME NEW s \in Servers PROVE LearnCards(p, s) \in Pages
  <2>1. Dealt(p, s.hand) \in Pages
    BY <1>1
  <2> QED
    BY <2>1, StatusTypes DEF LearnCards, Pages
<1>5. PlayComplete(p) \in Pages
  <2> DEFINE hand == [p.hand EXCEPT ![p.handSelectedCard] = @ - 1]
             table == p.table \cup {"mine"}
  <2>0. table \in SUBSET OnTable
    BY DEF Pages, OnTable
  <2>1. p.handSelectedCard # None => hand \in [Cards -> Int]
    BY DEF Pages
  <2>2. p.handSelectedCard # None =>
          PlayComplete(p) = [p EXCEPT !.hand = hand, !.table = table,
                     !.handSelectedCard = None, !.confirm = FALSE, !.canSelectCard = TRUE]
    BY DEF PlayComplete, Pages
  <2> HIDE DEF hand, table
  <2>3. CASE p.handSelectedCard # None
    BY <2>0, <2>1, <2>2, <2>3 DEF Pages
  <2>4. CASE p.handSelectedCard = None
    BY <2>4 DEF PlayComplete, Pages
  <2> QED
    BY <2>3, <2>4
<1>6. ASSUME NEW e \in Events PROVE Handled(p, e) \in Pages
  <2>1. CASE e.type = "deal"
    BY <1>1, <2>1 DEF Handled
  <2>2. CASE e.type = "state"
    <3>1. e.state \in {"LOBBY", "PLAYING", "JUDGING"} /\ e.table \subseteq OnTable
      BY <2>2 DEF Events
    <3>2. Cleared(p) \in Pages
      BY DEF Cleared, Pages
    <3>3. [c \in Cards |-> 0] \in [Cards -> Int]
      OBVIOUS
    <3>4. ToState(p, e) \in Pages
      BY <3>1, <3>2, <3>3 DEF ToState, Pages, States
    <3> QED
      BY <2>2, <3>4 DEF Handled
  <2>3. CASE e.type = "info"
    <3>1. e.who \in {"me", "judge", "player"} /\ e.status \in Statuses
      BY <2>3 DEF Events
    <3> QED
      BY <1>2, <2>3, <3>1 DEF Handled
  <2>4. CASE e.type = "complete"
    BY <2>4 DEF Handled, Pages
  <2> QED
    BY <2>1, <2>2, <2>3, <2>4 DEF Events
<1> QED
  BY <1>1, <1>3, <1>4, <1>5, <1>6

-----------------------------------------------------------------------------
(* How the game goes on within a round, and what pages are told of it.     *)

\* The round asks something of me, or will when the others have played.
EngagedIn(s) ==
    \/ s.state = "PLAYING" /\ MyStatus(s) \in {"PLAYING", "JUDGE"}
    \/ s.state = "JUDGING" /\ s.judge = "me"

Role(status) == IF status = "JUDGING" THEN "JUDGE" ELSE status

\* The round of the server goes on, or ends.
Continues(old, s) ==
    /\ s \in Servers /\ s.hand \subseteq old.hand /\ old.state # "LOBBY"
    /\ old.hand \cap old.played = {} => s.hand \cap s.played = {}
    /\ s.state = "LOBBY" => s.hand = {}
    /\ s.state = "PLAYING" => old.state = "PLAYING"
    /\ s.state = "JUDGING" => old.state = "PLAYING"
    /\ MyStatus(s) = "PLAYING" => MyStatus(old) = "PLAYING"
    /\ EngagedIn(s) => /\ EngagedIn(old) /\ s.judge = old.judge
                       /\ Role(MyStatus(s)) = Role(MyStatus(old))

\* Nothing is dealt, and what is told is so.
TellsOf(e, s) ==
    /\ e.type # "deal"
    /\ e.type = "state" => s.state \in {"JUDGING", "LOBBY"} /\ e.state = s.state /\ e.table = Table(s)
    /\ e.type = "info" /\ EngagedIn(s) =>
          /\ e.who = "me" => e.status = MyStatus(s) /\ e.status # "JUDGE"
          /\ e.who = "judge" => s.judge = "other"

News(t, s) ==
    /\ t \in Seq(Events) /\ t # <<>>
    /\ \A k \in 1..Len(t) : TellsOf(t[k], s)
    /\ s.state \in {"JUDGING", "LOBBY"} =>
          \E k \in 1..Len(t) : /\ t[k].type = "state"
                               /\ \A j \in 1..Len(t) : t[j].type = "state" => j <= k
    /\ MyStatus(s) = "JUDGING" => \E k \in 1..Len(t) : t[k].type = "info" /\ t[k].who = "me"

GoesOn == Continues(server, server') /\ \E t : News(t, server') /\ events' = events \o t

\* Some are told one after the other.
LEMMA TwoTold ==
    ASSUME NEW E, NEW q \in Seq(E), NEW a \in E, NEW b \in E
    PROVE  q \o <<a>> \o <<b>> = q \o <<a, b>>
<1> DEFINE x == q \o <<a>>
           y == x \o <<b>>
           z == q \o <<a, b>>
<1>1. x \in Seq(E) /\ Len(x) = Len(q) + 1 /\ x[Len(q) + 1] = a /\ \A i \in 1..Len(q) : x[i] = q[i]
  OBVIOUS
<1>2. z \in Seq(E) /\ Len(z) = Len(q) + 2 /\ z[Len(q) + 1] = a /\ z[Len(q) + 2] = b
      /\ \A i \in 1..Len(q) : z[i] = q[i]
  OBVIOUS
<1> HIDE DEF x, z
<1>3. y \in Seq(E) /\ Len(y) = Len(x) + 1 /\ y[Len(x) + 1] = b /\ \A i \in 1..Len(x) : y[i] = x[i]
  BY <1>1
<1> HIDE DEF y
<1>4. Len(q) \in Nat
  OBVIOUS
<1>5. ASSUME NEW i \in 1..Len(y) PROVE y[i] = z[i]
  <2>1. i \in 1..Len(q) \/ i = Len(q) + 1 \/ i = Len(q) + 2
    BY <1>1, <1>3, <1>4
  <2> QED
    BY <2>1, <1>1, <1>2, <1>3, <1>4
<1>6. y = z
  BY <1>1, <1>2, <1>3, <1>4, <1>5, SeqEqual
<1> QED
  BY <1>6 DEF x, y, z

LEMMA ThreeTold ==
    ASSUME NEW E, NEW q \in Seq(E), NEW a \in E, NEW b \in E, NEW c \in E
    PROVE  q \o <<a>> \o <<b>> \o <<c>> = q \o <<a, b, c>>
<1> DEFINE x == q \o <<a, b>>
           y == x \o <<c>>
           z == q \o <<a, b, c>>
<1>1. x \in Seq(E) /\ Len(x) = Len(q) + 2 /\ x[Len(q) + 1] = a /\ x[Len(q) + 2] = b
      /\ \A i \in 1..Len(q) : x[i] = q[i]
  OBVIOUS
<1>2. z \in Seq(E) /\ Len(z) = Len(q) + 3 /\ z[Len(q) + 1] = a /\ z[Len(q) + 2] = b
      /\ z[Len(q) + 3] = c /\ \A i \in 1..Len(q) : z[i] = q[i]
  OBVIOUS
<1> HIDE DEF x, z
<1>3. y \in Seq(E) /\ Len(y) = Len(x) + 1 /\ y[Len(x) + 1] = c /\ \A i \in 1..Len(x) : y[i] = x[i]
  BY <1>1
<1> HIDE DEF y
<1>4. Len(q) \in Nat
  OBVIOUS
<1>5. ASSUME NEW i \in 1..Len(y) PROVE y[i] = z[i]
  <2>1. i \in 1..Len(q) \/ i = Len(q) + 1 \/ i = Len(q) + 2 \/ i = Len(q) + 3
    BY <1>1, <1>3, <1>4
  <2> QED
    BY <2>1, <1>1, <1>2, <1>3, <1>4
<1>6. y = z
  BY <1>1, <1>2, <1>3, <1>4, <1>5, SeqEqual
<1>7. q \o <<a>> \o <<b>> = x
  BY TwoTold DEF x
<1> QED
  BY <1>6, <1>7 DEF y, z

\* told is one that has played, and judging starts or not.
LEMMA AdvanceGoesOn ==
    ASSUME TypeOK, NEW old \in Servers, NEW s \in Servers, s.state = "PLAYING", Continues(old, s),
           NEW who \in {"me", "player"}, NEW status \in Statuses,
           who = "me" => status = MyStatus(s) /\ s.judge = "other",
           Advance(s, Info(who, status))
    PROVE  Continues(old, server') /\ \E t : News(t, server') /\ events' = events \o t
<1> DEFINE e == [type |-> "info", who |-> who, status |-> status]
           j == [s EXCEPT !.state = "JUDGING"]
<1>1. \/ server' = s /\ events' = events \o <<e>>
      \/ server' = j /\ events' = events \o <<e>> \o StateChange(j) \o JudgeInfo(j)
  BY DEF Advance, Info
<1>2. e \in Events
  BY DEF Events
<1>3. CASE server' = s /\ events' = events \o <<e>>
  <2>1. TellsOf(e, s)
    BY MyTurns DEF TellsOf
  <2>2. News(<<e>>, s)
    BY <1>2, <2>1, MyTurns DEF News
  <2> QED
    BY <1>3, <2>2
<1>4. CASE server' = j /\ events' = events \o <<e>> \o StateChange(j) \o JudgeInfo(j)
  <2>1. /\ j \in Servers /\ j.state = "JUDGING" /\ j.judge = s.judge
        /\ j.hand = s.hand /\ j.played = s.played
    BY DEF Servers, States
  <2> HIDE DEF j
  <2>2. Continues(old, j)
    BY <2>1, MyTurns DEF Continues, EngagedIn, Role, Servers
  <2> DEFINE f == [type |-> "state", state |-> j.state, table |-> Table(j)]
             g == IF j.judge = "me" THEN [type |-> "info", who |-> "me", status |-> MyStatus(j)]
                                    ELSE [type |-> "info", who |-> "judge", status |-> JudgeStatus(j)]
             t == <<e, f, g>>
  <2>3. f \in Events /\ g \in Events
    BY <2>1, StatusTypes DEF Events
  <2>4. StateChange(j) = <<f>> /\ JudgeInfo(j) = <<g>>
    BY DEF StateChange, JudgeInfo, Info
  <2>5. TellsOf(e, j)
    BY <2>1, MyTurns DEF TellsOf, EngagedIn
  <2>6. TellsOf(f, j)
    BY <2>1 DEF TellsOf
  <2>7. TellsOf(g, j)
    BY <2>1, MyTurns DEF TellsOf, EngagedIn, Servers
  <2>8. f.type = "state" /\ e.type = "info" /\ g.type = "info" /\ (MyStatus(j) = "JUDGING" => g.who = "me")
    BY <2>1, MyTurns
  <2> HIDE DEF e, f, g
  <2>9. News(t, j)
    <3>1. t \in Seq(Events) /\ t # <<>> /\ Len(t) = 3 /\ t[1] = e /\ t[2] = f /\ t[3] = g
      BY <1>2, <2>3
    <3> HIDE DEF t
    <3>2. \A k \in 1..Len(t) : TellsOf(t[k], j)
      BY <3>1, <2>5, <2>6, <2>7
    <3>3. \E k \in 1..Len(t) : t[k].type = "state" /\ \A i \in 1..Len(t) : t[i].type = "state" => i <= k
      <4>1. 2 \in 1..Len(t) /\ t[2].type = "state" /\ \A i \in 1..Len(t) : t[i].type = "state" => i <= 2
        BY <3>1, <2>8
      <4> QED
        BY <4>1
    <3>4. MyStatus(j) = "JUDGING" => \E k \in 1..Len(t) : t[k].type = "info" /\ t[k].who = "me"
      <4>1. 3 \in 1..Len(t) /\ t[3].type = "info"
        BY <3>1, <2>8
      <4> QED
        BY <4>1, <3>1, <2>8
    <3> QED
      BY <3>1, <3>2, <3>3, <3>4 DEF News
  <2>10. events \o <<e>> \o <<f>> \o <<g>> = events \o t
    BY <1>2, <2>3, ThreeTold DEF TypeOK
  <2> QED
    BY <1>4, <2>2, <2>4, <2>9, <2>10
<1> QED
  BY <1>1, <1>3, <1>4

LEMMA OthersPlayGoesOn == ASSUME TypeOK, OthersPlay PROVE GoesOn /\ server'.hand = server.hand
<1> DEFINE s == [server EXCEPT !.othersDone = TRUE]
<1>1. /\ s \in Servers /\ s.state = "PLAYING" /\ s.judge = server.judge /\ s.pick = server.pick
      /\ s.hand = server.hand /\ s.played = server.played /\ server.state = "PLAYING"
      /\ Advance(s, Info("player", "IDLE"))
  BY DEF OthersPlay, TypeOK, Servers
<1>2. MyStatus(s) = MyStatus(server)
  BY <1>1 DEF MyStatus
<1> HIDE DEF s
<1>3. Continues(server, s)
  BY <1>1, <1>2 DEF Continues, EngagedIn
<1>4. server'.hand = s.hand
  BY <1>1 DEF Advance, Servers
<1> QED
  BY <1>1, <1>3, <1>4, AdvanceGoesOn DEF TypeOK, GoesOn, Statuses

\* My own card is played.
Plays1(s, c) == [s EXCEPT !.hand = @ \ {c}, !.played = @ \cup {c}]

LEMMA PlayGoesOn ==
    ASSUME TypeOK, NEW c \in Cards, MyStatus(server) = "PLAYING",
           Advance(Plays1(server, c), Info("me", MyStatus(Plays1(server, c))))
    PROVE  GoesOn /\ server'.hand = server.hand \ {c}
<1> DEFINE s == Plays1(server, c)
<1>1. /\ s \in Servers /\ s.state = server.state /\ s.judge = server.judge
      /\ s.hand = server.hand \ {c} /\ s.played = server.played \cup {c}
  BY DEF Plays1, TypeOK, Servers
<1>2. server \in Servers /\ server.state = "PLAYING" /\ server.judge = "other"
  BY MyTurns DEF TypeOK
<1>3. EngagedIn(server)
  BY <1>2 DEF EngagedIn
<1>4. Advance(s, Info("me", MyStatus(s)))
  OBVIOUS
<1> HIDE DEF s
<1>5. MyStatus(s) \in {"PLAYING", "IDLE"}
  BY <1>1, <1>2 DEF MyStatus
<1>6. Continues(server, s)
  BY <1>1, <1>2, <1>3, <1>5 DEF Continues, EngagedIn
<1>7. GoesOn
  BY <1>1, <1>2, <1>4, <1>6, StatusTypes, AdvanceGoesOn DEF GoesOn
<1>8. server'.hand = s.hand
  BY <1>1, <1>4 DEF Advance, Servers
<1> QED
  BY <1>1, <1>7, <1>8

LEMMA RoundOverGoesOn ==
    ASSUME TypeOK, RoundOver, server.state = "JUDGING" PROVE GoesOn /\ server'.state = "ROUND_OVER" /\ server'.hand = server.hand
<1> DEFINE s == [server EXCEPT !.state = "ROUND_OVER"]
           e == [type |-> "complete"]
           g == IF s.judge = "me" THEN [type |-> "info", who |-> "me", status |-> MyStatus(s)]
                                  ELSE [type |-> "info", who |-> "judge", status |-> JudgeStatus(s)]
<1>1. s \in Servers /\ s.state = "ROUND_OVER" /\ s.hand = server.hand /\ s.played = server.played
  BY DEF TypeOK, Servers, States
<1>2. PICK winner \in {"me", "player"} :
          events' = events \o <<e>> \o JudgeInfo(server') \o Info(winner, "IDLE")
  BY DEF RoundOver
<1>3. server' = s
  BY DEF RoundOver
<1> HIDE DEF s
<1> DEFINE f == [type |-> "info", who |-> winner, status |-> "IDLE"]
           t == <<e, g, f>>
<1>4. ~EngagedIn(s) /\ MyStatus(s) # "JUDGING" /\ MyStatus(s) # "PLAYING"
  BY <1>1, MyTurns DEF EngagedIn
<1>5. e \in Events /\ f \in Events /\ g \in Events
  BY <1>1, StatusTypes DEF Events, Statuses
<1>6. TellsOf(e, s) /\ TellsOf(f, s) /\ TellsOf(g, s)
  BY <1>4 DEF TellsOf
<1>7. JudgeInfo(s) = <<g>> /\ Info(winner, "IDLE") = <<f>>
  BY DEF JudgeInfo, Info
<1> HIDE DEF e, f, g
<1>8. events' = events \o t
  <2>1. events' = events \o <<e>> \o <<g>> \o <<f>>
    BY <1>2, <1>3, <1>7
  <2>2. events \in Seq(Events)
    BY DEF TypeOK
  <2>3. events \o <<e>> \o <<g>> \o <<f>> = events \o <<e, g, f>>
    BY <1>5, <2>2, ThreeTold
  <2> QED
    BY <2>1, <2>3
<1>9. News(t, s)
  <2>1. t \in Seq(Events) /\ t # <<>> /\ Len(t) = 3 /\ t[1] = e /\ t[2] = g /\ t[3] = f
    BY <1>5
  <2> HIDE DEF t
  <2>2. \A k \in 1..Len(t) : TellsOf(t[k], s)
    BY <2>1, <1>6
  <2> QED
    BY <2>1, <2>2, <1>1, <1>4 DEF News
<1>10. Continues(server, s)
  BY <1>1, <1>4 DEF Continues
<1> QED
  BY <1>1, <1>3, <1>8, <1>9, <1>10 DEF GoesOn

LEMMA ResetStateGoesOn == ASSUME TypeOK, ResetState PROVE GoesOn /\ server' = InLobby
<1> DEFINE s == InLobby
           e == [type |-> "state", state |-> s.state, table |-> Table(s)]
           f == [type |-> "info", who |-> "me", status |-> "IDLE"]
<1>1. s \in Servers /\ s.state = "LOBBY" /\ s.hand = {} /\ s.played = {}
  BY DEF InLobby, Servers, States
<1>2. /\ server' = s /\ server.state # "LOBBY"
      /\ events' = events \o StateChange(InLobby) \o <<>>
           \/ events' = events \o StateChange(InLobby) \o <<f>>
  BY DEF ResetState, Info
<1>3. StateChange(s) = <<e>>
  BY DEF StateChange
<1> HIDE DEF s
<1>4. ~EngagedIn(s) /\ MyStatus(s) # "JUDGING" /\ MyStatus(s) # "PLAYING"
  BY <1>1, MyTurns DEF EngagedIn
<1>5. e \in Events /\ f \in Events
  BY <1>1, StatusTypes DEF Events, Statuses
<1>6. TellsOf(e, s) /\ TellsOf(f, s)
  BY <1>1, <1>4 DEF TellsOf
<1>11. e.type = "state" /\ f.type = "info"
  OBVIOUS
<1> HIDE DEF e, f
<1>7. events' = events \o <<e>> \/ events' = events \o <<e, f>>
  <2>1. events' = events \o <<e>> \o <<>> \/ events' = events \o <<e>> \o <<f>>
    BY <1>2, <1>3 DEF s
  <2>2. events \in Seq(Events) /\ events \o <<e>> \in Seq(Events)
    BY <1>5 DEF TypeOK
  <2>3. events \o <<e>> \o <<>> = events \o <<e>>
    BY <2>2, ConcatEmptySeq
  <2> QED
    BY <1>5, <2>1, <2>2, <2>3, TwoTold
<1>8. News(<<e>>, s)
  <2> DEFINE t == <<e>>
  <2>1. t \in Seq(Events) /\ t # <<>> /\ Len(t) = 1 /\ t[1] = e
    BY <1>5
  <2> HIDE DEF t
  <2>2. \A k \in 1..Len(t) : TellsOf(t[k], s)
    BY <2>1, <1>6
  <2>3. \E k \in 1..Len(t) : /\ t[k].type = "state"
                              /\ \A j \in 1..Len(t) : t[j].type = "state" => j <= k
    BY <2>1, <1>11
  <2>5. News(t, s)
    BY <2>1, <2>2, <2>3, <1>4 DEF News
  <2> QED
    BY <2>5 DEF t
<1>9. News(<<e, f>>, s)
  <2> DEFINE t == <<e, f>>
  <2>1. t \in Seq(Events) /\ t # <<>> /\ Len(t) = 2 /\ t[1] = e /\ t[2] = f
    BY <1>5
  <2> HIDE DEF t
  <2>2. \A k \in 1..Len(t) : TellsOf(t[k], s)
    BY <2>1, <1>6
  <2>3. 1 \in 1..Len(t) /\ t[1].type = "state" /\ \A j \in 1..Len(t) : t[j].type = "state" => j <= 1
    BY <2>1, <1>11
  <2>4. \E k \in 1..Len(t) : /\ t[k].type = "state"
                              /\ \A j \in 1..Len(t) : t[j].type = "state" => j <= k
    BY <2>3
  <2>5. News(t, s)
    BY <2>1, <2>2, <2>4, <1>4 DEF News
  <2> QED
    BY <2>5 DEF t
<1>10. Continues(server, s)
  BY <1>1, <1>2, <1>4 DEF Continues
<1> QED
  BY <1>2, <1>7, <1>8, <1>9, <1>10 DEF GoesOn, s

-----------------------------------------------------------------------------
(* Cards are dealt when no events are under way, before all else is told.  *)

\* The first n of the events q deal the cards A, each once, and no others deal.
DealsAre(q, n, A) ==
    /\ n \in 0..Len(q)
    /\ \A i \in 1..Len(q) : q[i].type = "deal" <=> i <= n
    /\ \A i, j \in 1..n : i # j => q[i].cards \cap q[j].cards = {}
    /\ \A c \in Cards : c \in A <=> \E i \in 1..n : c \in q[i].cards

LEMMA DealNothing == DealsAre(<<>>, 0, {})
BY DEF DealsAre

LEMMA DealMore ==
    ASSUME NEW q \in Seq(Events), NEW A, NEW B \in SUBSET Cards, DealsAre(q, Len(q), A), A \cap B = {}
    PROVE  q \o Deal(B) \in Seq(Events) /\ DealsAre(q \o Deal(B), Len(q \o Deal(B)), A \cup B)
<1>1. CASE B = {}
  <2>1. q \o Deal(B) = q
    BY <1>1, ConcatEmptySeq DEF Deal
  <2> QED
    BY <1>1, <2>1
<1>2. CASE B # {}
  <2> DEFINE e == [type |-> "deal", cards |-> B]
             r == q \o <<e>>
  <2>1. e \in Events /\ e.type = "deal" /\ e.cards = B
    BY DEF Events
  <2> HIDE DEF e
  <2>2. /\ r \in Seq(Events) /\ Len(r) = Len(q) + 1 /\ Len(q) \in Nat
        /\ r[Len(q) + 1] = e /\ \A i \in 1..Len(q) : r[i] = q[i]
    BY <2>1
  <2> HIDE DEF r
  <2>3. \A i \in 1..Len(r) : i \in 1..Len(q) \/ i = Len(q) + 1
    BY <2>2
  <2>4. \A i \in 1..Len(r) : r[i].type = "deal" <=> i <= Len(r)
    BY <2>1, <2>2, <2>3 DEF DealsAre
  <2>5. ASSUME NEW i \in 1..Len(r), NEW j \in 1..Len(r), i # j
        PROVE  r[i].cards \cap r[j].cards = {}
    <3>1. \A k \in 1..Len(q) : q[k].cards \cap B = {}
      <4> SUFFICES ASSUME NEW k \in 1..Len(q), NEW c \in q[k].cards, c \in B PROVE FALSE
        OBVIOUS
      <4>1. c \in A
        BY DEF DealsAre
      <4> QED
        BY <4>1
    <3> QED
      BY <2>1, <2>2, <2>3, <2>5, <3>1 DEF DealsAre
  <2>6. ASSUME NEW c \in Cards PROVE c \in A \cup B <=> \E i \in 1..Len(r) : c \in r[i].cards
    <3>1. c \in A => \E i \in 1..Len(r) : c \in r[i].cards
      BY <2>2 DEF DealsAre
    <3>2. c \in B => \E i \in 1..Len(r) : c \in r[i].cards
      <4>1. Len(q) + 1 \in 1..Len(r)
        BY <2>2
      <4> QED
        BY <2>1, <2>2, <4>1
    <3>3. ASSUME NEW i \in 1..Len(r), c \in r[i].cards PROVE c \in A \cup B
      BY <2>1, <2>2, <2>3, <3>3 DEF DealsAre
    <3> QED
      BY <3>1, <3>2, <3>3
  <2>7. DealsAre(r, Len(r), A \cup B)
    <3>1. Len(r) \in 0..Len(r)
      BY <2>2
    <3> QED
      BY <2>4, <2>5, <2>6, <3>1 DEF DealsAre
  <2> QED
    BY <1>2, <2>2, <2>7 DEF Deal, e, r
<1> QED
  BY <1>1, <1>2

LEMMA ThenTold ==
    ASSUME NEW q \in Seq(Events), NEW A, DealsAre(q, Len(q), A), NEW t \in Seq(Events),
           \A k \in 1..Len(t) : t[k].type # "deal"
    PROVE  /\ q \o t \in Seq(Events) /\ DealsAre(q \o t, Len(q), A) /\ Len(q \o t) = Len(q) + Len(t)
           /\ \A k \in 1..Len(t) : (q \o t)[Len(q) + k] = t[k]
<1> DEFINE r == q \o t
<1>1. /\ r \in Seq(Events) /\ Len(r) = Len(q) + Len(t) /\ Len(q) \in Nat /\ Len(t) \in Nat
      /\ \A k \in 1..Len(t) : r[Len(q) + k] = t[k]
      /\ \A i \in 1..Len(q) : r[i] = q[i]
  OBVIOUS
<1> HIDE DEF r
<1>2. ASSUME NEW i \in 1..Len(r), ~(i <= Len(q)) PROVE r[i].type # "deal"
  <2>1. i - Len(q) \in 1..Len(t) /\ i = Len(q) + (i - Len(q))
    BY <1>1, <1>2
  <2>2. r[i] = t[i - Len(q)]
    BY <1>1, <2>1
  <2> QED
    BY <2>1, <2>2
<1>3. ASSUME NEW i \in 1..Len(r) PROVE r[i].type = "deal" <=> i <= Len(q)
  <2>1. CASE i <= Len(q)
    <3>1. i \in 1..Len(q) /\ r[i] = q[i]
      BY <1>1, <2>1
    <3> QED
      BY <2>1, <3>1 DEF DealsAre
  <2> QED
    BY <1>2, <2>1
<1>4. Len(q) \in 0..Len(r)
  BY <1>1
<1>5. DealsAre(r, Len(q), A)
  BY <1>1, <1>3, <1>4 DEF DealsAre
<1> QED
  BY <1>1, <1>5 DEF r

\* A round starts: the hand is filled up, cards may have been returned.
LEMMA RoundStarts ==
    ASSUME TypeOK, StartRound, server.hand \cap server.played = {}
    PROVE  /\ events = <<>> /\ ~Unserved("PLAY_CARD") /\ Dealing /\ UNCHANGED <<inFlight, page, reloads>>
           /\ server' \in Servers /\ server'.state = "PLAYING" /\ server'.played = {}
           /\ server.hand \subseteq server'.hand /\ events' \in Seq(Events)
           /\ \E n \in Nat : /\ Len(events') = n + 1 /\ DealsAre(events', n, server'.hand \ server.hand)
                             /\ events'[n + 1].type = "state" /\ events'[n + 1].state = "PLAYING"
<1> DEFINE returned == IF server.state = "JUDGING" THEN server.played ELSE {}
           kept == server.hand \cup returned
<1>1. PICK j \in {"me", "other"}, p \in Picks, d \in Draws, new \in SUBSET (Cards \ kept) :
          /\ server' = [state |-> "PLAYING", judge |-> j, hand |-> kept \cup new,
                        played |-> {}, pick |-> p, othersDone |-> FALSE]
          /\ events' = events \o Deal(returned) \o Deal(new) \o StateChange(server')
  BY DEF StartRound
<1>2. returned \in SUBSET Cards /\ kept \in SUBSET Cards /\ returned \cap server.hand = {}
  BY DEF TypeOK, Servers
<1>3. p \in Nat
  BY ClientAssumption
<1> HIDE DEF returned
<1>4. server' \in Servers
  BY <1>1, <1>2, <1>3 DEF Servers, States
<1>5. events = <<>>
  BY DEF StartRound, Settled
<1> DEFINE q1 == <<>> \o Deal(returned)
           q2 == q1 \o Deal(new)
<1>6. q1 \in Seq(Events) /\ DealsAre(q1, Len(q1), {} \cup returned)
  <2>1. <<>> \in Seq(Events) /\ Len(<<>>) = 0
    OBVIOUS
  <2> QED
    BY <1>2, <2>1, DealNothing, DealMore
<1> HIDE DEF q1
<1>7. q2 \in Seq(Events) /\ DealsAre(q2, Len(q2), returned \cup new)
  <2>1. new \in SUBSET Cards /\ returned \cap new = {} /\ {} \cup returned = returned
    BY <1>2
  <2> QED
    BY <1>6, <2>1, DealMore
<1> HIDE DEF q2
<1> DEFINE e == [type |-> "state", state |-> server'.state, table |-> Table(server')]
<1>8. StateChange(server') = <<e>> /\ <<e>> \in Seq(Events)
  BY <1>1, <1>4, EventTypes DEF StateChange
<1>9. e.type = "state" /\ e.state = "PLAYING"
  BY <1>1
<1> HIDE DEF e
<1>10. events' = q2 \o <<e>>
  BY <1>1, <1>5, <1>8 DEF q1, q2
<1>11. /\ events' \in Seq(Events) /\ DealsAre(events', Len(q2), returned \cup new)
       /\ Len(events') = Len(q2) + 1 /\ events'[Len(q2) + 1] = e
  <2>1. Len(<<e>>) = 1 /\ <<e>>[1] = e /\ \A k \in 1..Len(<<e>>) : <<e>>[k].type # "deal"
    BY <1>9
  <2> QED
    <3> DEFINE t == <<e>>
               A == returned \cup new
    <3>1. t \in Seq(Events) /\ DealsAre(q2, Len(q2), A) /\ q2 \in Seq(Events)
      BY <1>7, <1>8
    <3>2. Len(t) = 1 /\ t[1] = e /\ \A k \in 1..Len(t) : t[k].type # "deal"
      BY <2>1
    <3>3. events' = q2 \o t
      BY <1>10
    <3> HIDE DEF t, A
    <3>4. /\ q2 \o t \in Seq(Events) /\ DealsAre(q2 \o t, Len(q2), A)
          /\ Len(q2 \o t) = Len(q2) + Len(t)
          /\ \A k \in 1..Len(t) : (q2 \o t)[Len(q2) + k] = t[k]
      BY <3>1, <3>2, ThenTold
    <3>5. DealsAre(events', Len(q2), A)
      BY <3>3, <3>4
    <3>6. events' \in Seq(Events) /\ Len(events') = Len(q2) + 1 /\ events'[Len(q2) + 1] = e
      BY <3>2, <3>3, <3>4
    <3> QED
      BY <3>5, <3>6 DEF A
<1>12. server'.hand \ server.hand = returned \cup new
  BY <1>1, <1>2
<1>13. Len(q2) \in Nat
  BY <1>7
<1>14. /\ ~Unserved("PLAY_CARD") /\ Dealing /\ UNCHANGED <<inFlight, page, reloads>>
       /\ server'.state = "PLAYING" /\ server'.played = {} /\ server.hand \subseteq server'.hand
  BY <1>1 DEF StartRound
<1> QED
  BY <1>4, <1>5, <1>9, <1>11, <1>12, <1>13, <1>14

\* The host's timer skips me: what I have played is returned, and judging starts.
LEMMA SkippedMe ==
    ASSUME TypeOK, SkipMe, server.hand \cap server.played = {}
    PROVE  /\ events = <<>> /\ Dealing /\ UNCHANGED <<inFlight, page, reloads>>
           /\ MyStatus(server) = "PLAYING"
           /\ server' \in Servers /\ server'.state = "JUDGING" /\ server'.judge = "other"
           /\ server'.played = {} /\ server.hand \subseteq server'.hand /\ events' \in Seq(Events)
           /\ \E n \in Nat : /\ Len(events') = n + 3 /\ DealsAre(events', n, server'.hand \ server.hand)
                             /\ events'[n + 1].type = "state" /\ events'[n + 1].state = "JUDGING"
                             /\ events'[n + 1].table = Table(server')
                             /\ events'[n + 2].type = "info" /\ events'[n + 3].type = "info"
<1> DEFINE s == [server EXCEPT !.state = "JUDGING", !.hand = @ \cup server.played, !.played = {}]
<1>1. /\ events = <<>> /\ Dealing /\ MyStatus(server) = "PLAYING" /\ server' = s
      /\ events' = events \o Deal(server.played) \o StateChange(server') \o JudgeInfo(server')
                        \o Info("me", MyStatus(server'))
      /\ UNCHANGED <<inFlight, page, reloads>>
  BY DEF SkipMe, Settled
<1>2. /\ s \in Servers /\ s.state = "JUDGING" /\ s.judge = "other" /\ s.played = {}
      /\ s.hand = server.hand \cup server.played /\ server.played \in SUBSET Cards
  BY <1>1, MyTurns DEF TypeOK, Servers, States
<1> HIDE DEF s
<1> DEFINE q == <<>> \o Deal(server.played)
           e == [type |-> "state", state |-> s.state, table |-> Table(s)]
           f == [type |-> "info", who |-> "judge", status |-> JudgeStatus(s)]
           g == [type |-> "info", who |-> "me", status |-> MyStatus(s)]
           t == <<e, f, g>>
<1>3. q \in Seq(Events) /\ DealsAre(q, Len(q), {} \cup server.played)
  <2>1. <<>> \in Seq(Events) /\ Len(<<>>) = 0
    OBVIOUS
  <2> QED
    BY <1>2, <2>1, DealNothing, DealMore
<1> HIDE DEF q
<1>4. e \in Events /\ f \in Events /\ g \in Events
  BY <1>2, StatusTypes DEF Events
<1>5. StateChange(s) = <<e>> /\ JudgeInfo(s) = <<f>> /\ Info("me", MyStatus(s)) = <<g>>
  BY <1>2 DEF StateChange, JudgeInfo, Info
<1>6. /\ e.type = "state" /\ e.state = "JUDGING" /\ e.table = Table(s)
      /\ f.type = "info" /\ g.type = "info"
  BY <1>2
<1> HIDE DEF e, f, g
<1>7. events' = q \o t
  <2>1. events' = q \o <<e>> \o <<f>> \o <<g>>
    BY <1>1, <1>5 DEF q
  <2>2. q \o <<e>> \o <<f>> \o <<g>> = q \o <<e, f, g>>
    BY <1>3, <1>4, ThreeTold
  <2> QED
    BY <2>1, <2>2
<1>8. t \in Seq(Events) /\ Len(t) = 3 /\ t[1] = e /\ t[2] = f /\ t[3] = g
  BY <1>4
<1> HIDE DEF t
<1>9. \A k \in 1..Len(t) : t[k].type # "deal"
  BY <1>6, <1>8
<1>10. /\ events' \in Seq(Events) /\ DealsAre(events', Len(q), {} \cup server.played)
       /\ Len(events') = Len(q) + 3
       /\ \A k \in 1..3 : events'[Len(q) + k] = t[k]
  <2> DEFINE A == {} \cup server.played
  <2>1. DealsAre(q, Len(q), A)
    BY <1>3
  <2> HIDE DEF A
  <2>2. /\ q \o t \in Seq(Events) /\ DealsAre(q \o t, Len(q), A) /\ Len(q \o t) = Len(q) + Len(t)
        /\ \A k \in 1..Len(t) : (q \o t)[Len(q) + k] = t[k]
    BY <1>3, <1>8, <1>9, <2>1, ThenTold
  <2>3. DealsAre(events', Len(q), A)
    BY <1>7, <2>2
  <2>4. /\ events' \in Seq(Events) /\ Len(events') = Len(q) + 3
        /\ \A k \in 1..3 : events'[Len(q) + k] = t[k]
    BY <1>7, <1>8, <2>2
  <2> QED
    BY <2>3, <2>4 DEF A
<1>11. server'.hand \ server.hand = {} \cup server.played
  BY <1>1, <1>2
<1>12. Len(q) \in Nat
  BY <1>3
<1>13. server.hand \subseteq server'.hand
  BY <1>1, <1>2
<1> DEFINE n == Len(q)
<1>14. /\ DealsAre(events', n, server'.hand \ server.hand)
       /\ Len(events') = n + 3 /\ n \in Nat
  BY <1>10, <1>11, <1>12
<1>15. /\ events'[n + 1].type = "state" /\ events'[n + 1].state = "JUDGING"
       /\ events'[n + 1].table = Table(server')
       /\ events'[n + 2].type = "info" /\ events'[n + 3].type = "info"
  <2>1. events'[n + 1] = t[1] /\ events'[n + 2] = t[2] /\ events'[n + 3] = t[3]
    BY <1>10
  <2> HIDE DEF n
  <2> QED
    BY <1>1, <1>6, <1>8, <2>1
<1> HIDE DEF n
<1> QED
  BY <1>1, <1>2, <1>10, <1>13, <1>14, <1>15

-----------------------------------------------------------------------------
(* What holds in whatever order things happen.                             *)

Queue == 1..Len(events)

Unplayed == server.hand \cap server.played = {} /\ (server.state = "LOBBY" => server.hand = {})

MessagesOK ==
    \A m \in inFlight : /\ m.answer # "asked" => m.ahead <= Len(events)
                        /\ m.op = "PLAY_CARD" => m.card \in Cards

Base == TypeOK /\ Unplayed /\ MessagesOK

LEMMA LobbyType == InLobby \in Servers
BY DEF InLobby, Servers, States

LEMMA RequestTypes ==
    ASSUME NEW op \in Ops, NEW card \in Cards \cup {None, "shown", "gone"}
    PROVE  Request(op, card) \in Messages
BY LobbyType DEF Request, Messages

LEMMA GoesOnBase ==
    ASSUME Base, GoesOn
    PROVE  /\ server' \in Servers /\ events' \in Seq(Events) /\ Unplayed'
           /\ Len(events) < Len(events') /\ \A i \in Queue : events'[i] = events[i]
           /\ \A i \in 1..Len(events') : i \in Queue \/ TellsOf(events'[i], server')
           /\ server'.state \in {"JUDGING", "LOBBY"} =>
                 \E k \in 1..Len(events') :
                    /\ k \notin Queue /\ events'[k].type = "state"
                    /\ \A j \in 1..Len(events') : events'[j].type = "state" => j <= k
           /\ MyStatus(server') = "JUDGING" =>
                 \E k \in 1..Len(events') : k \notin Queue /\ events'[k].type = "info" /\ events'[k].who = "me"
<1>1. PICK t : News(t, server') /\ events' = events \o t
  BY DEF GoesOn
<1>2. t \in Seq(Events) /\ t # <<>> /\ (\A k \in 1..Len(t) : TellsOf(t[k], server')) /\ events \in Seq(Events)
  BY <1>1 DEF News, Base, TypeOK
<1>3. /\ events' \in Seq(Events) /\ Len(events') = Len(events) + Len(t)
      /\ \A i \in Queue : events'[i] = events[i]
      /\ \A k \in 1..Len(t) : events'[Len(events) + k] = t[k]
      /\ Len(events) \in Nat /\ Len(t) \in Nat \ {0}
  BY <1>1, <1>2 DEF Queue
<1>4. ASSUME NEW i \in 1..Len(events'), i \notin Queue PROVE TellsOf(events'[i], server')
  <2>1. i - Len(events) \in 1..Len(t) /\ i = Len(events) + (i - Len(events))
    BY <1>3, <1>4 DEF Queue
  <2>2. events'[i] = t[i - Len(events)]
    BY <1>3, <2>1
  <2> QED
    BY <1>2, <2>1, <2>2
<1>5. server' \in Servers /\ Unplayed'
  BY DEF GoesOn, Continues, Base, Unplayed
<1>6. ASSUME server'.state \in {"JUDGING", "LOBBY"}
      PROVE  \E k \in 1..Len(events') :
                    /\ k \notin Queue /\ events'[k].type = "state"
                    /\ \A j \in 1..Len(events') : events'[j].type = "state" => j <= k
  <2>1. PICK l \in 1..Len(t) : t[l].type = "state" /\ \A j \in 1..Len(t) : t[j].type = "state" => j <= l
    BY <1>1, <1>6 DEF News
  <2> DEFINE k == Len(events) + l
  <2>2. k \in 1..Len(events') /\ k \notin Queue /\ events'[k].type = "state"
    BY <1>3, <2>1 DEF Queue
  <2>3. ASSUME NEW j \in 1..Len(events'), events'[j].type = "state", ~(j <= k) PROVE FALSE
    <3>1. j - Len(events) \in 1..Len(t) /\ j = Len(events) + (j - Len(events)) /\ ~(j - Len(events) <= l)
      BY <1>3, <2>3
    <3>2. events'[j] = t[j - Len(events)]
      BY <1>3, <3>1
    <3> QED
      BY <2>1, <2>3, <3>1, <3>2
  <2> QED
    BY <2>2, <2>3
<1>7. ASSUME MyStatus(server') = "JUDGING"
      PROVE  \E k \in 1..Len(events') : k \notin Queue /\ events'[k].type = "info" /\ events'[k].who = "me"
  <2>1. PICK l \in 1..Len(t) : t[l].type = "info" /\ t[l].who = "me"
    BY <1>1, <1>7 DEF News
  <2>2. Len(events) + l \in 1..Len(events') /\ Len(events) + l \notin Queue
    BY <1>3 DEF Queue
  <2>3. events'[Len(events) + l] = t[l]
    BY <1>3
  <2> QED
    BY <2>1, <2>2, <2>3
<1> QED
  BY <1>3, <1>4, <1>5, <1>6, <1>7

\* What is answered, and the others.
Answers(m, a) ==
    /\ m \in inFlight /\ m.answer = "asked" /\ a.op = m.op /\ a.card = m.card /\ a.answer \in {"ok", "error"}
    /\ a.data = server /\ a.ahead = Len(events) /\ a \in Messages
    /\ inFlight' = (inFlight \ {m}) \cup {a}

LEMMA AnswerGiven ==
    ASSUME Base, NEW m \in inFlight, m.answer = "asked", NEW answer \in {"ok", "error"}, Answer(m, answer)
    PROVE  Answers(m, [m EXCEPT !.answer = answer, !.data = server, !.ahead = Len(events)])
<1>1. m \in Messages /\ server \in Servers /\ Len(events) \in Nat
  BY DEF Base, TypeOK
<1> QED
  BY <1>1 DEF Answers, Answer, Messages

\* What a request does: it is answered, and the game goes on or not.
LEMMA ServeIs ==
    ASSUME Base, NEW op \in Ops, Serve(op)
    PROVE  \E m, a :
              /\ m \in inFlight /\ Answers(m, a) /\ m.op = op /\ page' = page /\ reloads' = reloads
              /\ \/ /\ UNCHANGED <<server, events>>
                    /\ op = "PLAY_CARD" => /\ a.answer = "error"
                                           /\ ~(MyStatus(server) = "PLAYING" /\ m.card \in server.hand)
                    /\ op = "JUDGE_SELECT" => ~(MyStatus(server) = "JUDGING" /\ m.card = "shown")
                 \/ /\ op = "PLAY_CARD" /\ a.answer = "ok" /\ GoesOn
                    /\ MyStatus(server) = "PLAYING" /\ m.card \in server.hand
                    /\ server'.hand = server.hand \ {m.card}
                 \/ /\ op = "JUDGE_SELECT" /\ GoesOn /\ server'.state = "ROUND_OVER" /\ server'.hand = server.hand
                    /\ MyStatus(server) = "JUDGING"
<1>1. PICK m \in inFlight : /\ m.op = op /\ m.answer = "asked"
                            /\ ServePlay(m) \/ ServeJudge(m) \/ ServeRead(m)
                            /\ UNCHANGED <<page, reloads>>
  BY DEF Serve
<1> DEFINE a(answer) == [m EXCEPT !.answer = answer, !.data = server, !.ahead = Len(events)]
<1>2. /\ \A answer \in {"ok", "error"} : Answer(m, answer) => Answers(m, a(answer))
      /\ \A answer \in {"ok", "error"} : a(answer).answer = answer
  <2>1. m \in Messages
    BY DEF Base, TypeOK
  <2> QED
    BY <1>1, <2>1, AnswerGiven DEF Messages
<1>3. TypeOK /\ server \in Servers
  BY DEF Base, TypeOK
<1> HIDE DEF a
<1>4. CASE ServePlay(m)
  <2>1. op = "PLAY_CARD"
    BY <1>1, <1>4 DEF ServePlay
  <2>2. CASE MyStatus(server) = "PLAYING" /\ m.card \in server.hand
    <3>1. /\ Answer(m, "ok")
          /\ Advance(Plays1(server, m.card), Info("me", MyStatus(Plays1(server, m.card))))
      BY <1>4, <2>2 DEF ServePlay, Plays1
    <3>2. m.card \in Cards
      BY <2>2, <1>3 DEF Servers
    <3>3. GoesOn /\ server'.hand = server.hand \ {m.card}
      BY <1>3, <2>2, <3>1, <3>2, PlayGoesOn
    <3> QED
      BY <1>1, <1>2, <2>1, <2>2, <3>1, <3>3
  <2>3. CASE ~(MyStatus(server) = "PLAYING" /\ m.card \in server.hand)
    <3>1. Answer(m, "error") /\ UNCHANGED <<server, events>>
      BY <1>4, <2>3 DEF ServePlay
    <3> QED
      BY <1>1, <1>2, <2>1, <2>3, <3>1
  <2> QED
    BY <2>2, <2>3
<1>5. CASE ServeJudge(m)
  <2>1. op = "JUDGE_SELECT"
    BY <1>1, <1>5 DEF ServeJudge
  <2>2. CASE MyStatus(server) = "JUDGING" /\ m.card = "shown"
    <3>1. Answer(m, "ok") /\ RoundOver
      BY <1>5, <2>2 DEF ServeJudge
    <3>2. server.state = "JUDGING"
      BY <1>3, <2>2, MyTurns
    <3>3. GoesOn /\ server'.state = "ROUND_OVER" /\ server'.hand = server.hand
      BY <1>3, <3>1, <3>2, RoundOverGoesOn
    <3> QED
      BY <1>1, <1>2, <2>1, <2>2, <3>1, <3>3
  <2>3. CASE ~(MyStatus(server) = "JUDGING" /\ m.card = "shown")
    <3>1. Answer(m, "error") /\ UNCHANGED <<server, events>>
      BY <1>5, <2>3 DEF ServeJudge
    <3> QED
      BY <1>1, <1>2, <2>1, <2>3, <3>1
  <2> QED
    BY <2>2, <2>3
<1>6. CASE ServeRead(m)
  <2>1. op \in {"GET_GAME_INFO", "GET_CARDS"} /\ Answer(m, "ok") /\ UNCHANGED <<server, events>>
    BY <1>1, <1>6 DEF ServeRead
  <2> QED
    BY <1>1, <1>2, <2>1
<1> QED
  BY <1>1, <1>4, <1>5, <1>6

\* A message with one event less before it.
Older(m) == [m EXCEPT !.ahead = IF @ > 0 THEN @ - 1 ELSE 0]

LEMMA OlderIs ==
    ASSUME NEW m \in Messages
    PROVE  /\ Older(m) \in Messages /\ Older(m).op = m.op /\ Older(m).card = m.card
           /\ Older(m).answer = m.answer /\ Older(m).data = m.data
           /\ Older(m).ahead = IF m.ahead > 0 THEN m.ahead - 1 ELSE 0
BY DEF Older, Messages

LEMMA HandleIs ==
    ASSUME Base, HandleEvent
    PROVE  /\ events[1] \in Events /\ InTurn(1) /\ page' = Handled(page, events[1])
           /\ UNCHANGED <<server, reloads>>
           /\ Len(events) \in Nat \ {0} /\ events' \in Seq(Events) /\ Len(events') = Len(events) - 1
           /\ \A i \in 1..Len(events') : i + 1 \in Queue /\ events'[i] = events[i + 1]
           /\ \A i \in Queue : i = 1 \/ (i - 1 \in 1..Len(events') /\ events'[i - 1] = events[i])
           /\ \A m \in inFlight : Older(m) \in inFlight'
           /\ \A n \in inFlight' :
                 \/ \E m \in inFlight : n = Older(m)
                 \/ /\ n = Request("GET_GAME_INFO", None)
                    /\ events[1].type = "state" /\ events[1].state = "PLAYING"
           /\ events[1].type = "state" /\ events[1].state = "PLAYING" =>
                 Request("GET_GAME_INFO", None) \in inFlight'
<1>1. /\ events # <<>> /\ events \in Seq(Events) /\ InTurn(1) /\ page' = Handled(page, Head(events))
      /\ events' = Tail(events) /\ UNCHANGED <<server, reloads>>
      /\ inFlight' = {Older(m) : m \in inFlight} \cup Asked(Head(events))
  BY DEF HandleEvent, Base, TypeOK, Older
<1>2. /\ Head(events) = events[1] /\ events[1] \in Events
      /\ Len(events) \in Nat \ {0} /\ events' \in Seq(Events) /\ Len(events') = Len(events) - 1
      /\ \A i \in 1..Len(events') : events'[i] = events[i + 1]
  BY <1>1
<1>3. \A i \in 1..Len(events') : i + 1 \in Queue /\ events'[i] = events[i + 1]
  BY <1>2 DEF Queue
<1>4. ASSUME NEW i \in Queue, i # 1 PROVE i - 1 \in 1..Len(events') /\ events'[i - 1] = events[i]
  <2>1. i - 1 \in 1..Len(events') /\ (i - 1) + 1 = i
    BY <1>2, <1>4 DEF Queue
  <2> QED
    BY <1>2, <2>1
<1>5. Asked(events[1]) = IF events[1].type = "state" /\ events[1].state = "PLAYING"
                         THEN {Request("GET_GAME_INFO", None)} ELSE {}
  BY DEF Asked
<1> QED
  BY <1>1, <1>2, <1>3, <1>4, <1>5

LEMMA LearnIs ==
    ASSUME Base, NEW op \in Ops, Learn(op)
    PROVE  \E m \in inFlight :
              /\ m.op = op /\ m.answer # "asked" /\ InTurn(m.ahead) /\ inFlight' = inFlight \ {m}
              /\ UNCHANGED <<server, events, reloads>>
              /\ op = "GET_GAME_INFO" => page' = LearnInfo(page, m.data)
              /\ op = "GET_CARDS" => page' = LearnCards(page, m.data)
              /\ op = "PLAY_CARD" => page' = IF m.answer = "ok" THEN PlayComplete(page) ELSE page
              /\ op = "JUDGE_SELECT" => page' = page
<1>1. PICK m \in inFlight :
          /\ m.op = op /\ m.answer # "asked" /\ InTurn(m.ahead) /\ inFlight' = inFlight \ {m}
          /\ page' = CASE m.op = "GET_GAME_INFO" -> LearnInfo(page, m.data)
                       [] m.op = "GET_CARDS" -> LearnCards(page, m.data)
                       [] m.op = "PLAY_CARD" /\ m.answer = "ok" -> PlayComplete(page)
                       [] m.op = "PLAY_CARD" /\ m.answer = "error" -> PlayError(page)
                       [] m.op = "JUDGE_SELECT" -> page
          /\ UNCHANGED <<server, events, reloads>>
  BY DEF Learn
<1>2. m.answer \in {"ok", "error"}
  BY <1>1 DEF Base, TypeOK, Messages
<1> QED
  BY <1>1, <1>2 DEF PlayError

\* What the user does on the page, and what it asks.
LEMMA ConfirmIs ==
    ASSUME Base, ConfirmClick
    PROVE  /\ RoundKnown /\ page.confirm /\ page' = [page EXCEPT !.canSelectCard = FALSE]
           /\ UNCHANGED <<server, events, reloads>>
           /\ "staleConfirm" \in Races \/ page.judge # "me" \/ page.roundSelectedCard # "gone"
           /\ \/ /\ page.judge = "me" /\ page.roundSelectedCard # None
                 /\ inFlight' = inFlight \cup {Request("JUDGE_SELECT", page.roundSelectedCard)}
              \/ /\ page.judge # "me" /\ page.handSelectedCard # None /\ page.handSelectedCard \in Cards
                 /\ inFlight' = inFlight \cup {Request("PLAY_CARD", page.handSelectedCard)}
              \/ /\ page.judge = "me" => page.roundSelectedCard = None
                 /\ page.judge # "me" => page.handSelectedCard = None
                 /\ inFlight' = inFlight
<1>1. page.handSelectedCard # None => page.handSelectedCard \in Cards
  BY DEF Base, TypeOK, Pages
<1> QED
  BY <1>1 DEF ConfirmClick

LEMMA RoundClickIs ==
    ASSUME page \in Pages, RoundCardClick
    PROVE  /\ RoundKnown /\ page.status \in {None, "JUDGING"} /\ UNCHANGED <<server, events, inFlight, reloads>>
           /\ page' \in Pages /\ page'.hand = page.hand /\ page'.handSelectedCard = page.handSelectedCard
           /\ page'.canSelectCard = page.canSelectCard /\ page'.status = page.status
           /\ page'.judge = page.judge /\ page'.state = page.state /\ page'.table = page.table
           /\ page'.confirm => page'.roundSelectedCard # None
<1> DEFINE q(again) == [page EXCEPT !.roundSelectedCard = IF again THEN None ELSE "shown", !.confirm = ~again]
<1>1. PICK again \in BOOLEAN : (again => page.roundSelectedCard = "shown") /\ page' = q(again)
  BY DEF RoundCardClick
<1>2. CASE again = TRUE
  <2>1. page' = [page EXCEPT !.roundSelectedCard = None, !.confirm = FALSE]
    BY <1>1, <1>2
  <2> QED
    BY <2>1 DEF Pages, RoundCardClick
<1>3. CASE again = FALSE
  <2>1. page' = [page EXCEPT !.roundSelectedCard = "shown", !.confirm = TRUE]
    BY <1>1, <1>3
  <2>2. None # "shown"
    BY ClientAssumption
  <2> QED
    BY <2>1, <2>2 DEF Pages, RoundCardClick
<1> QED
  BY <1>2, <1>3

-----------------------------------------------------------------------------
(* Base is kept.                                                           *)

LEMMA BaseGoesOn == ASSUME Base, GoesOn, UNCHANGED <<inFlight, page>> PROVE Base'
<1>1. TypeOK'
  BY GoesOnBase DEF Base, TypeOK
<1>2. MessagesOK'
  <2>1. Len(events) < Len(events') /\ Len(events) \in Nat /\ Len(events') \in Nat
    BY GoesOnBase DEF Base, TypeOK
  <2>2. \A m \in inFlight : m.ahead \in Nat
    BY DEF Base, TypeOK, Messages
  <2> QED
    BY <2>1, <2>2 DEF Base, MessagesOK
<1> QED
  BY <1>1, <1>2, GoesOnBase DEF Base

LEMMA BaseAnswers ==
    ASSUME Base, NEW m, NEW a, Answers(m, a), page' = page, GoesOn \/ UNCHANGED <<server, events>>
    PROVE  Base'
<1>1. /\ server' \in Servers /\ events' \in Seq(Events) /\ Unplayed'
      /\ Len(events) <= Len(events') /\ Len(events) \in Nat /\ Len(events') \in Nat
  <2>1. CASE GoesOn
    BY <2>1, GoesOnBase DEF Base, TypeOK
  <2>2. CASE UNCHANGED <<server, events>>
    BY <2>2 DEF Base, TypeOK, Unplayed
  <2> QED
    BY <2>1, <2>2
<1>2. \A n \in inFlight' : n \in inFlight \/ n = a
  BY DEF Answers
<1>3. TypeOK'
  BY <1>1, <1>2 DEF Answers, Base, TypeOK
<1>4. \A n \in inFlight : n.ahead \in Nat
  BY DEF Base, TypeOK, Messages
<1>5. MessagesOK'
  BY <1>1, <1>2, <1>4 DEF Answers, Base, MessagesOK
<1> QED
  BY <1>1, <1>3, <1>5 DEF Base

LEMMA BaseHandle == ASSUME Base, HandleEvent PROVE Base'
<1>1. ASSUME NEW n \in inFlight'
      PROVE  /\ n \in Messages /\ (n.answer # "asked" => n.ahead <= Len(events'))
             /\ n.op = "PLAY_CARD" => n.card \in Cards
  <2>1. ASSUME NEW m \in inFlight, n = Older(m)
        PROVE  /\ n \in Messages /\ (n.answer # "asked" => n.ahead <= Len(events'))
               /\ n.op = "PLAY_CARD" => n.card \in Cards
    <3>1. m \in Messages /\ m.ahead \in Nat /\ (m.answer # "asked" => m.ahead <= Len(events))
          /\ (m.op = "PLAY_CARD" => m.card \in Cards)
      BY DEF Base, TypeOK, MessagesOK, Messages
    <3>2. Len(events) \in Nat \ {0} /\ Len(events') = Len(events) - 1
      BY HandleIs
    <3>3. /\ n \in Messages /\ n.op = m.op /\ n.card = m.card /\ n.answer = m.answer
          /\ n.ahead = IF m.ahead > 0 THEN m.ahead - 1 ELSE 0
      BY <2>1, <3>1, OlderIs
    <3> QED
      BY <3>1, <3>2, <3>3
  <2>2. CASE n = Request("GET_GAME_INFO", None)
    <3>1. Request("GET_GAME_INFO", None) \in Messages
      BY RequestTypes DEF Ops
    <3> QED
      BY <2>2, <3>1 DEF Request
  <2> QED
    BY <2>1, <2>2, HandleIs
<1>2. page' \in Pages
  BY HandleIs, PageTypes DEF Base, TypeOK
<1>3. server' = server /\ events' \in Seq(Events)
  BY HandleIs
<1> QED
  BY <1>1, <1>2, <1>3 DEF Base, TypeOK, Unplayed, MessagesOK

LEMMA BaseLearn == ASSUME Base, NEW op \in Ops, Learn(op) PROVE Base'
<1>1. PICK m \in inFlight :
              /\ m.op = op /\ inFlight' = inFlight \ {m}
              /\ UNCHANGED <<server, events, reloads>>
              /\ op = "GET_GAME_INFO" => page' = LearnInfo(page, m.data)
              /\ op = "GET_CARDS" => page' = LearnCards(page, m.data)
              /\ op = "PLAY_CARD" => page' = IF m.answer = "ok" THEN PlayComplete(page) ELSE page
              /\ op = "JUDGE_SELECT" => page' = page
  BY LearnIs
<1>2. m.data \in Servers /\ page \in Pages
  BY DEF Base, TypeOK, Messages
<1>3. page' \in Pages
  BY <1>1, <1>2, PageTypes DEF Ops
<1> QED
  BY <1>1, <1>3 DEF Base, TypeOK, Unplayed, MessagesOK

LEMMA BaseRequests ==
    ASSUME Base, UNCHANGED <<server, events>>, page' \in Pages,
           \A n \in inFlight' : \/ n \in inFlight
                                \/ n \in Messages /\ n.answer = "asked" /\ (n.op = "PLAY_CARD" => n.card \in Cards)
    PROVE  Base'
BY DEF Base, TypeOK, Unplayed, MessagesOK

LEMMA NewPageType == NewGame \in Pages
<1>1. [c \in Cards |-> 0] \in [Cards -> Int]
  OBVIOUS
<1> QED
  BY <1>1 DEF NewGame, Pages, States

LEMMA BaseInit == ASSUME Init PROVE Base
<1>1. /\ Request("GET_GAME_INFO", None) \in Messages /\ Request("GET_CARDS", None) \in Messages
  BY RequestTypes DEF Ops
<1>2. \A m \in inFlight : m.answer = "asked" /\ m.op # "PLAY_CARD" /\ m \in Messages
  BY <1>1 DEF Init, Request
<1>3. events \in Seq(Events) /\ page \in Pages /\ server \in Servers
  BY NewPageType, LobbyType DEF Init
<1>4. Unplayed
  BY DEF Init, Unplayed, InLobby
<1> QED
  BY <1>2, <1>3, <1>4 DEF Base, TypeOK, MessagesOK

LEMMA BaseReload == ASSUME Base, Reload PROVE Base'
<1>1. /\ Request("GET_GAME_INFO", None) \in Messages /\ Request("GET_CARDS", None) \in Messages
  BY RequestTypes DEF Ops
<1>2. \A m \in inFlight' : m.answer = "asked" /\ m.op # "PLAY_CARD" /\ m \in Messages
  BY <1>1 DEF Reload, Request
<1>3. UNCHANGED <<server, events>> /\ page' \in Pages
  BY NewPageType DEF Reload
<1> QED
  BY <1>2, <1>3, BaseRequests

LEMMA BaseStep == ASSUME Base, [Next]_vars PROVE Base'
<1>1. TypeOK /\ Unplayed /\ page \in Pages
  BY DEF Base, TypeOK
<1>2. CASE StartRound
  <2>1. /\ server' \in Servers /\ server'.state = "PLAYING" /\ server'.played = {}
        /\ events' \in Seq(Events) /\ UNCHANGED <<inFlight, page>> /\ events = <<>>
    BY <1>1, <1>2, RoundStarts DEF Unplayed
  <2>2. Len(events) = 0 /\ Len(events') \in Nat
    BY <2>1
  <2>3. \A m \in inFlight : m.ahead \in Nat
    BY DEF Base, TypeOK, Messages
  <2> QED
    BY <2>1, <2>2, <2>3 DEF Base, TypeOK, Unplayed, MessagesOK
<1>3. CASE SkipMe
  <2>1. /\ server' \in Servers /\ server'.state = "JUDGING" /\ server'.played = {}
        /\ events' \in Seq(Events) /\ UNCHANGED <<inFlight, page>> /\ events = <<>>
    BY <1>1, <1>3, SkippedMe DEF Unplayed
  <2>2. Len(events) = 0 /\ Len(events') \in Nat
    BY <2>1
  <2>3. \A m \in inFlight : m.ahead \in Nat
    BY DEF Base, TypeOK, Messages
  <2> QED
    BY <2>1, <2>2, <2>3 DEF Base, TypeOK, Unplayed, MessagesOK
<1>4. CASE OthersPlay
  BY <1>1, <1>4, OthersPlayGoesOn, BaseGoesOn DEF OthersPlay
<1>5. CASE OtherJudges
  <2>1. RoundOver /\ server.state = "JUDGING" /\ UNCHANGED <<inFlight, page>>
    BY <1>5 DEF OtherJudges
  <2> QED
    BY <1>1, <2>1, RoundOverGoesOn, BaseGoesOn
<1>6. CASE ResetState
  <2>1. UNCHANGED <<inFlight, page>>
    BY <1>6 DEF ResetState
  <2> QED
    BY <1>1, <1>6, <2>1, ResetStateGoesOn, BaseGoesOn
<1>7. CASE HandleEvent
  BY <1>7, BaseHandle
<1>8. ASSUME NEW op \in Ops, Serve(op) PROVE Base'
  <2>1. PICK m, a :
            m \in inFlight /\ Answers(m, a) /\ page' = page /\ (GoesOn \/ UNCHANGED <<server, events>>)
    BY <1>8, ServeIs
  <2> QED
    BY <2>1, BaseAnswers
<1>9. ASSUME NEW op \in Ops, Learn(op) PROVE Base'
  BY <1>9, BaseLearn
<1>10. ASSUME NEW c \in Cards, HandCardClick(c) PROVE Base'
  <2> DEFINE card == IF page.handSelectedCard = c THEN None ELSE c
             on == ~(page.handSelectedCard = c)
  <2>1. page' = [page EXCEPT !.handSelectedCard = card, !.confirm = on]
        /\ UNCHANGED <<server, events, inFlight>>
    BY <1>10 DEF HandCardClick
  <2>2. card \in Cards \cup {None} /\ on \in BOOLEAN
    OBVIOUS
  <2> HIDE DEF card, on
  <2>3. page' \in Pages
    BY <1>1, <2>1, <2>2 DEF Pages
  <2> QED
    BY <2>1, <2>3, BaseRequests
<1>11. CASE RoundCardClick
  <2>1. page' \in Pages /\ UNCHANGED <<server, events, inFlight>>
    BY <1>1, <1>11, RoundClickIs
  <2> QED
    BY <2>1, BaseRequests
<1>12. CASE ConfirmClick
  <2>1. page' \in Pages /\ UNCHANGED <<server, events>>
    BY <1>1, <1>12, ConfirmIs DEF Pages
  <2>2. ASSUME NEW n \in inFlight', n \notin inFlight
        PROVE  n \in Messages /\ n.answer = "asked" /\ (n.op = "PLAY_CARD" => n.card \in Cards)
    <3>1. \/ /\ page.roundSelectedCard # None /\ n = Request("JUDGE_SELECT", page.roundSelectedCard)
          \/ page.handSelectedCard \in Cards /\ n = Request("PLAY_CARD", page.handSelectedCard)
      BY <1>12, <2>2, ConfirmIs
    <3>2. page.roundSelectedCard \in {None, "shown", "gone"}
      BY <1>1 DEF Pages
    <3>3. n \in Messages
      BY <3>1, <3>2, RequestTypes DEF Ops
    <3> QED
      BY <3>1, <3>3 DEF Request
  <2> QED
    BY <2>1, <2>2, BaseRequests
<1>13. CASE Reload
  BY <1>13, BaseReload
<1>14. CASE UNCHANGED vars
  BY <1>14 DEF vars, Base, TypeOK, Unplayed, MessagesOK
<1> QED
  BY <1>2, <1>3, <1>4, <1>5, <1>6, <1>7, <1>8, <1>9, <1>10, <1>11, <1>12, <1>13, <1>14 DEF Next

-----------------------------------------------------------------------------
(* The hand.  A card that the server has in the hand is on the page, or in *)
(* the answer with the hand, or dealt to the page by an event; on the page *)
(* is, too, the card that the page has yet to hear was played.             *)

Ordered == Races \cap {"overtaken", "hasty", "dealAroundLoad"} = {}

Plays == {m \in inFlight : m.op = "PLAY_CARD"}
Loads == {m \in inFlight : m.op = "GET_CARDS"}
Infos == {m \in inFlight : m.op = "GET_GAME_INFO"}

Coming(s) == \E i \in Queue : events[i].type = "state" /\ events[i].state = s

OnTheWay == {c \in Cards : \E i \in Queue : events[i].type = "deal" /\ c \in events[i].cards}

Loaded == {c \in Cards : \E m \in Loads : c \in m.data.hand}

\* Cards the page has yet to hear were played.
Laid == {c \in Cards : \E m \in Plays : m.answer = "ok" /\ m.card = c}

\* One that will be played.
Fresh(m) == m.answer = "asked" /\ MyStatus(server) = "PLAYING" /\ m.card \in server.hand

In(c, S) == IF c \in S THEN 1 ELSE 0

NoticesOK ==
    /\ Coming("LOBBY") => server.state = "LOBBY"
    /\ MyStatus(server) = "PLAYING" =>
          \A i \in Queue : events[i].type = "info" /\ events[i].who = "me" => events[i].status = "PLAYING"
    /\ \E n \in Nat : DealsAre(events, n, OnTheWay)

\* While the hand is loaded none is dealt and none is played.
LoadsOK ==
    \A m \in Loads :
        /\ \A l \in Loads : l = m
        /\ Plays = {} /\ page.handSelectedCard = None /\ \A c \in Cards : page.hand[c] = 0
        /\ m.answer = "asked" => \A i \in Queue : events[i].type # "deal"
        /\ m.answer # "asked" =>
              \A i \in 1..m.ahead :
                 /\ events[i].type # "deal"
                 /\ events[i].type = "state" /\ events[i].state = "LOBBY" => m.data.hand = {}

\* A card is selected, and no other can be, from the time that it is confirmed until the
\* page hears that it was played.
PlaysOK ==
    \A m \in Plays :
        /\ m.answer = "asked" => Infos = {} /\ ~Coming("PLAYING")
        /\ Fresh(m) => /\ page.handSelectedCard = m.card /\ ~page.canSelectCard
                       /\ \A l \in Plays : l.answer # "ok"
        /\ m.answer = "ok" =>
              /\ \A l \in Plays : l.answer = "ok" => l = m
              /\ Infos = {} /\ m.ahead < Len(events)
              /\ \A i \in 1..m.ahead :
                    /\ events[i].type = "state" => events[i].state \notin {"PLAYING", "LOBBY"}
                    /\ events[i].type = "info" /\ events[i].who = "me" => events[i].status = "PLAYING"
              /\ page.handSelectedCard = m.card /\ ~page.canSelectCard /\ m.card \notin server.hand

HandBalance ==
    (\A m \in Loads : m.answer # "asked") /\ ~Coming("LOBBY") =>
        \A c \in Cards :
            page.hand[c] + In(c, Loaded) + In(c, OnTheWay) = In(c, server.hand) + In(c, Laid)

HandInv == Base /\ NoticesOK /\ LoadsOK /\ PlaysOK /\ HandBalance

\* What the game tells as it goes on.
LEMMA NoticesGoOn ==
    ASSUME Base, NoticesOK, GoesOn
    PROVE  /\ NoticesOK' /\ OnTheWay' = OnTheWay /\ ~Coming("LOBBY") /\ server'.hand \subseteq server.hand
           /\ \A s : Coming(s) => Coming(s)'
           /\ Coming("PLAYING")' => Coming("PLAYING")
           /\ server'.state = "LOBBY" => Coming("LOBBY")'
           /\ MyStatus(server') = "PLAYING" => MyStatus(server) = "PLAYING"
<1>1. /\ server' \in Servers /\ events' \in Seq(Events) /\ Len(events) < Len(events')
      /\ Len(events) \in Nat /\ Len(events') \in Nat
      /\ \A i \in Queue : events'[i] = events[i]
      /\ \A i \in Queue' : i \in Queue \/ TellsOf(events'[i], server')
      /\ Queue \subseteq Queue'
  BY GoesOnBase DEF Base, TypeOK, Queue
<1>2. /\ server.state # "LOBBY" /\ server'.hand \subseteq server.hand
      /\ MyStatus(server') = "PLAYING" => MyStatus(server) = "PLAYING"
  BY DEF GoesOn, Continues
<1>3. ~Coming("LOBBY")
  BY <1>2 DEF NoticesOK
<1>4. \A s : Coming(s) => Coming(s)'
  BY <1>1 DEF Coming
<1>5. ASSUME NEW s, Coming(s)', ~Coming(s) PROVE server'.state \in {"JUDGING", "LOBBY"} /\ server'.state = s
  BY <1>1, <1>5 DEF Coming, TellsOf
<1>6. server'.state = "LOBBY" => Coming("LOBBY")'
  <2> SUFFICES ASSUME server'.state = "LOBBY" PROVE Coming("LOBBY")'
    OBVIOUS
  <2>1. PICK k \in Queue' : k \notin Queue /\ events'[k].type = "state"
    BY GoesOnBase DEF Queue
  <2>2. TellsOf(events'[k], server')
    BY <1>1, <2>1
  <2> QED
    BY <2>1, <2>2 DEF Coming, TellsOf
<1>7. OnTheWay' = OnTheWay
  BY <1>1 DEF OnTheWay, TellsOf
<1>8. \E n \in Nat : DealsAre(events', n, OnTheWay')
  <2>1. PICK n \in Nat : DealsAre(events, n, OnTheWay)
    BY DEF NoticesOK
  <2>2. n \in 0..Len(events) /\ \A i \in 1..n : i \in Queue /\ events'[i] = events[i]
    BY <1>1, <2>1 DEF DealsAre, Queue
  <2>3. ASSUME NEW i \in 1..Len(events') PROVE events'[i].type = "deal" <=> i <= n
    <3>1. CASE i \in Queue
      BY <1>1, <2>1, <3>1 DEF DealsAre, Queue
    <3>2. CASE i \notin Queue
      BY <1>1, <2>2, <3>2 DEF Queue, TellsOf
    <3> QED
      BY <3>1, <3>2
  <2>4. \A i, j \in 1..n : i # j => events'[i].cards \cap events'[j].cards = {}
    BY <2>1, <2>2 DEF DealsAre
  <2>5. \A c \in Cards : c \in OnTheWay <=> \E i \in 1..n : c \in events'[i].cards
    BY <2>1, <2>2 DEF DealsAre
  <2>6. n \in 0..Len(events')
    BY <1>1, <2>2
  <2>7. DealsAre(events', n, OnTheWay)
    BY <2>3, <2>4, <2>5, <2>6 DEF DealsAre
  <2> QED
    BY <1>7, <2>7
<1>9. MyStatus(server') = "PLAYING" =>
          \A i \in Queue' : events'[i].type = "info" /\ events'[i].who = "me" => events'[i].status = "PLAYING"
  <2> SUFFICES ASSUME MyStatus(server') = "PLAYING", NEW i \in Queue',
                      events'[i].type = "info", events'[i].who = "me"
               PROVE  events'[i].status = "PLAYING"
    OBVIOUS
  <2>1. EngagedIn(server')
    BY <1>1, MyTurns DEF EngagedIn
  <2>2. CASE i \in Queue
    BY <1>1, <1>2, <2>2 DEF NoticesOK
  <2>3. CASE TellsOf(events'[i], server')
    BY <2>1, <2>3 DEF TellsOf
  <2> QED
    BY <1>1, <2>2, <2>3
<1>10. Coming("LOBBY")' => server'.state = "LOBBY"
  BY <1>3, <1>5
<1>11. NoticesOK'
  BY <1>8, <1>9, <1>10 DEF NoticesOK
<1> QED
  BY <1>2, <1>3, <1>4, <1>5, <1>6, <1>7, <1>11

\* Cards are dealt into a queue that is empty.
LEMMA NoticesDealt ==
    ASSUME NEW n \in Nat, NEW A \in SUBSET Cards, events' \in Seq(Events), DealsAre(events', n, A)
    PROVE  /\ OnTheWay' = A /\ DealsAre(events', n, OnTheWay')
           /\ \A i \in Queue' : events'[i].type = "deal" <=> i <= n
<1>1. /\ n \in 0..Len(events') /\ Len(events') \in Nat
      /\ \A i \in Queue' : events'[i].type = "deal" <=> i <= n
      /\ \A c \in Cards : c \in A <=> \E i \in 1..n : c \in events'[i].cards
  BY DEF DealsAre, Queue
<1>2. ASSUME NEW c \in Cards
      PROVE  c \in A <=> \E i \in Queue' : events'[i].type = "deal" /\ c \in events'[i].cards
  <2>1. \A i \in 1..n : i \in Queue' /\ events'[i].type = "deal"
    BY <1>1 DEF Queue
  <2>2. \A i \in Queue' : events'[i].type = "deal" => i \in 1..n
    BY <1>1 DEF Queue
  <2> QED
    BY <1>1, <2>1, <2>2
<1>3. OnTheWay' = A
  BY <1>2 DEF OnTheWay
<1> QED
  BY <1>1, <1>3

LEMMA NoticesHandled ==
    ASSUME Base, NoticesOK, HandleEvent
    PROVE  /\ NoticesOK' /\ \A s : Coming(s)' => Coming(s)
           /\ \A s : Coming(s) => Coming(s)' \/ (events[1].type = "state" /\ events[1].state = s)
           /\ events[1].type = "deal" => events[1].cards \subseteq OnTheWay /\ OnTheWay' = OnTheWay \ events[1].cards
           /\ events[1].type # "deal" => OnTheWay = {} /\ OnTheWay' = {}
                                         /\ \A i \in Queue : events[i].type # "deal"
<1>1. /\ server' = server /\ Len(events) \in Nat \ {0} /\ events' \in Seq(Events)
      /\ Len(events') = Len(events) - 1 /\ events[1] \in Events
      /\ \A i \in Queue' : i + 1 \in Queue /\ events'[i] = events[i + 1]
      /\ \A i \in Queue : i = 1 \/ (i - 1 \in Queue' /\ events'[i - 1] = events[i])
      /\ 1 \in Queue
  BY HandleIs DEF Queue
<1>2. PICK n \in Nat : DealsAre(events, n, OnTheWay)
  BY DEF NoticesOK
<1>3. \A s : Coming(s)' => Coming(s)
  BY <1>1 DEF Coming
<1>4. \A s : Coming(s) => Coming(s)' \/ (events[1].type = "state" /\ events[1].state = s)
  BY <1>1 DEF Coming
<1>5. MyStatus(server') = "PLAYING" =>
          \A i \in Queue' : events'[i].type = "info" /\ events'[i].who = "me" => events'[i].status = "PLAYING"
  BY <1>1 DEF NoticesOK
<1>6. \A i \in Queue : events[i].type = "deal" <=> i <= n
  BY <1>2 DEF DealsAre, Queue
<1>7. CASE events[1].type = "deal"
  <2>1. n >= 1 /\ n - 1 \in Nat /\ n - 1 \in 0..Len(events')
    BY <1>1, <1>2, <1>6, <1>7 DEF DealsAre
  <2>2. \A i \in 1..(n - 1) : i + 1 \in 1..n /\ events'[i] = events[i + 1]
    BY <1>1, <2>1 DEF Queue
  <2>3. \A i \in 1..n : i = 1 \/ (i - 1 \in 1..(n - 1) /\ events'[i - 1] = events[i])
    BY <1>1, <1>2 DEF Queue, DealsAre
  <2>4. events[1].cards \subseteq Cards
    BY <1>1, <1>7 DEF Events
  <2>5. events[1].cards \subseteq OnTheWay
    BY <1>1, <1>7, <2>4 DEF OnTheWay
  <2>6. \A i \in Queue' : events'[i].type = "deal" <=> i <= n - 1
    <3> SUFFICES ASSUME NEW i \in Queue' PROVE events'[i].type = "deal" <=> i <= n - 1
      OBVIOUS
    <3>1. i + 1 \in Queue /\ events'[i] = events[i + 1]
      BY <1>1
    <3>2. i + 1 <= n <=> i <= n - 1
      BY <1>1 DEF Queue
    <3> QED
      BY <1>6, <3>1, <3>2
  <2>7. \A i, j \in 1..(n - 1) : i # j => events'[i].cards \cap events'[j].cards = {}
    <3> SUFFICES ASSUME NEW i \in 1..(n - 1), NEW j \in 1..(n - 1), i # j
                 PROVE  events'[i].cards \cap events'[j].cards = {}
      OBVIOUS
    <3>1. i + 1 \in 1..n /\ j + 1 \in 1..n /\ i + 1 # j + 1
      BY <2>1
    <3> QED
      BY <1>2, <2>2, <3>1 DEF DealsAre
  <2>8. ASSUME NEW c \in Cards
        PROVE  c \in OnTheWay \ events[1].cards <=> \E i \in 1..(n - 1) : c \in events'[i].cards
    <3>1. c \in OnTheWay <=> \E i \in 1..n : c \in events[i].cards
      BY <1>2 DEF DealsAre
    <3>2. ASSUME NEW i \in 1..(n - 1), c \in events'[i].cards PROVE c \in OnTheWay \ events[1].cards
      <4>1. i + 1 \in 1..n /\ c \in events[i + 1].cards /\ i + 1 # 1 /\ 1 \in 1..n
        BY <2>1, <2>2, <3>2
      <4>2. events[i + 1].cards \cap events[1].cards = {}
        BY <1>2, <4>1 DEF DealsAre
      <4> QED
        BY <3>1, <4>1, <4>2
    <3>3. ASSUME c \in OnTheWay, c \notin events[1].cards PROVE \E i \in 1..(n - 1) : c \in events'[i].cards
      <4>1. PICK i \in 1..n : c \in events[i].cards
        BY <3>1, <3>3
      <4>2. i - 1 \in 1..(n - 1) /\ events'[i - 1] = events[i]
        BY <2>3, <3>3, <4>1
      <4> QED
        BY <4>1, <4>2
    <3> QED
      BY <3>2, <3>3
  <2> DEFINE A == OnTheWay \ events[1].cards
  <2>9. A \in SUBSET Cards
    BY DEF OnTheWay
  <2>10. DealsAre(events', n - 1, A)
    BY <2>1, <2>6, <2>7, <2>8 DEF DealsAre, Queue
  <2> HIDE DEF A
  <2>11. OnTheWay' = A /\ DealsAre(events', n - 1, OnTheWay')
    BY <1>1, <2>1, <2>9, <2>10, NoticesDealt
  <2>12. NoticesOK'
    BY <1>1, <1>3, <1>5, <2>1, <2>11 DEF NoticesOK
  <2> QED
    BY <1>3, <1>4, <1>7, <2>5, <2>11, <2>12 DEF A
<1>8. CASE events[1].type # "deal"
  <2>1. \A i \in Queue : events[i].type # "deal"
    <3>1. ~(1 <= n)
      BY <1>1, <1>6, <1>8
    <3> QED
      BY <1>1, <1>6, <3>1 DEF Queue
  <2>2. OnTheWay = {}
    BY <2>1 DEF OnTheWay
  <2>3. \A i \in Queue' : events'[i].type # "deal"
    BY <1>1, <2>1
  <2>4. OnTheWay' = {}
    BY <2>3 DEF OnTheWay
  <2>5. DealsAre(events', 0, OnTheWay')
    BY <1>1, <2>3, <2>4 DEF DealsAre, Queue
  <2>6. NoticesOK'
    BY <1>1, <1>3, <1>5, <2>5 DEF NoticesOK
  <2> QED
    BY <1>3, <1>4, <1>8, <2>1, <2>2, <2>4, <2>6
<1> QED
  BY <1>7, <1>8

\* What an event does to the hand and what is selected of it.
LEMMA HandledHand ==
    ASSUME NEW p \in Pages, NEW e \in Events
    PROVE  LET q == Handled(p, e)
               Is(s) == e.type = "state" /\ e.state = s
               Me == e.type = "info" /\ e.who = "me"
           IN  /\ e.type = "deal" => \A c \in Cards : q.hand[c] = p.hand[c] + In(c, e.cards)
               /\ Is("LOBBY") => (\A c \in Cards : q.hand[c] = 0) /\ q.handSelectedCard = None
               /\ e.type # "deal" /\ ~Is("LOBBY") => q.hand = p.hand
               /\ ~Is("LOBBY") /\ (Me => e.status = "PLAYING") => q.handSelectedCard = p.handSelectedCard
               /\ q.handSelectedCard \in {p.handSelectedCard, None}
               /\ ~Is("PLAYING") => q.canSelectCard = p.canSelectCard
<1>1. CASE e.type = "deal"
  BY <1>1 DEF Handled, Dealt, Pages, In
<1>2. CASE e.type = "state"
  <2>1. e.state \in {"LOBBY", "PLAYING", "JUDGING"}
    BY <1>2 DEF Events
  <2>2. Handled(p, e) = ToState(p, e)
    BY <1>2 DEF Handled
  <2>3. Cleared(p) \in Pages /\ Cleared(p).hand = p.hand /\ Cleared(p).handSelectedCard = p.handSelectedCard
        /\ Cleared(p).canSelectCard = p.canSelectCard
    BY DEF Cleared, Pages
  <2>4. CASE e.state = "LOBBY"
    <3> DEFINE r == Cleared(p)
    <3>1. ToState(p, e) = [r EXCEPT !.state = "LOBBY", !.judge = None, !.hand = [c \in Cards |-> 0],
                               !.handSelectedCard = None, !.confirm = FALSE]
      BY <2>4 DEF ToState
    <3>2. {"hand", "handSelectedCard", "canSelectCard"} \subseteq DOMAIN r
      BY <2>3 DEF Pages
    <3> HIDE DEF r
    <3>3. /\ ToState(p, e).hand = [c \in Cards |-> 0] /\ ToState(p, e).handSelectedCard = None
          /\ ToState(p, e).canSelectCard = r.canSelectCard
      BY <3>1, <3>2
    <3> QED
      BY <1>2, <2>2, <2>3, <2>4, <3>3 DEF r
  <2>5. CASE e.state = "PLAYING"
    BY <1>2, <2>2, <2>3, <2>5 DEF ToState, Pages
  <2>6. CASE e.state = "JUDGING"
    BY <1>2, <2>2, <2>3, <2>6 DEF ToState, Pages
  <2> QED
    BY <2>1, <2>4, <2>5, <2>6
<1>3. CASE e.type = "info"
  <2>1. CASE e.who = "me"
    BY <1>3, <2>1 DEF Handled, UpdateMe, Pages
  <2>2. CASE e.who = "judge"
    BY <1>3, <2>2 DEF Handled, UpdateJudge, Pages
  <2>3. CASE e.who = "player"
    BY <1>3, <2>3 DEF Handled, UpdatePlayer, Pages
  <2> QED
    BY <1>3, <2>1, <2>2, <2>3 DEF Events
<1>4. CASE e.type = "complete"
  BY <1>4 DEF Handled, Pages
<1> QED
  BY <1>1, <1>2, <1>3, <1>4 DEF Events

LEMMA LearnedHand ==
    ASSUME NEW p \in Pages, NEW s
    PROVE  /\ LearnInfo(p, s).hand = p.hand /\ LearnInfo(p, s).canSelectCard = p.canSelectCard
           /\ LearnInfo(p, s).handSelectedCard \in {p.handSelectedCard, None}
           /\ \A c \in Cards : LearnCards(p, s).hand[c] = p.hand[c] + In(c, s.hand)
           /\ p.handSelectedCard # None =>
                \A c \in Cards : PlayComplete(p).hand[c] = p.hand[c] - In(c, {p.handSelectedCard})
<1> DEFINE q == UpdatePlayer(p, PlayerStatus(s))
           r == UpdateJudge(q, JudgeStatus(s))
<1>1. q.hand = p.hand /\ q.canSelectCard = p.canSelectCard /\ q.handSelectedCard = p.handSelectedCard
  BY DEF UpdatePlayer, Pages
<1>2. r.hand = q.hand /\ r.canSelectCard = q.canSelectCard /\ r.handSelectedCard = q.handSelectedCard
  BY DEF UpdateJudge, UpdatePlayer, Pages
<1>3. DOMAIN r = DOMAIN p
  BY DEF UpdateJudge, UpdatePlayer, Pages
<1>4. LearnInfo(p, s) = UpdateMe(r, MyStatus(s))
  BY DEF LearnInfo
<1>5. {"hand", "canSelectCard", "handSelectedCard"} \subseteq DOMAIN p
  BY DEF Pages
<1> HIDE DEF q, r
<1>6. /\ LearnInfo(p, s).hand = p.hand /\ LearnInfo(p, s).canSelectCard = p.canSelectCard
      /\ LearnInfo(p, s).handSelectedCard \in {p.handSelectedCard, None}
  BY <1>1, <1>2, <1>3, <1>4, <1>5 DEF UpdateMe
<1>7. \A c \in Cards : LearnCards(p, s).hand[c] = p.hand[c] + In(c, s.hand)
  BY DEF LearnCards, Dealt, Pages, In
<1>8. p.handSelectedCard # None =>
        \A c \in Cards : PlayComplete(p).hand[c] = p.hand[c] - In(c, {p.handSelectedCard})
  BY DEF PlayComplete, Pages, In
<1> QED
  BY <1>6, <1>7, <1>8

LEMMA HandGoesOn ==
    ASSUME HandInv, Base', GoesOn, Loads' = Loads, Plays' = Plays, Infos = {} => Infos' = {},
           page' = page, server'.hand = server.hand \/ server'.state = "LOBBY"
    PROVE  HandInv'
<1>1. /\ NoticesOK' /\ OnTheWay' = OnTheWay /\ ~Coming("LOBBY") /\ server'.hand \subseteq server.hand
      /\ Coming("PLAYING")' => Coming("PLAYING")
      /\ server'.state = "LOBBY" => Coming("LOBBY")'
      /\ MyStatus(server') = "PLAYING" => MyStatus(server) = "PLAYING"
  BY NoticesGoOn DEF HandInv
<1>2. /\ Len(events) < Len(events') /\ Len(events) \in Nat /\ Len(events') \in Nat
      /\ \A i \in Queue : events'[i] = events[i]
      /\ \A i \in Queue' : i \in Queue \/ TellsOf(events'[i], server')
  BY GoesOnBase DEF HandInv, Base, TypeOK, Queue
<1>3. \A m \in inFlight : m.answer # "asked" => \A i \in 1..m.ahead : i \in Queue
  BY <1>2 DEF HandInv, Base, TypeOK, MessagesOK, Messages, Queue
<1>4. LoadsOK'
  <2> SUFFICES ASSUME NEW m \in Loads
               PROVE  /\ \A l \in Loads : l = m
                      /\ Plays = {} /\ page.handSelectedCard = None /\ \A c \in Cards : page.hand[c] = 0
                      /\ m.answer = "asked" => \A i \in Queue' : events'[i].type # "deal"
                      /\ m.answer # "asked" =>
                            \A i \in 1..m.ahead :
                               /\ events'[i].type # "deal"
                               /\ events'[i].type = "state" /\ events'[i].state = "LOBBY" => m.data.hand = {}
    BY DEF LoadsOK
  <2>1. m \in inFlight
    BY DEF Loads
  <2> QED
    BY <1>2, <1>3, <2>1 DEF HandInv, LoadsOK, TellsOf
<1>5. PlaysOK'
  <2> SUFFICES ASSUME NEW m \in Plays
               PROVE  /\ m.answer = "asked" => Infos' = {} /\ ~Coming("PLAYING")'
                      /\ Fresh(m)' => /\ page.handSelectedCard = m.card /\ ~page.canSelectCard
                                      /\ \A l \in Plays : l.answer # "ok"
                      /\ m.answer = "ok" =>
                           /\ \A l \in Plays : l.answer = "ok" => l = m
                           /\ Infos' = {} /\ m.ahead < Len(events')
                           /\ \A i \in 1..m.ahead :
                                 /\ events'[i].type = "state" => events'[i].state \notin {"PLAYING", "LOBBY"}
                                 /\ events'[i].type = "info" /\ events'[i].who = "me" => events'[i].status = "PLAYING"
                           /\ page.handSelectedCard = m.card /\ ~page.canSelectCard /\ m.card \notin server'.hand
    BY DEF PlaysOK
  <2>1. m \in inFlight /\ m.ahead \in Nat
    BY DEF Plays, HandInv, Base, TypeOK, Messages
  <2>2. Fresh(m)' => Fresh(m)
    BY <1>1 DEF Fresh
  <2>3. m.answer = "asked" => Infos' = {} /\ ~Coming("PLAYING")'
    BY <1>1 DEF HandInv, PlaysOK
  <2>4. Fresh(m)' => /\ page.handSelectedCard = m.card /\ ~page.canSelectCard
                     /\ \A l \in Plays : l.answer # "ok"
    BY <2>2 DEF HandInv, PlaysOK
  <2>5. ASSUME m.answer = "ok"
        PROVE  /\ \A l \in Plays : l.answer = "ok" => l = m
               /\ Infos' = {} /\ m.ahead < Len(events')
               /\ page.handSelectedCard = m.card /\ ~page.canSelectCard /\ m.card \notin server'.hand
    BY <1>1, <1>2, <2>1, <2>5 DEF HandInv, PlaysOK
  <2>6. ASSUME m.answer = "ok", NEW i \in 1..m.ahead
        PROVE  /\ events'[i].type = "state" => events'[i].state \notin {"PLAYING", "LOBBY"}
               /\ events'[i].type = "info" /\ events'[i].who = "me" => events'[i].status = "PLAYING"
    BY <1>2, <1>3, <2>1, <2>6 DEF HandInv, PlaysOK
  <2> QED
    BY <2>3, <2>4, <2>5, <2>6
<1>6. HandBalance'
  <2>1. Loaded' = Loaded /\ Laid' = Laid
    BY DEF Loaded, Laid
  <2>2. Coming("LOBBY")' \/ server'.hand = server.hand
    BY <1>1
  <2> QED
    BY <1>1, <2>1, <2>2 DEF HandInv, HandBalance
<1> QED
  BY <1>1, <1>4, <1>5, <1>6 DEF HandInv

LEMMA HandStays ==
    ASSUME HandInv, Base', UNCHANGED <<server, events>>, Loads' = Loads, Plays' = Plays,
           Infos = {} => Infos' = {}, page'.hand = page.hand, ~page.canSelectCard => ~page'.canSelectCard,
           \/ page'.handSelectedCard = page.handSelectedCard
           \/ page'.handSelectedCard = None /\ Infos # {}
    PROVE  HandInv'
<1>1. \A s : Coming(s)' <=> Coming(s)
  BY DEF Coming, Queue
<1>2. OnTheWay' = OnTheWay /\ Loaded' = Loaded /\ Laid' = Laid
  BY DEF OnTheWay, Queue, Loaded, Laid
<1>3. NoticesOK'
  BY <1>1, <1>2 DEF HandInv, NoticesOK, Queue
<1>4. LoadsOK'
  BY DEF HandInv, LoadsOK, Queue
<1>5. PlaysOK'
  <2> SUFFICES ASSUME NEW m \in Plays
               PROVE  /\ m.answer = "asked" => Infos' = {} /\ ~Coming("PLAYING")'
                      /\ Fresh(m)' => /\ page'.handSelectedCard = m.card /\ ~page'.canSelectCard
                                      /\ \A l \in Plays : l.answer # "ok"
                      /\ m.answer = "ok" =>
                           /\ \A l \in Plays : l.answer = "ok" => l = m
                           /\ Infos' = {} /\ m.ahead < Len(events)
                           /\ \A i \in 1..m.ahead :
                                 /\ events[i].type = "state" => events[i].state \notin {"PLAYING", "LOBBY"}
                                 /\ events[i].type = "info" /\ events[i].who = "me" => events[i].status = "PLAYING"
                           /\ page'.handSelectedCard = m.card /\ ~page'.canSelectCard /\ m.card \notin server.hand
    BY DEF PlaysOK
  <2>1. Fresh(m)' <=> Fresh(m)
    BY DEF Fresh
  <2>2. Fresh(m) => m.answer = "asked"
    BY DEF Fresh
  <2> QED
    BY <1>1, <2>1, <2>2 DEF HandInv, PlaysOK
<1>6. HandBalance'
  BY <1>1, <1>2 DEF HandInv, HandBalance
<1> QED
  BY <1>3, <1>4, <1>5, <1>6 DEF HandInv

\* Cards are dealt when nothing is under way that plays one.
LEMMA HandDealt ==
    ASSUME HandInv, Base', events = <<>>, Dealing, Ordered, UNCHANGED <<inFlight, page>>,
           server.hand \subseteq server'.hand,
           NEW n \in Nat, DealsAre(events', n, server'.hand \ server.hand),
           \A i \in Queue' : events'[i].type = "state" => events'[i].state = server'.state,
           server'.state # "LOBBY",
           MyStatus(server') = "PLAYING" => \A i \in Queue' : events'[i].type # "info",
           \/ \A m \in Plays : m.answer # "asked"
           \/ server'.state # "PLAYING"
    PROVE  HandInv'
<1>1. Queue = {} /\ Len(events) = 0 /\ events' \in Seq(Events) /\ server' \in Servers /\ server \in Servers
  BY DEF Queue, HandInv, Base, TypeOK
<1>2. ~Coming("LOBBY") /\ ~Coming("LOBBY")' /\ OnTheWay = {}
  BY <1>1 DEF Coming, OnTheWay
<1>3. OnTheWay' = server'.hand \ server.hand /\ DealsAre(events', n, OnTheWay')
  <2>1. server'.hand \ server.hand \in SUBSET Cards
    BY <1>1 DEF Servers
  <2> QED
    BY <1>1, <2>1, NoticesDealt
<1>4. NoticesOK'
  BY <1>2, <1>3 DEF NoticesOK
<1>5. \A m \in Plays : m.answer # "ok"
  BY <1>1 DEF HandInv, PlaysOK, Base, TypeOK, Messages, Plays
<1>6. \A m \in Loads : m.answer # "asked" /\ m.ahead = 0
  <2>1. \A m \in Loads : m.answer # "asked"
    BY DEF Dealing, Unserved, Ordered, Loads
  <2> QED
    BY <1>1, <2>1 DEF HandInv, Base, TypeOK, MessagesOK, Messages, Loads
<1>7. Loads' = Loads /\ Plays' = Plays /\ Infos' = Infos
  BY DEF Loads, Plays, Infos
<1>8. LoadsOK'
  BY <1>6, <1>7 DEF HandInv, LoadsOK
<1>9. PlaysOK'
  <2> SUFFICES ASSUME NEW m \in Plays
               PROVE  /\ m.answer = "asked" => Infos = {} /\ ~Coming("PLAYING")'
                      /\ ~Fresh(m)'
    BY <1>5, <1>7 DEF PlaysOK
  <2>1. m.answer = "asked" => server'.state # "PLAYING"
    OBVIOUS
  <2>2. m.answer = "asked" => ~Coming("PLAYING")'
    BY <2>1 DEF Coming
  <2>3. m.answer = "asked" => MyStatus(server') # "PLAYING"
    BY <1>1, <2>1, MyTurns
  <2> QED
    BY <2>2, <2>3 DEF HandInv, PlaysOK, Fresh
<1>10. HandBalance'
  <2>1. Loaded' = Loaded /\ Laid' = Laid
    BY <1>7 DEF Loaded, Laid
  <2>2. ASSUME NEW c \in Cards
        PROVE  page.hand[c] + In(c, Loaded) + In(c, OnTheWay') = In(c, server'.hand) + In(c, Laid)
    <3>1. page.hand[c] + In(c, Loaded) + In(c, OnTheWay) = In(c, server.hand) + In(c, Laid)
      BY <1>2, <1>6 DEF HandInv, HandBalance
    <3>2. page.hand[c] \in Int
      BY DEF HandInv, Base, TypeOK, Pages
    <3> QED
      BY <1>2, <1>3, <3>1, <3>2 DEF In
  <2> QED
    BY <2>1, <2>2 DEF HandBalance
<1> QED
  BY <1>4, <1>8, <1>9, <1>10 DEF HandInv

\* An answer takes the place of its request.
LEMMA AnswerKinds ==
    ASSUME NEW m, NEW a, Answers(m, a)
    PROVE  /\ m.op # "GET_CARDS" => Loads' = Loads
           /\ m.op # "PLAY_CARD" => Plays' = Plays
           /\ m.op # "GET_GAME_INFO" => Infos' = Infos
           /\ Infos = {} => Infos' = {}
           /\ m.op = "GET_CARDS" => m \in Loads /\ Loads' = (Loads \ {m}) \cup {a}
           /\ m.op = "PLAY_CARD" => m \in Plays /\ Plays' = (Plays \ {m}) \cup {a}
BY DEF Answers, Loads, Plays, Infos

\* The hand is served.
LEMMA HandServed ==
    ASSUME HandInv, Base', NEW m, NEW a, Answers(m, a), m.op = "GET_CARDS", UNCHANGED <<server, events, page>>
    PROVE  HandInv'
<1>1. /\ m \in Loads /\ Loads' = {a} /\ Plays' = {} /\ Plays = {} /\ Infos' = Infos
      /\ page.handSelectedCard = None /\ (\A c \in Cards : page.hand[c] = 0)
      /\ \A i \in Queue : events[i].type # "deal"
  <2>1. m \in Loads /\ Loads' = (Loads \ {m}) \cup {a} /\ m.answer = "asked"
    BY AnswerKinds DEF Answers
  <2>2. \A l \in Loads : l = m
    BY <2>1 DEF HandInv, LoadsOK
  <2> QED
    BY <2>1, <2>2, AnswerKinds DEF HandInv, LoadsOK
<1>2. Queue' = Queue /\ OnTheWay' = OnTheWay /\ \A s : Coming(s)' <=> Coming(s)
  BY DEF Queue, OnTheWay, Coming
<1>3. NoticesOK'
  BY <1>2 DEF HandInv, NoticesOK
<1>4. a.answer # "asked" /\ a.ahead = Len(events) /\ a.data = server
  BY DEF Answers
<1>5. Coming("LOBBY") => server.hand = {}
  BY DEF HandInv, NoticesOK, Base, Unplayed
<1>6. LoadsOK'
  <2>1. \A i \in 1..a.ahead :
           /\ events[i].type # "deal"
           /\ events[i].type = "state" /\ events[i].state = "LOBBY" => a.data.hand = {}
    BY <1>1, <1>4, <1>5 DEF Queue, Coming
  <2> QED
    BY <1>1, <1>4, <2>1 DEF LoadsOK
<1>7. PlaysOK'
  BY <1>1 DEF PlaysOK
<1>8. HandBalance'
  <2>1. Laid' = {} /\ OnTheWay' = {}
    BY <1>1, <1>2 DEF Laid, OnTheWay
  <2>2. Loaded' = {c \in Cards : c \in server.hand}
    BY <1>1, <1>4 DEF Loaded
  <2>3. ASSUME NEW c \in Cards
        PROVE  page.hand[c] + In(c, Loaded') + In(c, OnTheWay') = In(c, server.hand) + In(c, Laid')
    BY <1>1, <2>1, <2>2 DEF In
  <2> QED
    BY <2>3 DEF HandBalance
<1> QED
  BY <1>3, <1>6, <1>7, <1>8 DEF HandInv

\* A card cannot be played.
LEMMA HandRefused ==
    ASSUME HandInv, Base', NEW m, NEW a, Answers(m, a), m.op = "PLAY_CARD", a.answer = "error",
           UNCHANGED <<server, events, page>>
    PROVE  HandInv'
<1>1. /\ m \in Plays /\ Loads' = Loads /\ Plays' = (Plays \ {m}) \cup {a} /\ Infos' = Infos
      /\ m.answer = "asked"
  BY AnswerKinds DEF Answers
<1>2. Loads = {}
  BY <1>1 DEF HandInv, LoadsOK
<1>3. Queue' = Queue /\ OnTheWay' = OnTheWay /\ \A s : Coming(s)' <=> Coming(s)
  BY DEF Queue, OnTheWay, Coming
<1>4. NoticesOK'
  BY <1>3 DEF HandInv, NoticesOK
<1>5. LoadsOK'
  BY <1>1, <1>2 DEF LoadsOK
<1>6. \A l \in Plays' : l \in Plays \/ l.answer = "error"
  BY <1>1
<1>7. PlaysOK'
  <2> SUFFICES ASSUME NEW n \in Plays', n.answer # "error"
               PROVE  /\ n.answer = "asked" => Infos = {} /\ ~Coming("PLAYING")
                      /\ Fresh(n)' => /\ page.handSelectedCard = n.card /\ ~page.canSelectCard
                                      /\ \A l \in Plays' : l.answer # "ok"
                      /\ n.answer = "ok" =>
                           /\ \A l \in Plays' : l.answer = "ok" => l = n
                           /\ Infos = {} /\ n.ahead < Len(events)
                           /\ \A i \in 1..n.ahead :
                                 /\ events[i].type = "state" => events[i].state \notin {"PLAYING", "LOBBY"}
                                 /\ events[i].type = "info" /\ events[i].who = "me" => events[i].status = "PLAYING"
                           /\ page.handSelectedCard = n.card /\ ~page.canSelectCard /\ n.card \notin server.hand
    BY <1>1, <1>3 DEF PlaysOK, Fresh
  <2>1. Fresh(n)' <=> Fresh(n)
    BY DEF Fresh
  <2>2. n \in Plays
    BY <1>6
  <2> QED
    BY <1>6, <2>1, <2>2 DEF HandInv, PlaysOK
<1>8. HandBalance'
  <2>1. Loaded' = Loaded
    BY <1>1 DEF Loaded
  <2>2. Laid' = Laid
    BY <1>1 DEF Laid
  <2> QED
    BY <1>1, <1>2, <1>3, <2>1, <2>2 DEF HandInv, HandBalance
<1> QED
  BY <1>4, <1>5, <1>7, <1>8 DEF HandInv

\* A card is played.
LEMMA HandPlayed ==
    ASSUME HandInv, Base', NEW m, NEW a, Answers(m, a), m.op = "PLAY_CARD", a.answer = "ok", GoesOn,
           MyStatus(server) = "PLAYING", m.card \in server.hand, server'.hand = server.hand \ {m.card},
           page' = page
    PROVE  HandInv'
<1>1. /\ m \in Plays /\ Loads' = Loads /\ Plays' = (Plays \ {m}) \cup {a} /\ Infos' = Infos
      /\ m.answer = "asked" /\ a.card = m.card /\ a.ahead = Len(events)
  BY AnswerKinds DEF Answers
<1>2. /\ NoticesOK' /\ OnTheWay' = OnTheWay /\ ~Coming("LOBBY")
      /\ Coming("PLAYING")' => Coming("PLAYING")
      /\ MyStatus(server') = "PLAYING" => MyStatus(server) = "PLAYING"
  BY NoticesGoOn DEF HandInv
<1>3. /\ Len(events) < Len(events') /\ Len(events) \in Nat /\ Len(events') \in Nat
      /\ \A i \in Queue : events'[i] = events[i]
  BY GoesOnBase DEF HandInv, Base, TypeOK
<1>4. /\ Loads = {} /\ Fresh(m)
  BY <1>1 DEF HandInv, LoadsOK, Fresh
<1>5. /\ page.handSelectedCard = m.card /\ ~page.canSelectCard /\ (\A l \in Plays : l.answer # "ok")
      /\ Infos = {} /\ ~Coming("PLAYING")
  BY <1>1, <1>4 DEF HandInv, PlaysOK
<1>6. LoadsOK'
  BY <1>1, <1>4 DEF LoadsOK
<1>7. ASSUME NEW i \in 1..a.ahead
      PROVE  /\ events'[i].type = "state" => events'[i].state \notin {"PLAYING", "LOBBY"}
             /\ events'[i].type = "info" /\ events'[i].who = "me" => events'[i].status = "PLAYING"
  <2>1. i \in Queue /\ events'[i] = events[i]
    BY <1>1, <1>3 DEF Queue
  <2>2. events[i].type = "state" => events[i].state \notin {"PLAYING", "LOBBY"}
    BY <1>2, <1>5, <2>1 DEF Coming
  <2> QED
    BY <2>1, <2>2 DEF HandInv, NoticesOK
<1>8. PlaysOK'
  <2>1. ASSUME NEW n \in Plays
        PROVE  n.answer # "ok" /\ ~Fresh(n)' /\ (n.answer = "asked" => Infos' = {} /\ ~Coming("PLAYING")')
    <3>1. Fresh(n)' => Fresh(n) /\ n.card # m.card
      BY <1>2 DEF Fresh
    <3>2. Fresh(n) => n.card = m.card
      BY <1>5 DEF HandInv, PlaysOK
    <3> QED
      BY <1>1, <1>2, <1>5, <3>1, <3>2
  <2>2. \A n \in Plays' : n \in Plays \/ n = a
    BY <1>1
  <2>3. ~Fresh(a)'
    BY DEF Fresh
  <2>4. m.card \notin server'.hand
    OBVIOUS
  <2> QED
    BY <1>1, <1>3, <1>5, <1>7, <2>1, <2>2, <2>3, <2>4 DEF PlaysOK
<1>9. HandBalance'
  <2>1. Loaded' = {} /\ Loaded = {} /\ Laid = {}
    BY <1>1, <1>4, <1>5 DEF Loaded, Laid
  <2>2. Laid' = {c \in Cards : c = m.card}
    BY <1>1, <1>5 DEF Laid
  <2>3. ASSUME NEW c \in Cards
        PROVE  page.hand[c] + In(c, Loaded') + In(c, OnTheWay') = In(c, server'.hand) + In(c, Laid')
    <3>1. page.hand[c] + In(c, Loaded) + In(c, OnTheWay) = In(c, server.hand) + In(c, Laid)
      BY <1>2, <1>4 DEF HandInv, HandBalance
    <3>2. page.hand[c] \in Int
      BY DEF HandInv, Base, TypeOK, Pages
    <3> QED
      BY <1>2, <2>1, <2>2, <3>1, <3>2 DEF In
  <2> QED
    BY <2>3 DEF HandBalance
<1> QED
  BY <1>2, <1>6, <1>8, <1>9 DEF HandInv

LEMMA HandServe == ASSUME HandInv, Base', NEW op \in Ops, Serve(op) PROVE HandInv'
<1>1. PICK m, a :
              /\ m \in inFlight /\ Answers(m, a) /\ m.op = op /\ page' = page /\ reloads' = reloads
              /\ \/ /\ UNCHANGED <<server, events>>
                    /\ op = "PLAY_CARD" => /\ a.answer = "error"
                                           /\ ~(MyStatus(server) = "PLAYING" /\ m.card \in server.hand)
                    /\ op = "JUDGE_SELECT" => ~(MyStatus(server) = "JUDGING" /\ m.card = "shown")
                 \/ /\ op = "PLAY_CARD" /\ a.answer = "ok" /\ GoesOn
                    /\ MyStatus(server) = "PLAYING" /\ m.card \in server.hand
                    /\ server'.hand = server.hand \ {m.card}
                 \/ /\ op = "JUDGE_SELECT" /\ GoesOn /\ server'.state = "ROUND_OVER" /\ server'.hand = server.hand
                    /\ MyStatus(server) = "JUDGING"
  BY ServeIs DEF HandInv
<1>2. CASE op = "GET_CARDS"
  BY <1>1, <1>2, HandServed
<1>3. CASE op = "PLAY_CARD"
  BY <1>1, <1>3, HandRefused, HandPlayed
<1>4. CASE op \in {"GET_GAME_INFO", "JUDGE_SELECT"}
  <2>1. Loads' = Loads /\ Plays' = Plays /\ (Infos = {} => Infos' = {})
    BY <1>1, <1>4, AnswerKinds
  <2>2. CASE UNCHANGED <<server, events>>
    BY <1>1, <2>1, <2>2, HandStays
  <2>3. CASE GoesOn /\ server'.hand = server.hand
    BY <1>1, <2>1, <2>3, HandGoesOn
  <2> QED
    BY <1>1, <1>4, <2>2, <2>3
<1> QED
  BY <1>2, <1>3, <1>4 DEF Ops

-----------------------------------------------------------------------------
(* The page learns, and the user acts.                                     *)

LEMMA OlderKinds ==
    ASSUME Base, HandleEvent
    PROVE  /\ \A n \in Loads' : \E m \in Loads : n = Older(m)
           /\ \A n \in Plays' : \E m \in Plays : n = Older(m)
           /\ \A m \in Loads : Older(m) \in Loads'
           /\ \A m \in Plays : Older(m) \in Plays'
           /\ ~(events[1].type = "state" /\ events[1].state = "PLAYING") /\ Infos = {} => Infos' = {}
           /\ \A m \in inFlight : /\ m \in Messages /\ Older(m).card = m.card /\ Older(m).op = m.op
                                  /\ Older(m).answer = m.answer /\ Older(m).data = m.data
                                  /\ Older(m).ahead = IF m.ahead > 0 THEN m.ahead - 1 ELSE 0
<1>1. \A m \in inFlight : /\ m \in Messages /\ Older(m).card = m.card /\ Older(m).op = m.op
                          /\ Older(m).answer = m.answer /\ Older(m).data = m.data
                          /\ Older(m).ahead = IF m.ahead > 0 THEN m.ahead - 1 ELSE 0
  BY OlderIs DEF Base, TypeOK
<1>2. /\ \A m \in inFlight : Older(m) \in inFlight'
      /\ \A n \in inFlight' :
                 \/ \E m \in inFlight : n = Older(m)
                 \/ /\ n = Request("GET_GAME_INFO", None)
                    /\ events[1].type = "state" /\ events[1].state = "PLAYING"
  BY HandleIs
<1>3. Request("GET_GAME_INFO", None).op = "GET_GAME_INFO"
  BY DEF Request
<1> QED
  BY <1>1, <1>2, <1>3 DEF Loads, Plays, Infos

LEMMA HandHandled == ASSUME HandInv, Base', Ordered, HandleEvent PROVE HandInv'
<1> DEFINE e == events[1]
           Is(s) == e.type = "state" /\ e.state = s
<1>1. /\ e \in Events /\ page' = Handled(page, e) /\ server' = server /\ 1 \in Queue
      /\ Len(events) \in Nat \ {0} /\ Len(events') = Len(events) - 1
      /\ \A i \in Queue' : i + 1 \in Queue /\ events'[i] = events[i + 1]
  BY HandleIs DEF HandInv, Queue
<1>2. \A m \in inFlight : m.answer # "asked" => m.ahead \in Nat /\ m.ahead >= 1 /\ m.ahead <= Len(events)
  <2>1. InTurn(1)
    BY HandleIs DEF HandInv
  <2> QED
    BY <2>1 DEF InTurn, Ordered, HandInv, Base, TypeOK, MessagesOK, Messages
<1>3. /\ NoticesOK' /\ \A s : Coming(s)' => Coming(s)
      /\ \A s : Coming(s) => Coming(s)' \/ Is(s)
      /\ e.type = "deal" => e.cards \subseteq OnTheWay /\ OnTheWay' = OnTheWay \ e.cards
      /\ e.type # "deal" => OnTheWay = {} /\ OnTheWay' = {} /\ \A i \in Queue : events[i].type # "deal"
  BY NoticesHandled DEF HandInv
<1>4. /\ e.type = "deal" => \A c \in Cards : page'.hand[c] = page.hand[c] + In(c, e.cards)
      /\ Is("LOBBY") => (\A c \in Cards : page'.hand[c] = 0) /\ page'.handSelectedCard = None
      /\ e.type # "deal" /\ ~Is("LOBBY") => page'.hand = page.hand
      /\ ~Is("LOBBY") /\ (e.type = "info" /\ e.who = "me" => e.status = "PLAYING")
            => page'.handSelectedCard = page.handSelectedCard
      /\ page'.handSelectedCard \in {page.handSelectedCard, None}
      /\ ~Is("PLAYING") => page'.canSelectCard = page.canSelectCard
  BY <1>1, HandledHand DEF HandInv, Base, TypeOK
<1>5. \A s : Is(s) => Coming(s)
  BY <1>1 DEF Coming
<1>6. \A m \in inFlight : /\ Older(m).card = m.card /\ Older(m).answer = m.answer /\ Older(m).data = m.data
                          /\ m.answer # "asked" => Older(m).ahead = m.ahead - 1
  BY <1>2, OlderKinds DEF HandInv
<1>7. ASSUME NEW m \in inFlight, m.answer # "asked", NEW i \in 1..Older(m).ahead
      PROVE  i + 1 \in 1..m.ahead /\ events'[i] = events[i + 1]
  <2>1. m.ahead \in Nat /\ m.ahead >= 1 /\ m.ahead <= Len(events) /\ Older(m).ahead = m.ahead - 1
    BY <1>2, <1>6, <1>7
  <2>2. i + 1 \in 1..m.ahead /\ i \in Queue'
    BY <1>1, <2>1 DEF Queue
  <2> QED
    BY <1>1, <2>2
<1>8. Loads \subseteq inFlight /\ Plays \subseteq inFlight
  BY DEF Loads, Plays
<1> HIDE DEF e
<1>9. LoadsOK'
  <2> SUFFICES ASSUME NEW n \in Loads'
               PROVE  /\ \A l \in Loads' : l = n
                      /\ Plays' = {} /\ page'.handSelectedCard = None /\ \A c \in Cards : page'.hand[c] = 0
                      /\ n.answer = "asked" => \A i \in Queue' : events'[i].type # "deal"
                      /\ n.answer # "asked" =>
                            \A i \in 1..n.ahead :
                               /\ events'[i].type # "deal"
                               /\ events'[i].type = "state" /\ events'[i].state = "LOBBY" => n.data.hand = {}
    BY DEF LoadsOK
  <2>1. PICK m \in Loads : n = Older(m)
    BY OlderKinds DEF HandInv
  <2>2. /\ \A l \in Loads : l = m
        /\ Plays = {} /\ page.handSelectedCard = None /\ \A c \in Cards : page.hand[c] = 0
        /\ m.answer = "asked" => \A i \in Queue : events[i].type # "deal"
        /\ m.answer # "asked" =>
              \A i \in 1..m.ahead :
                 /\ events[i].type # "deal"
                 /\ events[i].type = "state" /\ events[i].state = "LOBBY" => m.data.hand = {}
    BY DEF HandInv, LoadsOK
  <2>3. (\A l \in Loads' : l = n) /\ Plays' = {}
    BY <2>1, <2>2, OlderKinds DEF HandInv
  <2>4. e.type # "deal"
    <3>1. CASE m.answer = "asked"
      BY <1>1, <2>2, <3>1 DEF e
    <3>2. CASE m.answer # "asked"
      <4>1. 1 \in 1..m.ahead
        BY <1>2, <1>8, <3>2
      <4> QED
        BY <2>2, <3>2, <4>1 DEF e
    <3> QED
      BY <3>1, <3>2
  <2>5. page'.handSelectedCard = None /\ \A c \in Cards : page'.hand[c] = 0
    BY <1>4, <2>2, <2>4
  <2>6. \A i \in Queue' : events'[i].type # "deal"
    BY <1>1, <1>3, <2>4
  <2>7. n.answer = m.answer /\ n.data = m.data
    BY <1>6, <1>8, <2>1
  <2>8. ASSUME n.answer # "asked", NEW i \in 1..n.ahead
        PROVE  /\ events'[i].type # "deal"
               /\ events'[i].type = "state" /\ events'[i].state = "LOBBY" => n.data.hand = {}
    <3>1. i + 1 \in 1..m.ahead /\ events'[i] = events[i + 1]
      BY <1>7, <1>8, <2>1, <2>7, <2>8
    <3> QED
      BY <2>2, <2>7, <2>8, <3>1
  <2> QED
    BY <2>3, <2>5, <2>6, <2>8
<1>10. PlaysOK'
  <2> SUFFICES ASSUME NEW n \in Plays'
               PROVE  /\ n.answer = "asked" => Infos' = {} /\ ~Coming("PLAYING")'
                      /\ Fresh(n)' => /\ page'.handSelectedCard = n.card /\ ~page'.canSelectCard
                                      /\ \A l \in Plays' : l.answer # "ok"
                      /\ n.answer = "ok" =>
                           /\ \A l \in Plays' : l.answer = "ok" => l = n
                           /\ Infos' = {} /\ n.ahead < Len(events')
                           /\ \A i \in 1..n.ahead :
                                 /\ events'[i].type = "state" => events'[i].state \notin {"PLAYING", "LOBBY"}
                                 /\ events'[i].type = "info" /\ events'[i].who = "me" => events'[i].status = "PLAYING"
                           /\ page'.handSelectedCard = n.card /\ ~page'.canSelectCard /\ n.card \notin server'.hand
    BY DEF PlaysOK
  <2>1. PICK m \in Plays : n = Older(m)
    BY OlderKinds DEF HandInv
  <2>2. n.answer = m.answer /\ n.card = m.card /\ m \in inFlight
    BY <1>6, <1>8, <2>1
  <2>3. /\ m.answer = "asked" => Infos = {} /\ ~Coming("PLAYING")
        /\ Fresh(m) => /\ page.handSelectedCard = m.card /\ ~page.canSelectCard
                       /\ \A l \in Plays : l.answer # "ok"
        /\ m.answer = "ok" =>
              /\ \A l \in Plays : l.answer = "ok" => l = m
              /\ Infos = {} /\ m.ahead < Len(events)
              /\ \A i \in 1..m.ahead :
                    /\ events[i].type = "state" => events[i].state \notin {"PLAYING", "LOBBY"}
                    /\ events[i].type = "info" /\ events[i].who = "me" => events[i].status = "PLAYING"
              /\ page.handSelectedCard = m.card /\ ~page.canSelectCard /\ m.card \notin server.hand
    BY DEF HandInv, PlaysOK
  <2>4. \A l \in Plays' : \E k \in Plays : l = Older(k) /\ l.answer = k.answer
    BY <1>6, <1>8, OlderKinds DEF HandInv
  <2>5. ASSUME n.answer = "asked" PROVE Infos' = {} /\ ~Coming("PLAYING")'
    <3>1. ~Is("PLAYING")
      BY <1>5, <2>2, <2>3, <2>5
    <3> QED
      BY <1>3, <2>2, <2>3, <2>5, <3>1, OlderKinds DEF HandInv, e
  <2>6. ASSUME Fresh(n)'
        PROVE  page'.handSelectedCard = n.card /\ ~page'.canSelectCard /\ \A l \in Plays' : l.answer # "ok"
    <3>1. Fresh(m) /\ m.answer = "asked" /\ MyStatus(server) = "PLAYING"
      BY <1>1, <2>2, <2>6 DEF Fresh
    <3>2. server.state = "PLAYING"
      BY <3>1, MyTurns DEF HandInv, Base, TypeOK
    <3>3. ~Is("PLAYING") /\ ~Is("LOBBY")
      BY <1>5, <2>3, <3>1, <3>2 DEF HandInv, NoticesOK
    <3>4. e.type = "info" /\ e.who = "me" => e.status = "PLAYING"
      BY <1>1, <3>1 DEF HandInv, NoticesOK, e
    <3> QED
      BY <1>4, <2>2, <2>3, <2>4, <3>1, <3>3, <3>4
  <2>7. ASSUME n.answer = "ok"
        PROVE  /\ \A l \in Plays' : l.answer = "ok" => l = n
               /\ Infos' = {} /\ n.ahead < Len(events')
               /\ page'.handSelectedCard = n.card /\ ~page'.canSelectCard /\ n.card \notin server'.hand
    <3>1. m.answer = "ok" /\ 1 \in 1..m.ahead /\ m.ahead \in Nat /\ n.ahead = m.ahead - 1
      BY <1>2, <1>6, <2>1, <2>2, <2>7
    <3>2. ~Is("PLAYING") /\ ~Is("LOBBY") /\ (e.type = "info" /\ e.who = "me" => e.status = "PLAYING")
      BY <2>3, <3>1 DEF e
    <3>3. Infos' = {}
      BY <2>3, <3>1, <3>2, OlderKinds DEF HandInv, e
    <3>4. \A l \in Plays' : l.answer = "ok" => l = n
      BY <2>1, <2>3, <2>4, <3>1
    <3>5. n.ahead < Len(events')
      BY <1>1, <2>3, <3>1
    <3> QED
      BY <1>1, <1>4, <2>2, <2>3, <3>1, <3>2, <3>3, <3>4, <3>5
  <2>8. ASSUME n.answer = "ok", NEW i \in 1..n.ahead
        PROVE  /\ events'[i].type = "state" => events'[i].state \notin {"PLAYING", "LOBBY"}
               /\ events'[i].type = "info" /\ events'[i].who = "me" => events'[i].status = "PLAYING"
    <3>1. i + 1 \in 1..m.ahead /\ events'[i] = events[i + 1] /\ m.answer = "ok"
      BY <1>7, <2>1, <2>2, <2>8
    <3> QED
      BY <2>3, <3>1
  <2> QED
    BY <2>5, <2>6, <2>7, <2>8
<1>11. HandBalance'
  <2> SUFFICES ASSUME \A n \in Loads' : n.answer # "asked", ~Coming("LOBBY")', NEW c \in Cards
               PROVE  page'.hand[c] + In(c, Loaded') + In(c, OnTheWay') = In(c, server'.hand) + In(c, Laid')
    BY DEF HandBalance
  <2>1. Loaded' = Loaded
    BY <1>6, <1>8, OlderKinds DEF Loaded, HandInv
  <2>2. Laid' = Laid
    BY <1>6, <1>8, OlderKinds DEF Laid, HandInv
  <2>3. \A m \in Loads : m.answer # "asked"
    BY <1>6, <1>8, OlderKinds DEF HandInv
  <2>4. page.hand[c] \in Int
    BY DEF HandInv, Base, TypeOK, Pages
  <2>5. CASE Is("LOBBY")
    <3>1. page'.hand[c] = 0 /\ OnTheWay' = {}
      BY <1>3, <1>4, <2>5
    <3>2. server'.hand = {}
      BY <1>1, <1>5, <2>5 DEF HandInv, NoticesOK, Base, Unplayed
    <3>3. Loaded = {}
      <4>1. \A m \in Loads : 1 \in 1..m.ahead
        BY <1>2, <1>8, <2>3
      <4>2. \A m \in Loads : m.data.hand = {}
        BY <2>3, <2>5, <4>1 DEF HandInv, LoadsOK, e
      <4> QED
        BY <4>2 DEF Loaded
    <3>4. Laid = {}
      <4>1. \A m \in Plays : m.answer = "ok" => 1 \in 1..m.ahead
        BY <1>2, <1>8
      <4>2. \A m \in Plays : m.answer # "ok"
        BY <2>5, <4>1 DEF HandInv, PlaysOK, e
      <4> QED
        BY <4>2 DEF Laid
    <3> QED
      BY <2>1, <2>2, <3>1, <3>2, <3>3, <3>4 DEF In
  <2>6. CASE ~Is("LOBBY")
    <3>1. page.hand[c] + In(c, Loaded) + In(c, OnTheWay) = In(c, server.hand) + In(c, Laid)
      BY <1>3, <2>3, <2>6 DEF HandInv, HandBalance
    <3>2. CASE e.type = "deal"
      BY <1>1, <1>3, <1>4, <2>1, <2>2, <2>4, <3>1, <3>2 DEF In
    <3>3. CASE e.type # "deal"
      BY <1>1, <1>3, <1>4, <2>1, <2>2, <2>6, <3>1, <3>3
    <3> QED
      BY <3>2, <3>3
  <2> QED
    BY <2>5, <2>6
<1> QED
  BY <1>3, <1>9, <1>10, <1>11 DEF HandInv

LEMMA HandLearned == ASSUME HandInv, Base', NEW op \in Ops, Learn(op) PROVE HandInv'
<1>1. PICK m \in inFlight :
              /\ m.op = op /\ m.answer # "asked" /\ InTurn(m.ahead) /\ inFlight' = inFlight \ {m}
              /\ UNCHANGED <<server, events, reloads>>
              /\ op = "GET_GAME_INFO" => page' = LearnInfo(page, m.data)
              /\ op = "GET_CARDS" => page' = LearnCards(page, m.data)
              /\ op = "PLAY_CARD" => page' = IF m.answer = "ok" THEN PlayComplete(page) ELSE page
              /\ op = "JUDGE_SELECT" => page' = page
  BY LearnIs DEF HandInv
<1>2. page \in Pages /\ m.data \in Servers /\ \A c \in Cards : page.hand[c] \in Int
  BY DEF HandInv, Base, TypeOK, Messages, Pages
<1>3. /\ op # "GET_CARDS" => Loads' = Loads
      /\ op # "PLAY_CARD" => Plays' = Plays
      /\ Infos = {} => Infos' = {}
      /\ op = "GET_GAME_INFO" => Infos # {}
      /\ op = "GET_CARDS" => m \in Loads /\ Loads' = Loads \ {m}
      /\ op = "PLAY_CARD" => m \in Plays /\ Plays' = Plays \ {m}
  BY <1>1 DEF Loads, Plays, Infos
<1>4. Queue' = Queue /\ OnTheWay' = OnTheWay /\ \A s : Coming(s)' <=> Coming(s)
  BY <1>1 DEF Queue, OnTheWay, Coming
<1>5. NoticesOK'
  BY <1>1, <1>4 DEF HandInv, NoticesOK
<1>6. CASE op = "GET_GAME_INFO"
  <2>1. page' = LearnInfo(page, m.data)
    BY <1>1, <1>6
  <2>2. /\ LearnInfo(page, m.data).hand = page.hand
        /\ LearnInfo(page, m.data).canSelectCard = page.canSelectCard
        /\ LearnInfo(page, m.data).handSelectedCard \in {page.handSelectedCard, None}
    BY <1>2, LearnedHand
  <2>3. /\ page'.hand = page.hand /\ page'.canSelectCard = page.canSelectCard
        /\ page'.handSelectedCard \in {page.handSelectedCard, None}
    BY <2>1, <2>2
  <2> QED
    BY <1>1, <1>3, <1>6, <2>3, HandStays
<1>7. CASE op = "JUDGE_SELECT"
  BY <1>1, <1>3, <1>7, HandStays
<1>8. CASE op = "GET_CARDS"
  <2>1. m \in Loads /\ Plays = {} /\ Plays' = {} /\ Loads' = {} /\ \A l \in Loads : l = m
    BY <1>3, <1>8 DEF HandInv, LoadsOK
  <2>2. Loaded = {c \in Cards : c \in m.data.hand} /\ Loaded' = {} /\ Laid = {} /\ Laid' = {}
    BY <2>1 DEF Loaded, Laid
  <2>3. ASSUME NEW c \in Cards, ~Coming("LOBBY")
        PROVE  page'.hand[c] + In(c, Loaded') + In(c, OnTheWay') = In(c, server'.hand) + In(c, Laid')
    <3>1. page.hand[c] + In(c, Loaded) + In(c, OnTheWay) = In(c, server.hand) + In(c, Laid)
      BY <1>1, <2>1, <2>3 DEF HandInv, HandBalance
    <3>2. page'.hand[c] = page.hand[c] + In(c, m.data.hand)
      <4>1. page' = LearnCards(page, m.data)
        BY <1>1, <1>8
      <4>2. LearnCards(page, m.data).hand[c] = page.hand[c] + In(c, m.data.hand)
        BY <1>2, LearnedHand
      <4> QED
        BY <4>1, <4>2
    <3>3. In(c, Loaded) = In(c, m.data.hand) /\ In(c, Loaded') = 0
      BY <2>2 DEF In
    <3>4. OnTheWay' = OnTheWay /\ server' = server /\ Laid' = Laid
      BY <1>1, <1>4, <2>2
    <3> QED
      BY <1>2, <3>1, <3>2, <3>3, <3>4 DEF In
  <2> QED
    BY <1>4, <1>5, <2>1, <2>3 DEF HandInv, LoadsOK, PlaysOK, HandBalance
<1>9. CASE op = "PLAY_CARD"
  <2>1. m \in Plays /\ Plays' = Plays \ {m} /\ Loads = {} /\ Loads' = {} /\ m.card \in Cards
    BY <1>1, <1>3, <1>9 DEF HandInv, LoadsOK, Base, MessagesOK
  <2>2. LoadsOK' /\ Loaded' = Loaded
    BY <2>1 DEF LoadsOK, Loaded
  <2>3. CASE m.answer = "ok"
    <3>1. /\ page.handSelectedCard = m.card /\ ~page.canSelectCard /\ Infos' = {}
          /\ \A l \in Plays' : l.answer # "ok"
      BY <1>3, <2>1, <2>3 DEF HandInv, PlaysOK
    <3>2. \A c \in Cards : page'.hand[c] = page.hand[c] - In(c, {m.card})
      <4>1. m.card # None
        BY <2>1, ClientAssumption
      <4> QED
        BY <1>1, <1>2, <1>9, <2>3, <3>1, <4>1, LearnedHand
    <3>3. PlaysOK'
      <4>1. ASSUME NEW l \in Plays' PROVE ~Fresh(l)' /\ (l.answer = "asked" => ~Coming("PLAYING")')
        <5>1. l \in Plays /\ (Fresh(l)' <=> Fresh(l))
          BY <1>1, <2>1 DEF Fresh
        <5> QED
          BY <1>4, <2>1, <2>3, <5>1 DEF HandInv, PlaysOK
      <4> QED
        BY <3>1, <4>1 DEF PlaysOK
    <3>4. Laid = {c \in Cards : c = m.card} /\ Laid' = {}
      BY <2>1, <2>3, <3>1 DEF Laid, HandInv, PlaysOK
    <3>5. ASSUME NEW c \in Cards, ~Coming("LOBBY")
          PROVE  page'.hand[c] + In(c, Loaded') + In(c, OnTheWay') = In(c, server'.hand) + In(c, Laid')
      <4>1. page.hand[c] + In(c, Loaded) + In(c, OnTheWay) = In(c, server.hand) + In(c, Laid)
        BY <2>1, <3>5 DEF HandInv, HandBalance
      <4>2. In(c, Laid) = In(c, {m.card}) /\ In(c, Laid') = 0
        BY <3>4 DEF In
      <4>3. OnTheWay' = OnTheWay /\ server' = server
        BY <1>1, <1>4
      <4> QED
        BY <1>2, <2>2, <3>2, <4>1, <4>2, <4>3 DEF In
    <3> QED
      BY <1>4, <1>5, <2>2, <3>3, <3>5 DEF HandInv, HandBalance
  <2>4. CASE m.answer # "ok"
    <3>1. page' = page /\ Laid' = Laid /\ Infos' = Infos
      BY <1>1, <1>9, <2>1, <2>4 DEF Laid, Infos
    <3>2. PlaysOK'
      <4> SUFFICES ASSUME NEW n \in Plays'
               PROVE  /\ n.answer = "asked" => Infos = {} /\ ~Coming("PLAYING")
                      /\ Fresh(n)' => /\ page.handSelectedCard = n.card /\ ~page.canSelectCard
                                      /\ \A l \in Plays' : l.answer # "ok"
                      /\ n.answer = "ok" =>
                           /\ \A l \in Plays' : l.answer = "ok" => l = n
                           /\ Infos = {} /\ n.ahead < Len(events)
                           /\ \A i \in 1..n.ahead :
                                 /\ events[i].type = "state" => events[i].state \notin {"PLAYING", "LOBBY"}
                                 /\ events[i].type = "info" /\ events[i].who = "me" => events[i].status = "PLAYING"
                           /\ page.handSelectedCard = n.card /\ ~page.canSelectCard /\ n.card \notin server.hand
        BY <1>1, <1>4, <3>1 DEF PlaysOK
      <4>1. n \in Plays /\ (Fresh(n)' <=> Fresh(n)) /\ Plays' \subseteq Plays
        BY <1>1, <2>1 DEF Fresh
      <4> QED
        BY <4>1 DEF HandInv, PlaysOK
    <3>3. HandBalance'
      BY <1>1, <1>4, <2>1, <2>2, <3>1 DEF HandInv, HandBalance
    <3> QED
      BY <1>5, <2>2, <3>2, <3>3 DEF HandInv
  <2> QED
    BY <2>3, <2>4
<1> QED
  BY <1>6, <1>7, <1>8, <1>9 DEF Ops

\* The user knows of the round.
LEMMA RoundIsKnown == ASSUME Ordered, RoundKnown, Base PROVE Infos = {} /\ ~Coming("PLAYING")
<1>1. "hasty" \notin Races
  BY DEF Ordered
<1> QED
  BY <1>1 DEF RoundKnown, Infos, Coming, Queue, Base, TypeOK

LEMMA HandClicked == ASSUME HandInv, Base', Ordered, NEW c \in Cards, HandCardClick(c) PROVE HandInv'
<1>1. /\ Infos = {} /\ ~Coming("PLAYING") /\ page.canSelectCard /\ page.hand[c] > 0
      /\ UNCHANGED <<server, events, inFlight>>
  BY RoundIsKnown DEF HandInv, HandCardClick
<1>2. page'.hand = page.hand
  BY DEF HandCardClick, HandInv, Base, TypeOK, Pages
<1>3. Loads' = Loads /\ Plays' = Plays /\ Infos' = Infos
  BY <1>1 DEF Loads, Plays, Infos
<1>4. Queue' = Queue /\ OnTheWay' = OnTheWay /\ \A s : Coming(s)' <=> Coming(s)
  BY <1>1 DEF Queue, OnTheWay, Coming
<1>5. Loads = {}
  <2>1. ~(page.hand[c] = 0)
    BY <1>1
  <2> QED
    BY <2>1 DEF HandInv, LoadsOK
<1>6. NoticesOK' /\ LoadsOK'
  BY <1>1, <1>3, <1>4, <1>5 DEF HandInv, NoticesOK, LoadsOK
<1>7. \A m \in Plays : ~Fresh(m)' /\ m.answer # "ok"
  BY <1>1 DEF HandInv, PlaysOK, Fresh
<1>8. PlaysOK'
  BY <1>1, <1>3, <1>4, <1>7 DEF PlaysOK
<1>9. HandBalance'
  <2>1. Loaded' = Loaded /\ Laid' = Laid
    BY <1>3 DEF Loaded, Laid
  <2> QED
    BY <1>1, <1>2, <1>3, <1>4, <2>1 DEF HandInv, HandBalance
<1> QED
  BY <1>6, <1>8, <1>9 DEF HandInv

LEMMA HandConfirmed == ASSUME HandInv, Base', Ordered, ConfirmClick PROVE HandInv'
<1>1. /\ Infos = {} /\ ~Coming("PLAYING") /\ UNCHANGED <<server, events>>
      /\ page' = [page EXCEPT !.canSelectCard = FALSE]
      /\ \/ inFlight' = inFlight \cup {Request("JUDGE_SELECT", page.roundSelectedCard)}
         \/ /\ page.handSelectedCard # None /\ page.handSelectedCard \in Cards
            /\ inFlight' = inFlight \cup {Request("PLAY_CARD", page.handSelectedCard)}
         \/ inFlight' = inFlight
  BY ConfirmIs, RoundIsKnown DEF HandInv
<1>2. /\ page'.hand = page.hand /\ page'.handSelectedCard = page.handSelectedCard
      /\ ~page'.canSelectCard
  BY <1>1 DEF HandInv, Base, TypeOK, Pages
<1>3. CASE inFlight' = inFlight \cup {Request("JUDGE_SELECT", page.roundSelectedCard)} \/ inFlight' = inFlight
  <2>1. Loads' = Loads /\ Plays' = Plays /\ Infos' = Infos
    BY <1>3 DEF Loads, Plays, Infos, Request
  <2> QED
    BY <1>1, <1>2, <2>1, HandStays
<1>4. CASE /\ page.handSelectedCard # None /\ page.handSelectedCard \in Cards
           /\ inFlight' = inFlight \cup {Request("PLAY_CARD", page.handSelectedCard)}
  <2> DEFINE n == Request("PLAY_CARD", page.handSelectedCard)
  <2>1. n.op = "PLAY_CARD" /\ n.answer = "asked" /\ n.card = page.handSelectedCard
    BY DEF Request
  <2>2. inFlight' = inFlight \cup {n}
    BY <1>4
  <2> HIDE DEF n
  <2>3. Loads' = Loads /\ Plays' = Plays \cup {n} /\ Infos' = Infos
    BY <2>1, <2>2 DEF Loads, Plays, Infos
  <2>4. Queue' = Queue /\ OnTheWay' = OnTheWay /\ \A s : Coming(s)' <=> Coming(s)
    BY <1>1 DEF Queue, OnTheWay, Coming
  <2>5. Loads = {}
    BY <1>4 DEF HandInv, LoadsOK
  <2>6. NoticesOK' /\ LoadsOK'
    BY <1>1, <2>3, <2>4, <2>5 DEF HandInv, NoticesOK, LoadsOK
  <2>7. PlaysOK'
    <3> SUFFICES ASSUME NEW m \in Plays'
               PROVE  /\ Fresh(m)' => /\ page.handSelectedCard = m.card
                                      /\ \A l \in Plays' : l.answer # "ok"
                      /\ m.answer = "ok" =>
                           /\ \A l \in Plays' : l.answer = "ok" => l = m
                           /\ m.ahead < Len(events)
                           /\ \A i \in 1..m.ahead :
                                 /\ events[i].type = "state" => events[i].state \notin {"PLAYING", "LOBBY"}
                                 /\ events[i].type = "info" /\ events[i].who = "me" => events[i].status = "PLAYING"
                           /\ page.handSelectedCard = m.card /\ m.card \notin server.hand
      BY <1>1, <1>2, <2>3, <2>4 DEF PlaysOK
    <3>1. m \in Plays \/ m = n
      BY <2>3
    <3>2. Fresh(m)' <=> Fresh(m)
      BY <1>1 DEF Fresh
    <3>3. \A l \in Plays' : l \in Plays \/ l.answer # "ok"
      BY <2>1, <2>3
    <3>4. ASSUME Fresh(m), NEW l \in Plays, l.answer = "ok" PROVE FALSE
      <4>1. page.handSelectedCard = l.card /\ l.card \notin server.hand
        BY <3>4 DEF HandInv, PlaysOK
      <4>2. m.card # l.card
        BY <3>4, <4>1 DEF Fresh
      <4>3. CASE m = n
        BY <2>1, <4>1, <4>2, <4>3
      <4>4. CASE m \in Plays
        BY <3>4, <4>4 DEF HandInv, PlaysOK
      <4> QED
        BY <3>1, <4>3, <4>4
    <3>5. Fresh(m) => page.handSelectedCard = m.card
      BY <2>1, <3>1 DEF HandInv, PlaysOK
    <3> QED
      BY <2>1, <3>1, <3>2, <3>3, <3>4, <3>5 DEF HandInv, PlaysOK
  <2>8. HandBalance'
    <3>1. Loaded' = Loaded /\ Laid' = Laid
      BY <2>1, <2>3 DEF Loaded, Laid
    <3> QED
      BY <1>1, <1>2, <2>3, <2>4, <3>1 DEF HandInv, HandBalance
  <2> QED
    BY <2>6, <2>7, <2>8 DEF HandInv
<1> QED
  BY <1>1, <1>3, <1>4

\* A page that was just loaded.
LEMMA HandLoads ==
    ASSUME Base', NoticesOK', events' = <<>>, page' = NewGame,
           inFlight' = {Request("GET_GAME_INFO", None), Request("GET_CARDS", None)}
    PROVE  HandInv'
<1> DEFINE n == Request("GET_CARDS", None)
<1>1. Loads' = {n} /\ Plays' = {} /\ n.answer = "asked"
  BY DEF Loads, Plays, Request
<1> HIDE DEF n
<1>2. Queue' = {}
  BY DEF Queue
<1>3. page'.handSelectedCard = None /\ \A c \in Cards : page'.hand[c] = 0
  BY DEF NewGame
<1>4. LoadsOK'
  BY <1>1, <1>2, <1>3 DEF LoadsOK
<1> QED
  BY <1>1, <1>4 DEF HandInv, PlaysOK, HandBalance

LEMMA HandInit == ASSUME Init PROVE HandInv
<1>1. Base
  BY BaseInit
<1>2. NoticesOK
  <2>1. events = <<>> /\ server = InLobby /\ Queue = {}
    BY DEF Init, Queue
  <2>2. OnTheWay = {}
    BY <2>1 DEF OnTheWay
  <2>3. DealsAre(events, 0, OnTheWay)
    BY <2>1, <2>2, DealNothing
  <2> QED
    BY <2>1, <2>3 DEF NoticesOK, Coming
<1> DEFINE n == Request("GET_CARDS", None)
<1>3. Loads = {n} /\ Plays = {} /\ n.answer = "asked"
  BY DEF Init, Loads, Plays, Request
<1> HIDE DEF n
<1>4. Queue = {}
  BY DEF Init, Queue
<1>5. page.handSelectedCard = None /\ \A c \in Cards : page.hand[c] = 0
  BY DEF Init, NewGame
<1>6. LoadsOK
  BY <1>3, <1>4, <1>5 DEF LoadsOK
<1> QED
  BY <1>1, <1>2, <1>3, <1>6 DEF HandInv, PlaysOK, HandBalance

LEMMA HandStep == ASSUME Ordered, HandInv, [Next]_vars PROVE HandInv'
<1>1. Base' /\ TypeOK /\ server.hand \cap server.played = {}
  BY BaseStep DEF HandInv, Base, Unplayed
<1>2. CASE StartRound
  <2>1. /\ events = <<>> /\ ~Unserved("PLAY_CARD") /\ Dealing /\ UNCHANGED <<inFlight, page, reloads>>
        /\ server' \in Servers /\ server'.state = "PLAYING" /\ server.hand \subseteq server'.hand
    BY <1>1, <1>2, RoundStarts
  <2>2. PICK k \in Nat : /\ Len(events') = k + 1 /\ DealsAre(events', k, server'.hand \ server.hand)
                         /\ events'[k + 1].type = "state" /\ events'[k + 1].state = "PLAYING"
    BY <1>1, <1>2, RoundStarts
  <2>3. \A i \in Queue' : i = k + 1 \/ events'[i].type = "deal"
    BY <2>2 DEF Queue, DealsAre
  <2>4. \A m \in Plays : m.answer # "asked"
    BY <2>1 DEF Unserved, Plays
  <2> QED
    BY <1>1, <2>1, <2>2, <2>3, <2>4, HandDealt
<1>3. CASE SkipMe
  <2>1. /\ events = <<>> /\ Dealing /\ UNCHANGED <<inFlight, page, reloads>>
        /\ server' \in Servers /\ server'.state = "JUDGING" /\ server.hand \subseteq server'.hand
    BY <1>1, <1>3, SkippedMe
  <2>2. PICK k \in Nat : /\ Len(events') = k + 3 /\ DealsAre(events', k, server'.hand \ server.hand)
                         /\ events'[k + 1].type = "state" /\ events'[k + 1].state = "JUDGING"
                         /\ events'[k + 2].type = "info" /\ events'[k + 3].type = "info"
    BY <1>1, <1>3, SkippedMe
  <2>3. \A i \in Queue' : i \in {k + 1, k + 2, k + 3} \/ events'[i].type = "deal"
    BY <2>2 DEF Queue, DealsAre
  <2>4. \A i \in Queue' : events'[i].type = "state" => events'[i].state = server'.state
    BY <2>1, <2>2, <2>3
  <2>5. MyStatus(server') # "PLAYING"
    BY <2>1, MyTurns
  <2> QED
    BY <1>1, <2>1, <2>2, <2>4, <2>5, HandDealt
<1>4. ASSUME GoesOn, UNCHANGED <<inFlight, page>>, server'.hand = server.hand \/ server'.state = "LOBBY"
      PROVE  HandInv'
  <2>1. Loads' = Loads /\ Plays' = Plays /\ Infos' = Infos
    BY <1>4 DEF Loads, Plays, Infos
  <2> QED
    BY <1>1, <1>4, <2>1, HandGoesOn
<1>5. CASE OthersPlay
  BY <1>1, <1>4, <1>5, OthersPlayGoesOn DEF OthersPlay
<1>6. CASE OtherJudges
  <2>1. RoundOver /\ server.state = "JUDGING" /\ UNCHANGED <<inFlight, page>>
    BY <1>6 DEF OtherJudges
  <2> QED
    BY <1>1, <1>4, <2>1, RoundOverGoesOn
<1>7. CASE ResetState
  <2>1. UNCHANGED <<inFlight, page>> /\ InLobby.state = "LOBBY"
    BY <1>7 DEF ResetState, InLobby
  <2> QED
    BY <1>1, <1>4, <1>7, <2>1, ResetStateGoesOn
<1>8. CASE HandleEvent
  BY <1>1, <1>8, HandHandled
<1>9. ASSUME NEW op \in Ops, Serve(op) \/ Learn(op) PROVE HandInv'
  BY <1>1, <1>9, HandServe, HandLearned
<1>10. ASSUME NEW c \in Cards, HandCardClick(c) PROVE HandInv'
  BY <1>1, <1>10, HandClicked
<1>11. CASE RoundCardClick
  <2>1. /\ page'.hand = page.hand /\ page'.handSelectedCard = page.handSelectedCard
        /\ page'.canSelectCard = page.canSelectCard /\ UNCHANGED <<server, events, inFlight>>
    BY <1>1, <1>11, RoundClickIs DEF TypeOK
  <2>2. Loads' = Loads /\ Plays' = Plays /\ Infos' = Infos
    BY <2>1 DEF Loads, Plays, Infos
  <2> QED
    BY <1>1, <2>1, <2>2, HandStays
<1>12. CASE ConfirmClick
  BY <1>1, <1>12, HandConfirmed
<1>13. CASE Reload
  <2>1. "dealAroundLoad" \notin Races
    BY DEF Ordered
  <2>2. /\ events = <<>> /\ page' = NewGame /\ UNCHANGED <<server, events>>
        /\ inFlight' = {Request("GET_GAME_INFO", None), Request("GET_CARDS", None)}
    BY <1>13, <2>1 DEF Reload
  <2>3. NoticesOK'
    BY <2>2 DEF HandInv, NoticesOK, Queue, Coming, OnTheWay
  <2> QED
    BY <1>1, <2>2, <2>3, HandLoads
<1>14. CASE UNCHANGED vars
  <2>1. UNCHANGED <<server, events, page>> /\ Loads' = Loads /\ Plays' = Plays /\ Infos' = Infos
    BY <1>14 DEF vars, Loads, Plays, Infos
  <2> QED
    BY <1>1, <2>1, HandStays
<1> QED
  BY <1>2, <1>3, <1>5, <1>6, <1>7, <1>8, <1>9, <1>10, <1>11, <1>12, <1>13, <1>14 DEF Next

LEMMA HandInvAgrees == ASSUME HandInv PROVE HandsAgree
<1> SUFFICES ASSUME Quiet, NEW c \in Cards PROVE page.hand[c] = In(c, server.hand)
  BY DEF HandsAgree, In
<1>1. Loads = {} /\ Plays = {} /\ Queue = {}
  BY DEF Quiet, Loads, Plays, Queue
<1>2. ~Coming("LOBBY") /\ Loaded = {} /\ OnTheWay = {} /\ Laid = {}
  BY <1>1 DEF Coming, Loaded, OnTheWay, Laid
<1>3. page.hand[c] + In(c, {}) + In(c, {}) = In(c, server.hand) + In(c, {})
  BY <1>1, <1>2 DEF HandInv, HandBalance
<1>4. page.hand[c] \in Int
  BY DEF HandInv, Base, TypeOK, Pages
<1> QED
  BY <1>3, <1>4 DEF In

\* The data of a page in a game is of its types, in whatever order requests, answers,
\* events and clicks come (cah.game.js, cah.ajax.handlers.js).
THEOREM PageTyped == Spec => []TypeOK
<1>1. Init => Base
  BY BaseInit
<1>2. Base /\ [Next]_vars => Base'
  BY BaseStep
<1>3. Base => TypeOK
  BY DEF Base
<1> QED
  BY <1>1, <1>2, <1>3, PTL DEF Spec

\* When nothing is under way, the page shows the hand that the server has, each card
\* once, however many cards, plays, skips, resets and reloads there were
\* (dealtCards, playCardComplete, setState): unless an answer is overtaken, the user
\* plays before the page knows of the round, or cards are dealt while the page loads.
THEOREM HandsAgreeInOrder == Ordered => (Spec => []HandsAgree)
<1> SUFFICES ASSUME Ordered PROVE Spec => []HandsAgree
  OBVIOUS
<1>1. Init => HandInv
  BY HandInit
<1>2. HandInv /\ [Next]_vars => HandInv'
  BY HandStep
<1>3. HandInv => HandsAgree
  BY HandInvAgrees
<1> QED
  BY <1>1, <1>2, <1>3, PTL DEF Spec

-----------------------------------------------------------------------------
(* The table.  While the game is judged, the page is about to be told what *)
(* lies there, after all that it hears of before; or it was told, or reads *)
(* it with its hand.                                                       *)

JudgingComes(i) ==
    /\ events[i].type = "state" /\ events[i].state = "JUDGING" /\ events[i].table = Table(server)
    /\ \A j \in Queue : events[j].type = "state" => j <= i
    /\ \A m \in Plays : m.answer = "ok" => m.ahead < i
    /\ \A m \in Loads : m.answer # "asked" => m.ahead < i \/ Table(m.data) = Table(server)

TableTold ==
    /\ \A j \in Queue : events[j].type # "state"
    /\ page.state # "PLAYING"
    /\ \A m \in Plays : m.answer # "ok"
    /\ \A m \in Loads : m.answer # "asked" => Table(m.data) = Table(server)
    /\ \/ page.table = Table(server)
       \/ Loads # {} /\ page.table \subseteq Table(server)

TableInv == server.state = "JUDGING" => (\E i \in Queue : JudgingComes(i)) \/ TableTold

LEMMA HandledTable ==
    ASSUME NEW p \in Pages, NEW e \in Events
    PROVE  /\ e.type # "state" /\ p.state # "PLAYING" =>
                 Handled(p, e).table = p.table /\ Handled(p, e).state = p.state
           /\ e.type = "state" /\ e.state = "JUDGING" =>
                 Handled(p, e).table = e.table /\ Handled(p, e).state = "JUDGING"
<1>1. CASE e.type = "deal"
  BY <1>1 DEF Handled, Dealt, Pages
<1>2. CASE e.type = "state" /\ e.state = "JUDGING"
  <2>1. Handled(p, e) = [Cleared(p) EXCEPT !.state = "JUDGING", !.table = e.table]
    BY <1>2 DEF Handled, ToState
  <2>2. Cleared(p) \in Pages
    BY DEF Cleared, Pages
  <2> QED
    BY <1>2, <2>1, <2>2 DEF Pages
<1>3. CASE e.type = "info"
  <2>1. CASE e.who = "me"
    <3> DEFINE on == \/ e.status = "PLAYING" /\ p.handSelectedCard # None
                     \/ e.status = "JUDGING" /\ p.roundSelectedCard # None
               judge == IF e.status \in {"JUDGE", "JUDGING"} THEN "me" ELSE p.judge
    <3>1. Handled(p, e) = [p EXCEPT !.status = e.status, !.confirm = on,
              !.handSelectedCard = IF e.status = "PLAYING" THEN @ ELSE None, !.judge = judge]
      BY <1>3, <2>1 DEF Handled, UpdateMe
    <3> HIDE DEF on, judge
    <3> QED
      BY <1>3, <3>1 DEF Pages
  <2>2. CASE e.who = "judge"
    BY <1>3, <2>2 DEF Handled, UpdateJudge, Pages
  <2>3. CASE e.who = "player"
    BY <1>3, <2>3 DEF Handled, UpdatePlayer, Pages
  <2> QED
    BY <1>3, <2>1, <2>2, <2>3 DEF Events
<1>4. CASE e.type = "complete"
  BY <1>4 DEF Handled, Pages
<1> QED
  BY <1>1, <1>2, <1>3, <1>4 DEF Events

LEMMA LearnedTable ==
    ASSUME NEW p \in Pages, NEW s
    PROVE  /\ p.state # "PLAYING" => LearnInfo(p, s).table = p.table
           /\ LearnInfo(p, s).state = p.state
           /\ LearnCards(p, s).table = p.table \cup Table(s) /\ LearnCards(p, s).state = p.state
<1> DEFINE q == UpdatePlayer(p, PlayerStatus(s))
           r == UpdateJudge(q, JudgeStatus(s))
<1>1. q.state = p.state /\ (p.state # "PLAYING" => q.table = p.table)
  BY DEF UpdatePlayer, Pages
<1>2. r.state = q.state /\ r.table = q.table
  BY DEF UpdateJudge, UpdatePlayer, Pages
<1>3. DOMAIN r = DOMAIN p
  BY DEF UpdateJudge, UpdatePlayer, Pages
<1>4. LearnInfo(p, s) = UpdateMe(r, MyStatus(s))
  BY DEF LearnInfo
<1>5. {"state", "table"} \subseteq DOMAIN p
  BY DEF Pages
<1> HIDE DEF q, r
<1>6. (p.state # "PLAYING" => LearnInfo(p, s).table = p.table) /\ LearnInfo(p, s).state = p.state
  BY <1>1, <1>2, <1>3, <1>4, <1>5 DEF UpdateMe
<1>7. LearnCards(p, s).table = p.table \cup Table(s) /\ LearnCards(p, s).state = p.state
  BY DEF LearnCards, Dealt, Pages
<1> QED
  BY <1>6, <1>7

\* The game is told to judge.
LEMMA TableComes ==
    ASSUME Base, Base', NEW k \in Queue', events'[k].type = "state", events'[k].state = "JUDGING",
           events'[k].table = Table(server'), \A j \in Queue' : events'[j].type = "state" => j <= k,
           \A m \in inFlight' : m.answer # "asked" => m.ahead <= Len(events), Len(events) < k
    PROVE  TableInv'
<1>1. \A m \in inFlight' : m.answer # "asked" => m.ahead < k
  <2>1. (\A m \in inFlight' : m.ahead \in Nat) /\ Len(events) \in Nat /\ k \in Nat
    BY DEF Base, TypeOK, Messages, Queue
  <2> QED
    BY <2>1
<1>2. JudgingComes(k)'
  BY <1>1 DEF JudgingComes, Plays, Loads
<1> QED
  BY <1>2 DEF TableInv

LEMMA TableGoesOn ==
    ASSUME Base, Base', GoesOn, \A m \in inFlight' : m.answer # "asked" => m \in inFlight \/ m.ahead = Len(events)
    PROVE  TableInv'
<1> SUFFICES ASSUME server'.state = "JUDGING" PROVE TableInv'
  BY DEF TableInv
<1>1. PICK k \in 1..Len(events') :
        /\ k \notin Queue /\ events'[k].type = "state"
        /\ \A j \in 1..Len(events') : events'[j].type = "state" => j <= k
  BY GoesOnBase
<1>2. TellsOf(events'[k], server')
  BY <1>1, GoesOnBase
<1>3. Len(events) < k /\ Len(events) \in Nat /\ k \in Queue'
  BY <1>1 DEF Queue, Base, TypeOK
<1>4. \A m \in inFlight' : m.answer # "asked" => m.ahead <= Len(events)
  BY <1>3 DEF Base, MessagesOK
<1> QED
  BY <1>1, <1>2, <1>3, <1>4, TableComes DEF TellsOf, Queue

\* Nothing is told.
LEMMA TableStays ==
    ASSUME TableInv, UNCHANGED <<server, events>>,
           \A n \in Plays' : n.answer = "ok" => n \in Plays,
           \A n \in Loads' : n.answer # "asked" => n \in Loads \/ n.data = server,
           server.state = "JUDGING" /\ TableTold =>
              /\ page'.state # "PLAYING"
              /\ \/ page'.table = Table(server)
                 \/ Loads' # {} /\ page'.table \subseteq Table(server)
    PROVE  TableInv'
<1> SUFFICES ASSUME server.state = "JUDGING" PROVE (\E i \in Queue : JudgingComes(i)') \/ TableTold'
  BY DEF TableInv, Queue
<1>1. ASSUME NEW i \in Queue, JudgingComes(i) PROVE JudgingComes(i)'
  BY <1>1 DEF JudgingComes, Queue
<1>2. ASSUME TableTold PROVE TableTold'
  BY <1>2 DEF TableTold, Queue
<1> QED
  BY <1>1, <1>2 DEF TableInv

LEMMA TableHandled ==
    ASSUME "overtaken" \notin Races, Base, Base', TableInv, HandleEvent PROVE TableInv'
<1> DEFINE e == events[1]
<1>1. /\ e \in Events /\ page' = Handled(page, e) /\ server' = server /\ 1 \in Queue
      /\ Len(events) \in Nat \ {0} /\ Len(events') = Len(events) - 1
      /\ \A i \in Queue' : i + 1 \in Queue /\ events'[i] = events[i + 1]
      /\ \A i \in Queue : i = 1 \/ (i - 1 \in Queue' /\ events'[i - 1] = events[i])
  <2>1. /\ e \in Events /\ page' = Handled(page, e) /\ server' = server
        /\ Len(events) \in Nat \ {0} /\ Len(events') = Len(events) - 1
    BY HandleIs
  <2>2. /\ \A i \in Queue' : i + 1 \in Queue /\ events'[i] = events[i + 1]
        /\ \A i \in Queue : i = 1 \/ (i - 1 \in Queue' /\ events'[i - 1] = events[i])
    BY HandleIs DEF Queue
  <2>3. 1 \in Queue
    BY <2>1 DEF Queue
  <2> QED
    BY <2>1, <2>2, <2>3
<1>2. \A m \in inFlight : m.answer # "asked" => m.ahead \in Nat /\ m.ahead >= 1
  <2>1. InTurn(1)
    BY HandleIs
  <2> QED
    BY <2>1 DEF InTurn, Base, TypeOK, Messages
<1>3. /\ \A n \in Plays' : \E m \in Plays : n = Older(m)
      /\ \A n \in Loads' : \E m \in Loads : n = Older(m)
      /\ Loads # {} => Loads' # {}
  BY OlderKinds
<1>4. \A m \in inFlight : /\ Older(m).answer = m.answer /\ Older(m).data = m.data
                          /\ m.answer # "asked" => Older(m).ahead = m.ahead - 1
  BY <1>2, OlderKinds
<1>5. Plays \subseteq inFlight /\ Loads \subseteq inFlight
  BY DEF Plays, Loads
<1>6. page \in Pages
  BY DEF Base, TypeOK
<1> HIDE DEF e
<1> SUFFICES ASSUME server.state = "JUDGING" PROVE (\E i \in Queue' : JudgingComes(i)') \/ TableTold'
  BY <1>1 DEF TableInv
<1>7. ASSUME NEW i \in Queue, JudgingComes(i), i # 1 PROVE JudgingComes(i - 1)' /\ i - 1 \in Queue'
  <2>1. i - 1 \in Queue' /\ events'[i - 1] = events[i] /\ i \in Int
    BY <1>1, <1>7 DEF Queue
  <2>2. \A j \in Queue' : events'[j].type = "state" => j <= i - 1
    <3> SUFFICES ASSUME NEW j \in Queue', events'[j].type = "state" PROVE j <= i - 1
      OBVIOUS
    <3>1. j + 1 \in Queue /\ events[j + 1].type = "state" /\ j \in Int
      BY <1>1 DEF Queue
    <3>2. j + 1 <= i
      BY <1>7, <3>1 DEF JudgingComes
    <3> QED
      BY <2>1, <3>1, <3>2
  <2>3. ASSUME NEW n \in Plays', n.answer = "ok" PROVE n.ahead < i - 1
    <3>1. PICK m \in Plays : n = Older(m)
      BY <1>3
    <3>2. m.answer = "ok" /\ m.ahead \in Nat /\ n.ahead = m.ahead - 1
      BY <1>2, <1>4, <1>5, <2>3, <3>1
    <3>3. m.ahead < i
      BY <1>7, <3>2 DEF JudgingComes
    <3> QED
      BY <2>1, <3>2, <3>3
  <2>4. ASSUME NEW n \in Loads', n.answer # "asked" PROVE n.ahead < i - 1 \/ Table(n.data) = Table(server)
    <3>1. PICK m \in Loads : n = Older(m)
      BY <1>3
    <3>2. m.answer # "asked" /\ m.ahead \in Nat /\ n.ahead = m.ahead - 1 /\ n.data = m.data
      BY <1>2, <1>4, <1>5, <2>4, <3>1
    <3>3. m.ahead < i \/ Table(m.data) = Table(server)
      BY <1>7, <3>2 DEF JudgingComes
    <3> QED
      BY <2>1, <3>2, <3>3
  <2> QED
    BY <1>1, <1>7, <2>1, <2>2, <2>3, <2>4 DEF JudgingComes
<1>8. ASSUME JudgingComes(1) PROVE TableTold'
  <2>1. page'.table = Table(server) /\ page'.state = "JUDGING"
    BY <1>1, <1>6, <1>8, HandledTable DEF JudgingComes, e
  <2>2. \A j \in Queue' : events'[j].type # "state"
    <3> SUFFICES ASSUME NEW j \in Queue', events'[j].type = "state" PROVE FALSE
      OBVIOUS
    <3>1. j + 1 \in Queue /\ events[j + 1].type = "state" /\ j \in Int /\ j >= 1
      BY <1>1 DEF Queue
    <3>2. j + 1 <= 1
      BY <1>8, <3>1 DEF JudgingComes
    <3> QED
      BY <3>1, <3>2
  <2>3. \A n \in Plays' : n.answer # "ok"
    BY <1>2, <1>3, <1>4, <1>5, <1>8 DEF JudgingComes
  <2>4. \A n \in Loads' : n.answer # "asked" => Table(n.data) = Table(server)
    <3> SUFFICES ASSUME NEW n \in Loads', n.answer # "asked" PROVE Table(n.data) = Table(server)
      OBVIOUS
    <3>1. PICK m \in Loads : n = Older(m)
      BY <1>3
    <3>2. m.answer # "asked" /\ m.ahead \in Nat /\ m.ahead >= 1 /\ n.data = m.data
      BY <1>2, <1>4, <1>5, <3>1
    <3>3. m.ahead < 1 \/ Table(m.data) = Table(server)
      BY <1>8, <3>2 DEF JudgingComes
    <3> QED
      BY <3>2, <3>3
  <2> QED
    BY <1>1, <2>1, <2>2, <2>3, <2>4 DEF TableTold
<1>9. ASSUME TableTold PROVE TableTold'
  <2>1. e.type # "state"
    BY <1>1, <1>9 DEF TableTold, e
  <2>2. page'.table = page.table /\ page'.state = page.state
    BY <1>1, <1>6, <1>9, <2>1, HandledTable DEF TableTold
  <2>3. \A j \in Queue' : events'[j].type # "state"
    BY <1>1, <1>9 DEF TableTold
  <2>4. \A n \in Plays' : n.answer # "ok"
    BY <1>3, <1>4, <1>5, <1>9 DEF TableTold
  <2>5. \A n \in Loads' : n.answer # "asked" => Table(n.data) = Table(server)
    <3> SUFFICES ASSUME NEW n \in Loads', n.answer # "asked" PROVE Table(n.data) = Table(server)
      OBVIOUS
    <3>1. PICK m \in Loads : n = Older(m)
      BY <1>3
    <3>2. m.answer # "asked" /\ n.data = m.data
      BY <1>4, <1>5, <3>1
    <3> QED
      BY <1>9, <3>2 DEF TableTold
  <2> QED
    BY <1>1, <1>3, <1>9, <2>2, <2>3, <2>4, <2>5 DEF TableTold
<1> QED
  BY <1>7, <1>8, <1>9 DEF TableInv

LEMMA TableServed == ASSUME Base, Base', TableInv, NEW op \in Ops, Serve(op) PROVE TableInv'
<1>1. PICK m, a :
              /\ m \in inFlight /\ Answers(m, a) /\ m.op = op /\ page' = page
              /\ \/ UNCHANGED <<server, events>> /\ (op = "PLAY_CARD" => a.answer = "error")
                 \/ GoesOn
  BY ServeIs
<1>2. CASE GoesOn
  <2>1. \A n \in inFlight' : n.answer # "asked" => n \in inFlight \/ n.ahead = Len(events)
    BY <1>1 DEF Answers
  <2> QED
    BY <1>2, <2>1, TableGoesOn
<1>3. CASE UNCHANGED <<server, events>> /\ (op = "PLAY_CARD" => a.answer = "error")
  <2>1. /\ op # "GET_CARDS" => Loads' = Loads
        /\ op # "PLAY_CARD" => Plays' = Plays
        /\ op = "GET_CARDS" => Loads' = (Loads \ {m}) \cup {a}
        /\ op = "PLAY_CARD" => Plays' = (Plays \ {m}) \cup {a}
    BY <1>1, AnswerKinds
  <2>2. a.data = server
    BY <1>1 DEF Answers
  <2>3. \A n \in Plays' : n.answer = "ok" => n \in Plays
    BY <1>3, <2>1
  <2>4. /\ \A n \in Loads' : n.answer # "asked" => n \in Loads \/ n.data = server
        /\ Loads # {} => Loads' # {}
    BY <2>1, <2>2
  <2>5. TableTold =>
              /\ page'.state # "PLAYING"
              /\ \/ page'.table = Table(server)
                 \/ Loads' # {} /\ page'.table \subseteq Table(server)
    BY <1>1, <2>4 DEF TableTold
  <2> QED
    BY <1>3, <2>3, <2>4, <2>5, TableStays
<1> QED
  BY <1>1, <1>2, <1>3

LEMMA TableLearned == ASSUME Base, TableInv, NEW op \in Ops, Learn(op) PROVE TableInv'
<1>1. PICK m \in inFlight :
              /\ m.op = op /\ m.answer # "asked" /\ inFlight' = inFlight \ {m}
              /\ UNCHANGED <<server, events, reloads>>
              /\ op = "GET_GAME_INFO" => page' = LearnInfo(page, m.data)
              /\ op = "GET_CARDS" => page' = LearnCards(page, m.data)
              /\ op = "PLAY_CARD" => page' = IF m.answer = "ok" THEN PlayComplete(page) ELSE page
              /\ op = "JUDGE_SELECT" => page' = page
  BY LearnIs
<1>2. page \in Pages
  BY DEF Base, TypeOK
<1>3. /\ op # "GET_CARDS" => Loads' = Loads
      /\ Plays' \subseteq Plays /\ Loads' \subseteq Loads
      /\ op = "GET_CARDS" => m \in Loads
      /\ op = "PLAY_CARD" => m \in Plays
  BY <1>1 DEF Loads, Plays
<1>4. ASSUME TableTold
      PROVE  /\ page'.state # "PLAYING"
             /\ \/ page'.table = Table(server)
                \/ Loads' # {} /\ page'.table \subseteq Table(server)
  <2>1. CASE op = "GET_CARDS"
    <3>1. Table(m.data) = Table(server) /\ page.table \subseteq Table(server)
      BY <1>1, <1>3, <1>4, <2>1 DEF TableTold
    <3>2. page' = LearnCards(page, m.data)
      BY <1>1, <2>1
    <3>3. LearnCards(page, m.data).table = page.table \cup Table(m.data)
          /\ LearnCards(page, m.data).state = page.state
      BY <1>2, LearnedTable
    <3> QED
      BY <1>4, <3>1, <3>2, <3>3 DEF TableTold
  <2>2. CASE op = "GET_GAME_INFO"
    <3>1. page' = LearnInfo(page, m.data)
      BY <1>1, <2>2
    <3>2. page.state # "PLAYING" => LearnInfo(page, m.data).table = page.table
      BY <1>2, LearnedTable
    <3>3. LearnInfo(page, m.data).state = page.state
      BY <1>2, LearnedTable
    <3> QED
      BY <1>3, <1>4, <2>2, <3>1, <3>2, <3>3 DEF TableTold
  <2>3. CASE op \in {"PLAY_CARD", "JUDGE_SELECT"}
    <3>1. page' = page
      BY <1>1, <1>3, <1>4, <2>3 DEF TableTold
    <3> QED
      BY <1>3, <1>4, <2>3, <3>1 DEF TableTold
  <2> QED
    BY <2>1, <2>2, <2>3 DEF Ops
<1> QED
  BY <1>1, <1>3, <1>4, TableStays

LEMMA TableStep ==
    ASSUME "overtaken" \notin Races, Base, TableInv, [Next]_vars PROVE TableInv'
<1>1. Base' /\ TypeOK /\ server.hand \cap server.played = {} /\ page \in Pages
  BY BaseStep DEF Base, Unplayed, TypeOK
<1>2. ASSUME server'.state # "JUDGING" PROVE TableInv'
  BY <1>2 DEF TableInv
<1>3. CASE StartRound
  <2>1. server'.state = "PLAYING"
    BY <1>1, <1>3, RoundStarts
  <2> QED
    BY <1>2, <2>1
<1>4. CASE SkipMe
  <2>1. events = <<>> /\ UNCHANGED inFlight /\ Len(events) = 0
    BY <1>1, <1>4, SkippedMe
  <2>2. PICK k \in Nat : /\ Len(events') = k + 3 /\ DealsAre(events', k, server'.hand \ server.hand)
                         /\ events'[k + 1].type = "state" /\ events'[k + 1].state = "JUDGING"
                         /\ events'[k + 1].table = Table(server')
                         /\ events'[k + 2].type = "info" /\ events'[k + 3].type = "info"
    BY <1>1, <1>4, SkippedMe
  <2>3. \A j \in Queue' : events'[j].type = "state" => j <= k + 1
    <3> SUFFICES ASSUME NEW j \in Queue', ~(j <= k + 1) PROVE events'[j].type # "state"
      OBVIOUS
    <3>1. j = k + 2 \/ j = k + 3
      BY <2>2 DEF Queue
    <3> QED
      BY <2>2, <3>1
  <2>4. k + 1 \in Queue' /\ Len(events) < k + 1
    BY <2>1, <2>2 DEF Queue
  <2>5. \A m \in inFlight' : m.answer # "asked" => m.ahead <= Len(events)
    BY <2>1 DEF Base, MessagesOK
  <2> QED
    BY <1>1, <2>2, <2>3, <2>4, <2>5, TableComes
<1>5. CASE OthersPlay
  BY <1>1, <1>5, OthersPlayGoesOn, TableGoesOn DEF OthersPlay
<1>6. CASE OtherJudges
  <2>1. RoundOver
    BY <1>6 DEF OtherJudges
  <2>2. server.state = "JUDGING"
    BY <1>6 DEF OtherJudges
  <2> QED
    BY <1>1, <1>2, <2>1, <2>2, RoundOverGoesOn
<1>7. CASE ResetState
  <2>1. server'.state = "LOBBY"
    BY <1>7 DEF ResetState, InLobby
  <2> QED
    BY <1>2, <2>1
<1>8. CASE HandleEvent
  BY <1>1, <1>8, TableHandled
<1>9. ASSUME NEW op \in Ops, Serve(op) \/ Learn(op) PROVE TableInv'
  BY <1>1, <1>9, TableServed, TableLearned
<1>10. ASSUME UNCHANGED <<server, events, inFlight>>, page'.state = page.state, page'.table = page.table
       PROVE  TableInv'
  <2>1. Loads' = Loads /\ Plays' = Plays
    BY <1>10 DEF Loads, Plays
  <2> QED
    BY <1>10, <2>1, TableStays DEF TableTold
<1>11. ASSUME NEW c \in Cards, HandCardClick(c) PROVE TableInv'
  BY <1>1, <1>10, <1>11 DEF HandCardClick, Pages
<1>12. CASE RoundCardClick
  BY <1>1, <1>10, <1>12, RoundClickIs
<1>13. CASE ConfirmClick
  <2>1. /\ UNCHANGED <<server, events>> /\ page' = [page EXCEPT !.canSelectCard = FALSE]
        /\ \/ inFlight' = inFlight \cup {Request("JUDGE_SELECT", page.roundSelectedCard)}
           \/ inFlight' = inFlight \cup {Request("PLAY_CARD", page.handSelectedCard)}
           \/ inFlight' = inFlight
    BY <1>13, ConfirmIs
  <2>2. page'.state = page.state /\ page'.table = page.table
    BY <1>1, <2>1 DEF Pages
  <2>3. Loads' = Loads /\ \A n \in Plays' : n.answer = "ok" => n \in Plays
    BY <2>1 DEF Loads, Plays, Request
  <2> QED
    BY <2>1, <2>2, <2>3, TableStays DEF TableTold
<1>14. CASE Reload
  <2>1. /\ page' = NewGame /\ UNCHANGED <<server, events>>
        /\ inFlight' = {Request("GET_GAME_INFO", None), Request("GET_CARDS", None)}
    BY <1>14 DEF Reload
  <2>2. page'.state = "LOBBY" /\ page'.table = {}
    BY <2>1 DEF NewGame
  <2>3. Plays' = {} /\ Loads' = {Request("GET_CARDS", None)}
    BY <2>1 DEF Plays, Loads, Request
  <2>4. Request("GET_CARDS", None).answer = "asked"
    BY DEF Request
  <2> QED
    BY <2>1, <2>2, <2>3, <2>4, TableStays
<1>15. CASE UNCHANGED vars
  BY <1>10, <1>15 DEF vars
<1> QED
  BY <1>3, <1>4, <1>5, <1>6, <1>7, <1>8, <1>9, <1>11, <1>12, <1>13, <1>14, <1>15 DEF Next

\* When nothing is under way and the game is judged, what lies on the table of the page is
\* what the server has there (setRoundWhiteCards, addRoundWhiteCard_), whatever was played,
\* skipped and loaded before, unless an answer is overtaken.
THEOREM TableShownInOrder == "overtaken" \notin Races => (Spec => []TableShown)
<1> SUFFICES ASSUME "overtaken" \notin Races PROVE Spec => []TableShown
  OBVIOUS
<1>1. Init => Base /\ TableInv
  BY BaseInit DEF Init, TableInv, InLobby
<1>2. Base /\ TableInv /\ [Next]_vars => (Base /\ TableInv)'
  BY BaseStep, TableStep
<1>3. Base /\ TableInv => TableShown
  BY DEF TableInv, TableShown, TableTold, Quiet, Queue, Loads
<1> QED
  BY <1>1, <1>2, <1>3, PTL DEF Spec

-----------------------------------------------------------------------------
(* The controls.  While the game waits for the player, or will when others *)
(* have played, the page knows of it, or will by what is under way; and if *)
(* its controls are disabled, what enables them is under way.              *)

Engaged == EngagedIn(server)

TellsMe(i) == events[i].type = "info" /\ events[i].who = "me"

\* Later than what is the n-th to come, a round starts, or I am told my status.
NewRound(n) == \E i \in Queue : i > n /\ events[i].type = "state" /\ events[i].state = "PLAYING"
Notice(n) == \E i \in Queue : i > n /\ TellsMe(i)

\* The status is mine, or was until judging started.
Right(status, n) ==
    \/ status = MyStatus(server)
    \/ MyStatus(server) = "JUDGING" /\ status = "JUDGE" /\ Notice(n)

TellsRight ==
    \A i \in Queue :
        events[i].type = "info" =>
            /\ events[i].who = "me" => events[i].status = MyStatus(server) /\ events[i].status # "JUDGE"
            /\ events[i].who = "judge" => server.judge = "other"

InfosRight ==
    \A m \in Infos : m.answer # "asked" => Right(MyStatus(m.data), m.ahead) \/ NewRound(m.ahead)

StatusRight ==
    \/ NewRound(0)
    \/ \E m \in Infos : m.answer = "asked" \/ Right(MyStatus(m.data), m.ahead)
    \/ Right(page.status, 0) /\ (page.judge = "me" <=> server.judge = "me")

Unlocks ==
    \/ NewRound(0)
    \/ \E m \in Plays : Fresh(m) \/ m.answer = "ok"
    \/ /\ MyStatus(server) = "JUDGING"
       /\ \E m \in inFlight : m.op = "JUDGE_SELECT" /\ m.answer = "asked" /\ m.card = "shown"

\* The card that is selected is in the hand, and what is to be confirmed is selected.
Selected(p) ==
    /\ p.handSelectedCard # None => p.hand[p.handSelectedCard] > 0
    /\ p.confirm => \/ p.status = "PLAYING" /\ p.handSelectedCard # None
                    \/ p.status = "JUDGING" /\ p.roundSelectedCard # None

LockInv ==
    /\ Engaged => TellsRight /\ InfosRight /\ StatusRight /\ (~page.canSelectCard => Unlocks)
    /\ Selected(page) /\ (page.status = None => Infos # {})

LEMMA UpdateMeIs ==
    ASSUME NEW p \in Pages, NEW status \in Statuses
    PROVE  LET q == UpdateMe(p, status)
           IN  /\ q.status = status /\ q.hand = p.hand /\ q.canSelectCard = p.canSelectCard
               /\ q.judge = IF status \in {"JUDGE", "JUDGING"} THEN "me" ELSE p.judge
               /\ Selected(p) => Selected(q)
<1> DEFINE on == \/ status = "PLAYING" /\ p.handSelectedCard # None
                 \/ status = "JUDGING" /\ p.roundSelectedCard # None
           card == IF status = "PLAYING" THEN p.handSelectedCard ELSE None
           judge == IF status \in {"JUDGE", "JUDGING"} THEN "me" ELSE p.judge
           q == UpdateMe(p, status)
<1>1. q = [p EXCEPT !.status = status, !.confirm = on, !.handSelectedCard = card, !.judge = judge]
  BY DEF UpdateMe
<1>2. on \in BOOLEAN
  OBVIOUS
<1> HIDE DEF on, card, judge, q
<1>3. /\ q.status = status /\ q.hand = p.hand /\ q.canSelectCard = p.canSelectCard /\ q.judge = judge
      /\ q.handSelectedCard = card /\ q.confirm = on /\ q.roundSelectedCard = p.roundSelectedCard
  BY <1>1 DEF Pages
<1>4. Selected(p) => Selected(q)
  BY <1>2, <1>3 DEF Selected, on, card
<1> QED
  BY <1>3, <1>4 DEF q, judge

LEMMA HandledControls ==
    ASSUME NEW p \in Pages, NEW e \in Events
    PROVE  LET q == Handled(p, e)
               Is(s) == e.type = "state" /\ e.state = s
               Me == e.type = "info" /\ e.who = "me"
               Judge == e.type = "info" /\ e.who = "judge"
           IN  /\ Me => /\ q.status = e.status
                        /\ q.judge = IF e.status \in {"JUDGE", "JUDGING"} THEN "me" ELSE p.judge
               /\ ~Me => q.status = p.status
               /\ ~Me /\ ~Judge /\ ~Is("LOBBY") => q.judge = p.judge
               /\ Judge => q.judge \in {"other", p.judge}
               /\ Is("PLAYING") => q.canSelectCard
               /\ Selected(p) => Selected(q)
<1>1. CASE e.type = "deal"
  <2> DEFINE hand == [c \in Cards |-> p.hand[c] + (IF c \in e.cards THEN 1 ELSE 0)]
             q == Handled(p, e)
  <2>1. q = [p EXCEPT !.hand = hand]
    BY <1>1 DEF Handled, Dealt
  <2>2. \A c \in Cards : p.hand[c] > 0 => hand[c] > 0
    BY DEF Pages
  <2> HIDE DEF hand, q
  <2>3. /\ q.hand = hand /\ q.handSelectedCard = p.handSelectedCard /\ q.confirm = p.confirm
        /\ q.status = p.status /\ q.judge = p.judge /\ q.roundSelectedCard = p.roundSelectedCard
    BY <2>1 DEF Pages
  <2>4. p.handSelectedCard # None => p.handSelectedCard \in Cards
    BY DEF Pages
  <2>5. Selected(p) => Selected(q)
    BY <2>2, <2>3, <2>4 DEF Selected
  <2> QED
    BY <1>1, <2>3, <2>5 DEF q
<1>2. CASE e.type = "state"
  <2> DEFINE r == Cleared(p)
             q == ToState(p, e)
  <2>1. /\ r \in Pages /\ r.hand = p.hand /\ r.handSelectedCard = p.handSelectedCard /\ r.confirm = p.confirm
        /\ r.status = p.status /\ r.judge = p.judge
        /\ p.roundSelectedCard # None => r.roundSelectedCard = "gone"
    BY DEF Cleared, Pages
  <2>2. "gone" # None
    BY ClientAssumption
  <2>3. e.state = "LOBBY" => q = [r EXCEPT !.state = "LOBBY", !.judge = None, !.hand = [c \in Cards |-> 0],
                               !.handSelectedCard = None, !.confirm = FALSE]
    BY DEF ToState
  <2>4. e.state = "PLAYING" => q = [r EXCEPT !.state = "PLAYING", !.canSelectCard = TRUE]
    BY DEF ToState
  <2>5. e.state = "JUDGING" => q = [r EXCEPT !.state = "JUDGING", !.table = e.table]
    BY DEF ToState
  <2>6. Handled(p, e) = q /\ e.state \in {"LOBBY", "PLAYING", "JUDGING"}
    BY <1>2 DEF Handled, Events
  <2> HIDE DEF r, q
  <2>7. Selected(p) => Selected(r)
    BY <2>1, <2>2 DEF Selected
  <2>8. CASE e.state = "LOBBY"
    <3>1. q.status = r.status /\ q.handSelectedCard = None /\ q.confirm = FALSE
      BY <2>1, <2>3, <2>8 DEF Pages
    <3>2. Selected(q)
      BY <3>1 DEF Selected
    <3> QED
      BY <1>2, <2>1, <2>6, <2>8, <3>1, <3>2
  <2>9. CASE e.state # "LOBBY"
    <3>1. /\ q.hand = r.hand /\ q.handSelectedCard = r.handSelectedCard /\ q.confirm = r.confirm
          /\ q.status = r.status /\ q.judge = r.judge /\ q.roundSelectedCard = r.roundSelectedCard
          /\ e.state = "PLAYING" => q.canSelectCard
      BY <2>1, <2>4, <2>5, <2>6, <2>9 DEF Pages
    <3>2. Selected(r) => Selected(q)
      BY <3>1 DEF Selected
    <3> QED
      BY <1>2, <2>1, <2>6, <2>7, <2>9, <3>1, <3>2
  <2> QED
    BY <2>8, <2>9
<1>3. CASE e.type = "info"
  <2>1. e.status \in Statuses /\ e.who \in {"me", "judge", "player"}
    BY <1>3 DEF Events
  <2>2. CASE e.who = "me"
    <3>1. Handled(p, e) = UpdateMe(p, e.status)
      BY <1>3, <2>2 DEF Handled
    <3> QED
      BY <1>3, <2>1, <2>2, <3>1, UpdateMeIs
  <2> DEFINE q == Handled(p, e)
  <2>3. CASE e.who # "me"
    <3>1. /\ q.hand = p.hand /\ q.handSelectedCard = p.handSelectedCard /\ q.confirm = p.confirm
          /\ q.status = p.status /\ q.roundSelectedCard = p.roundSelectedCard
          /\ q.judge \in {"other", p.judge} /\ (e.who # "judge" => q.judge = p.judge)
      BY <1>3, <2>1, <2>3 DEF Handled, UpdateJudge, UpdatePlayer, Pages
    <3> HIDE DEF q
    <3>2. Selected(p) => Selected(q)
      BY <3>1 DEF Selected
    <3> QED
      BY <1>3, <2>3, <3>1, <3>2 DEF q
  <2> QED
    BY <2>2, <2>3
<1>4. CASE e.type = "complete"
  <2> DEFINE q == Handled(p, e)
  <2>1. q = [p EXCEPT !.confirm = FALSE]
    BY <1>4 DEF Handled
  <2> HIDE DEF q
  <2>2. /\ q.hand = p.hand /\ q.handSelectedCard = p.handSelectedCard /\ q.confirm = FALSE
        /\ q.status = p.status /\ q.judge = p.judge
    BY <2>1 DEF Pages
  <2>3. Selected(p) => Selected(q)
    BY <2>2 DEF Selected
  <2> QED
    BY <1>4, <2>2, <2>3 DEF q
<1> QED
  BY <1>1, <1>2, <1>3, <1>4 DEF Events

LEMMA LearnedControls ==
    ASSUME NEW p \in Pages, NEW s \in Servers, Selected(p)
    PROVE  /\ LET q == LearnInfo(p, s)
              IN  /\ q.status = MyStatus(s) /\ q.canSelectCard = p.canSelectCard /\ Selected(q)
                  /\ MyStatus(s) = "PLAYING" => q.judge = "other"
                  /\ MyStatus(s) \in {"JUDGE", "JUDGING"} => q.judge = "me"
           /\ LET q == LearnCards(p, s)
              IN  q.status = p.status /\ q.judge = p.judge /\ q.canSelectCard = p.canSelectCard /\ Selected(q)
           /\ LET q == PlayComplete(p)
              IN  q.status = p.status /\ q.judge = p.judge /\ q.canSelectCard /\ Selected(q)
<1>1. LET q == LearnInfo(p, s)
      IN  /\ q.status = MyStatus(s) /\ q.canSelectCard = p.canSelectCard /\ Selected(q)
          /\ MyStatus(s) = "PLAYING" => q.judge = "other"
          /\ MyStatus(s) \in {"JUDGE", "JUDGING"} => q.judge = "me"
  <2> DEFINE a == UpdatePlayer(p, PlayerStatus(s))
             b == UpdateJudge(a, JudgeStatus(s))
  <2>1. a \in Pages /\ a.hand = p.hand /\ a.handSelectedCard = p.handSelectedCard /\ a.confirm = p.confirm
        /\ a.status = p.status /\ a.roundSelectedCard = p.roundSelectedCard /\ a.canSelectCard = p.canSelectCard
    <3>1. PlayerStatus(s) \in Statuses
      BY StatusTypes
    <3> QED
      BY <3>1 DEF UpdatePlayer, Pages, OnTable
  <2> HIDE DEF a
  <2>2. /\ b \in Pages /\ b.hand = a.hand /\ b.handSelectedCard = a.handSelectedCard /\ b.confirm = a.confirm
        /\ b.status = a.status /\ b.roundSelectedCard = a.roundSelectedCard /\ b.canSelectCard = a.canSelectCard
        /\ JudgeStatus(s) = "JUDGE" => b.judge = "other"
    BY <2>1 DEF UpdateJudge, Pages
  <2> HIDE DEF b
  <2>3. Selected(b)
    BY <2>1, <2>2 DEF Selected
  <2>4. MyStatus(s) = "PLAYING" => JudgeStatus(s) = "JUDGE"
    BY MyTurns
  <2>5. MyStatus(s) \in Statuses
    BY StatusTypes
  <2> DEFINE q == UpdateMe(b, MyStatus(s))
  <2>6. /\ q.status = MyStatus(s) /\ q.canSelectCard = b.canSelectCard /\ Selected(q)
        /\ q.judge = IF MyStatus(s) \in {"JUDGE", "JUDGING"} THEN "me" ELSE b.judge
    BY <2>2, <2>3, <2>5, UpdateMeIs
  <2>7. LearnInfo(p, s) = q
    BY DEF LearnInfo, a, b
  <2> HIDE DEF q
  <2> QED
    BY <2>1, <2>2, <2>4, <2>6, <2>7
<1>2. LET q == LearnCards(p, s)
      IN  q.status = p.status /\ q.judge = p.judge /\ q.canSelectCard = p.canSelectCard /\ Selected(q)
  <2> DEFINE hand == [c \in Cards |-> p.hand[c] + (IF c \in s.hand THEN 1 ELSE 0)]
             table == p.table \cup Table(s)
             q == LearnCards(p, s)
  <2>1. q = [p EXCEPT !.hand = hand, !.table = table]
    BY DEF LearnCards, Dealt, Pages
  <2>2. \A c \in Cards : p.hand[c] > 0 => hand[c] > 0
    BY DEF Pages
  <2> HIDE DEF hand, table, q
  <2>3. /\ q.hand = hand /\ q.handSelectedCard = p.handSelectedCard /\ q.confirm = p.confirm
        /\ q.status = p.status /\ q.judge = p.judge /\ q.roundSelectedCard = p.roundSelectedCard
        /\ q.canSelectCard = p.canSelectCard
    BY <2>1 DEF Pages
  <2>4. p.handSelectedCard # None => p.handSelectedCard \in Cards
    BY DEF Pages
  <2>5. Selected(q)
    BY <2>2, <2>3, <2>4 DEF Selected
  <2> QED
    BY <2>3, <2>5 DEF q
<1>3. LET q == PlayComplete(p)
      IN  q.status = p.status /\ q.judge = p.judge /\ q.canSelectCard /\ Selected(q)
  <2> DEFINE q == PlayComplete(p)
  <2>1. /\ q.status = p.status /\ q.judge = p.judge /\ q.canSelectCard
        /\ q.confirm = FALSE /\ q.handSelectedCard = None
    BY DEF PlayComplete, Pages
  <2> HIDE DEF q
  <2>2. Selected(q)
    BY <2>1 DEF Selected
  <2> QED
    BY <2>1, <2>2 DEF q
<1> QED
  BY <1>1, <1>2, <1>3

\* The game goes on: judging starts, or the player's status stays.
LEMMA LockGoesOn ==
    ASSUME Base, Base', LockInv, GoesOn, page' = page, Infos' = Infos,
           \/ \E m \in Plays' : m.answer = "ok"
           \/ Plays' = Plays /\ (server'.hand = server.hand \/ server'.state \in {"LOBBY", "ROUND_OVER"})
    PROVE  LockInv'
<1> SUFFICES ASSUME Engaged'
             PROVE  TellsRight' /\ InfosRight' /\ StatusRight' /\ (~page.canSelectCard => Unlocks')
  BY DEF LockInv
<1>1. /\ server \in Servers /\ server' \in Servers /\ Len(events) < Len(events')
      /\ Len(events) \in Nat /\ Len(events') \in Nat
      /\ \A i \in Queue : i \in Queue' /\ events'[i] = events[i]
      /\ \A i \in Queue' : i \in Queue \/ TellsOf(events'[i], server')
  BY GoesOnBase DEF Base, TypeOK, Queue
<1>2. /\ Engaged /\ server'.judge = server.judge /\ Role(MyStatus(server')) = Role(MyStatus(server))
      /\ server.state = "PLAYING"
  BY DEF GoesOn, Continues, Engaged, EngagedIn
<1>3. TellsRight /\ InfosRight /\ StatusRight /\ (~page.canSelectCard => Unlocks)
  BY <1>2 DEF LockInv
<1>4. MyStatus(server) # "JUDGING"
  BY <1>1, <1>2, MyTurns
<1>5. \/ MyStatus(server') = MyStatus(server)
      \/ MyStatus(server) = "JUDGE" /\ MyStatus(server') = "JUDGING"
  BY <1>1, <1>2, <1>4 DEF Role
<1>6. \A n : (NewRound(n) => NewRound(n)') /\ (Notice(n) => Notice(n)')
  BY <1>1 DEF NewRound, Notice, TellsMe
<1>7. ASSUME MyStatus(server') = "JUDGING", NEW n \in Nat, n <= Len(events) PROVE Notice(n)'
  <2>1. PICK k \in 1..Len(events') : k \notin Queue /\ events'[k].type = "info" /\ events'[k].who = "me"
    BY <1>7, GoesOnBase
  <2>2. k > n /\ k \in Queue'
    BY <1>1, <1>7, <2>1 DEF Queue
  <2> QED
    BY <2>1, <2>2 DEF Notice, TellsMe
<1>8. ASSUME NEW status, NEW n \in Nat, n <= Len(events), Right(status, n) PROVE Right(status, n)'
  BY <1>4, <1>5, <1>7, <1>8 DEF Right
<1>9. TellsRight'
  <2> SUFFICES ASSUME NEW i \in Queue', events'[i].type = "info"
               PROVE  /\ events'[i].who = "me" => events'[i].status = MyStatus(server') /\ events'[i].status # "JUDGE"
                      /\ events'[i].who = "judge" => server'.judge = "other"
    BY DEF TellsRight
  <2>1. CASE i \in Queue
    BY <1>1, <1>2, <1>3, <1>5, <2>1 DEF TellsRight
  <2>2. CASE TellsOf(events'[i], server')
    BY <2>2 DEF TellsOf, Engaged
  <2> QED
    BY <1>1, <2>1, <2>2
<1>10. \A m \in Infos : m.answer # "asked" => m.ahead \in Nat /\ m.ahead <= Len(events)
  BY DEF Base, TypeOK, MessagesOK, Messages, Infos
<1>11. InfosRight'
  BY <1>3, <1>6, <1>8, <1>10 DEF InfosRight
<1>12. StatusRight'
  <2>1. ASSUME NewRound(0) PROVE StatusRight'
    BY <1>6, <2>1 DEF StatusRight
  <2>2. ASSUME NEW m \in Infos, m.answer = "asked" \/ Right(MyStatus(m.data), m.ahead) PROVE StatusRight'
    BY <1>8, <1>10, <2>2 DEF StatusRight
  <2>3. ASSUME Right(page.status, 0), page.judge = "me" <=> server.judge = "me" PROVE StatusRight'
    BY <1>1, <1>2, <1>8, <2>3 DEF StatusRight
  <2> QED
    BY <1>3, <2>1, <2>2, <2>3 DEF StatusRight
<1>13. ASSUME ~page.canSelectCard PROVE Unlocks'
  <2>1. CASE \E m \in Plays' : m.answer = "ok"
    BY <2>1 DEF Unlocks
  <2>2. CASE Plays' = Plays /\ server'.hand = server.hand
    <3>1. \A m \in Plays : Fresh(m) => Fresh(m)'
      BY <1>5, <2>2 DEF Fresh
    <3>2. NewRound(0) \/ \E m \in Plays : Fresh(m) \/ m.answer = "ok"
      BY <1>3, <1>4, <1>13 DEF Unlocks
    <3> QED
      BY <1>6, <2>2, <3>1, <3>2 DEF Unlocks
  <2>3. server'.state \notin {"LOBBY", "ROUND_OVER"}
    BY DEF Engaged, EngagedIn
  <2> QED
    BY <2>1, <2>2, <2>3
<1> QED
  BY <1>9, <1>11, <1>12, <1>13

\* What is asked cannot be done, or only reads.
LEMMA LockAnswered ==
    ASSUME LockInv, NEW m, NEW a, Answers(m, a), UNCHANGED <<server, events, page>>,
           m.op = "PLAY_CARD" => ~(MyStatus(server) = "PLAYING" /\ m.card \in server.hand),
           m.op = "JUDGE_SELECT" => ~(MyStatus(server) = "JUDGING" /\ m.card = "shown")
    PROVE  LockInv'
<1>1. /\ m \in inFlight /\ a.op = m.op /\ a.data = server /\ m.answer = "asked"
      /\ inFlight' = (inFlight \ {m}) \cup {a}
  BY DEF Answers
<1>2. /\ Queue' = Queue /\ \A n : (NewRound(n)' <=> NewRound(n))
      /\ \A status, n : Right(status, n)' <=> Right(status, n)
      /\ Engaged' <=> Engaged
  BY DEF Queue, NewRound, Notice, TellsMe, Right, Engaged
<1>3. \A n \in Infos' : n \in Infos \/ (n = a /\ Right(MyStatus(n.data), n.ahead))
  BY <1>1 DEF Infos, Right
<1>4. \A n \in Infos : n \in Infos' \/ (n = m /\ a \in Infos' /\ Right(MyStatus(a.data), a.ahead))
  BY <1>1 DEF Infos, Right
<1>5. TellsRight => TellsRight'
  BY <1>2 DEF TellsRight
<1>6. InfosRight => InfosRight'
  BY <1>2, <1>3 DEF InfosRight
<1>7. StatusRight => StatusRight'
  BY <1>2, <1>4 DEF StatusRight
<1>8. Unlocks => Unlocks'
  <2>1. ASSUME NEW n \in Plays, Fresh(n) \/ n.answer = "ok" PROVE n \in Plays' /\ (Fresh(n)' <=> Fresh(n))
    BY <1>1, <2>1 DEF Plays, Fresh
  <2>2. ASSUME MyStatus(server) = "JUDGING",
               NEW n \in inFlight, n.op = "JUDGE_SELECT", n.answer = "asked", n.card = "shown"
        PROVE  n \in inFlight'
    BY <1>1, <2>2
  <2> QED
    BY <1>2, <2>1, <2>2 DEF Unlocks
<1>9. Infos # {} => Infos' # {}
  BY <1>4
<1> QED
  BY <1>2, <1>5, <1>6, <1>7, <1>8, <1>9 DEF LockInv

LEMMA LockServed == ASSUME Base, Base', LockInv, NEW op \in Ops, Serve(op) PROVE LockInv'
<1>1. PICK m, a :
              /\ m \in inFlight /\ Answers(m, a) /\ m.op = op /\ page' = page /\ reloads' = reloads
              /\ \/ /\ UNCHANGED <<server, events>>
                    /\ op = "PLAY_CARD" => /\ a.answer = "error"
                                           /\ ~(MyStatus(server) = "PLAYING" /\ m.card \in server.hand)
                    /\ op = "JUDGE_SELECT" => ~(MyStatus(server) = "JUDGING" /\ m.card = "shown")
                 \/ /\ op = "PLAY_CARD" /\ a.answer = "ok" /\ GoesOn
                    /\ MyStatus(server) = "PLAYING" /\ m.card \in server.hand
                    /\ server'.hand = server.hand \ {m.card}
                 \/ /\ op = "JUDGE_SELECT" /\ GoesOn /\ server'.state = "ROUND_OVER" /\ server'.hand = server.hand
                    /\ MyStatus(server) = "JUDGING"
  BY ServeIs
<1>2. CASE /\ UNCHANGED <<server, events>>
           /\ op = "PLAY_CARD" => ~(MyStatus(server) = "PLAYING" /\ m.card \in server.hand)
           /\ op = "JUDGE_SELECT" => ~(MyStatus(server) = "JUDGING" /\ m.card = "shown")
  BY <1>1, <1>2, LockAnswered
<1>3. CASE op = "PLAY_CARD" /\ a.answer = "ok" /\ GoesOn
  <2>1. Infos' = Infos /\ \E n \in Plays' : n.answer = "ok"
    BY <1>1, <1>3, AnswerKinds
  <2> QED
    BY <1>1, <1>3, <2>1, LockGoesOn
<1>4. CASE op = "JUDGE_SELECT" /\ GoesOn /\ server'.state = "ROUND_OVER"
  <2>1. Infos' = Infos /\ Plays' = Plays
    BY <1>1, <1>4, AnswerKinds
  <2> QED
    BY <1>1, <1>4, <2>1, LockGoesOn
<1> QED
  BY <1>1, <1>2, <1>3, <1>4

LEMMA LockHandled ==
    ASSUME "overtaken" \notin Races, HandInv, LockInv, HandleEvent PROVE LockInv'
<1> DEFINE e == events[1]
           Is(s) == e.type = "state" /\ e.state = s
           Me == e.type = "info" /\ e.who = "me"
           Judge == e.type = "info" /\ e.who = "judge"
<1>1. /\ e \in Events /\ page' = Handled(page, e) /\ server' = server /\ 1 \in Queue
      /\ \A i \in Queue' : i \in Nat /\ i + 1 \in Queue /\ events'[i] = events[i + 1]
      /\ \A i \in Queue : i \in Nat /\ (i = 1 \/ (i - 1 \in Queue' /\ events'[i - 1] = events[i]))
  <2>1. /\ e \in Events /\ page' = Handled(page, e) /\ server' = server
        /\ Len(events) \in Nat \ {0} /\ Len(events') = Len(events) - 1
    BY HandleIs DEF HandInv
  <2>2. /\ \A i \in Queue' : i + 1 \in Queue /\ events'[i] = events[i + 1]
        /\ \A i \in Queue : i = 1 \/ (i - 1 \in Queue' /\ events'[i - 1] = events[i])
    BY HandleIs DEF HandInv, Queue
  <2>3. 1 \in Queue /\ (\A i \in Queue : i \in Nat) /\ \A i \in Queue' : i \in Nat
    BY <2>1 DEF Queue
  <2> QED
    BY <2>1, <2>2, <2>3
<1>2. \A m \in inFlight : m.answer # "asked" => m.ahead \in Nat /\ m.ahead >= 1
  <2>1. InTurn(1)
    BY HandleIs DEF HandInv
  <2> QED
    BY <2>1 DEF InTurn, HandInv, Base, TypeOK, Messages
<1>3. /\ Me => /\ page'.status = e.status
               /\ page'.judge = IF e.status \in {"JUDGE", "JUDGING"} THEN "me" ELSE page.judge
      /\ ~Me => page'.status = page.status
      /\ ~Me /\ ~Judge /\ ~Is("LOBBY") => page'.judge = page.judge
      /\ Judge => page'.judge \in {"other", page.judge}
      /\ Is("PLAYING") => page'.canSelectCard
      /\ Selected(page) => Selected(page')
  BY <1>1, HandledControls DEF HandInv, Base, TypeOK
<1>4. ~Is("PLAYING") => page'.canSelectCard = page.canSelectCard
  BY <1>1, HandledHand DEF HandInv, Base, TypeOK
<1>5. /\ \A m \in inFlight : Older(m) \in inFlight'
      /\ \A n \in inFlight' :
                 \/ \E m \in inFlight : n = Older(m)
                 \/ n = Request("GET_GAME_INFO", None)
      /\ Is("PLAYING") => Request("GET_GAME_INFO", None) \in inFlight'
  BY HandleIs DEF HandInv
<1>6. \A m \in inFlight : /\ Older(m).card = m.card /\ Older(m).op = m.op
                          /\ Older(m).answer = m.answer /\ Older(m).data = m.data
                          /\ m.answer # "asked" => Older(m).ahead = m.ahead - 1
  BY <1>2, OlderKinds DEF HandInv
<1>7. /\ Request("GET_GAME_INFO", None).op = "GET_GAME_INFO"
      /\ Request("GET_GAME_INFO", None).answer = "asked"
  BY DEF Request
<1>8. e.type = "info" => e.status \in Statuses
  BY <1>1 DEF Events
<1> HIDE DEF e
<1>9. ASSUME NEW n \in Nat, n >= 1
      PROVE  /\ NewRound(n) => NewRound(n - 1)'
             /\ Notice(n) => Notice(n - 1)'
             /\ \A status : Right(status, n) => Right(status, n - 1)'
  <2>1. \A i \in Queue : i > n => i - 1 \in Queue' /\ events'[i - 1] = events[i] /\ i - 1 > n - 1
    BY <1>1, <1>9
  <2>2. NewRound(n) => NewRound(n - 1)'
    BY <2>1 DEF NewRound
  <2>3. Notice(n) => Notice(n - 1)'
    BY <2>1 DEF Notice, TellsMe
  <2> QED
    BY <1>1, <2>2, <2>3 DEF Right
<1>10. /\ NewRound(0) => NewRound(0)' \/ Is("PLAYING")
       /\ Notice(0) => Notice(0)' \/ Me
  <2>1. \A i \in Queue : i = 1 \/ (i - 1 \in Queue' /\ events'[i - 1] = events[i] /\ i - 1 > 0)
    <3>1. \A i \in Queue' : i > 0
      BY DEF Queue
    <3> QED
      BY <1>1, <3>1
  <2> QED
    BY <2>1 DEF NewRound, Notice, TellsMe, e
<1>11. Infos \subseteq inFlight /\ Plays \subseteq inFlight
  BY DEF Infos, Plays
<1>12. page'.status = None => Infos' # {}
  <2>1. page'.status = None => page.status = None
    BY <1>3, <1>8, ClientAssumption DEF Statuses
  <2>2. Infos # {} => Infos' # {}
    BY <1>5, <1>6 DEF Infos
  <2> QED
    BY <2>1, <2>2 DEF LockInv
<1>13. ASSUME Engaged'
       PROVE  TellsRight' /\ InfosRight' /\ StatusRight' /\ (~page'.canSelectCard => Unlocks')
  <2>1. Engaged /\ TellsRight /\ InfosRight /\ StatusRight /\ (~page.canSelectCard => Unlocks)
    BY <1>1, <1>13 DEF Engaged, LockInv
  <2>2. ~Is("LOBBY")
    <3>1. server.state # "LOBBY"
      BY <2>1 DEF Engaged, EngagedIn
    <3> QED
      BY <1>1, <3>1 DEF HandInv, NoticesOK, Coming, e
  <2>3. /\ Me => e.status = MyStatus(server) /\ e.status # "JUDGE"
        /\ Judge => server.judge = "other"
    BY <1>1, <2>1 DEF TellsRight, e
  <2>4. TellsRight'
    BY <1>1, <2>1 DEF TellsRight
  <2>5. InfosRight'
    <3> SUFFICES ASSUME NEW n \in Infos', n.answer # "asked"
                 PROVE  Right(MyStatus(n.data), n.ahead)' \/ NewRound(n.ahead)'
      BY DEF InfosRight
    <3>1. n \in inFlight' /\ n.op = "GET_GAME_INFO"
      BY DEF Infos
    <3>2. PICK m \in inFlight : n = Older(m)
      BY <1>5, <1>7, <3>1
    <3>3. m \in Infos /\ m.answer # "asked" /\ n.data = m.data /\ n.ahead = m.ahead - 1
          /\ m.ahead \in Nat /\ m.ahead >= 1
      BY <1>2, <1>6, <3>1, <3>2 DEF Infos
    <3>4. Right(MyStatus(m.data), m.ahead) \/ NewRound(m.ahead)
      BY <2>1, <3>3 DEF InfosRight
    <3>5. CASE Right(MyStatus(m.data), m.ahead)
      <4>1. Right(MyStatus(m.data), m.ahead - 1)'
        BY <1>9, <3>3, <3>5
      <4> QED
        BY <3>3, <4>1
    <3>6. CASE NewRound(m.ahead)
      BY <1>9, <3>3, <3>6
    <3> QED
      BY <3>4, <3>5, <3>6
  <2>6. StatusRight'
    <3>1. CASE Is("PLAYING")
      <4>1. Request("GET_GAME_INFO", None) \in Infos'
        BY <1>5, <1>7, <3>1 DEF Infos
      <4> QED
        BY <1>7, <4>1 DEF StatusRight
    <3>2. CASE NewRound(0) /\ ~Is("PLAYING")
      BY <1>10, <3>2 DEF StatusRight
    <3>3. ASSUME NEW m \in Infos, m.answer = "asked" \/ Right(MyStatus(m.data), m.ahead) PROVE StatusRight'
      <4>1. m \in inFlight /\ Older(m) \in Infos' /\ Older(m).answer = m.answer /\ Older(m).data = m.data
        BY <1>5, <1>6, <1>11, <3>3 DEF Infos
      <4>2. CASE m.answer = "asked"
        BY <4>1, <4>2 DEF StatusRight
      <4>3. CASE m.answer # "asked"
        <5>1. m.ahead \in Nat /\ m.ahead >= 1 /\ Older(m).ahead = m.ahead - 1
          BY <1>2, <1>6, <4>1, <4>3
        <5>2. Right(MyStatus(m.data), m.ahead - 1)'
          BY <1>9, <3>3, <4>3, <5>1
        <5> QED
          BY <4>1, <5>1, <5>2 DEF StatusRight
      <4> QED
        BY <4>2, <4>3
    <3>4. ASSUME Right(page.status, 0), page.judge = "me" <=> server.judge = "me" PROVE StatusRight'
      <4>1. CASE Me
        <5>1. page'.status = MyStatus(server') /\ MyStatus(server) # "JUDGE"
          BY <1>1, <1>3, <2>3, <4>1
        <5>2. page'.judge = "me" <=> server'.judge = "me"
          <6>1. server \in Servers
            BY DEF HandInv, Base, TypeOK
          <6>2. MyStatus(server) = "JUDGING" => server.judge = "me"
            BY <6>1, MyTurns
          <6> QED
            BY <1>1, <1>3, <2>3, <3>4, <4>1, <6>2
        <5> QED
          BY <5>1, <5>2 DEF StatusRight, Right
      <4>2. CASE ~Me
        <5>1. Right(page.status, 0)'
          BY <1>1, <1>3, <1>10, <3>4, <4>2 DEF Right
        <5>2. page'.judge = "me" <=> server'.judge = "me"
          BY <1>1, <1>3, <2>2, <2>3, <3>4, <4>2
        <5> QED
          BY <5>1, <5>2 DEF StatusRight
      <4> QED
        BY <4>1, <4>2
    <3> QED
      BY <2>1, <3>1, <3>2, <3>3, <3>4 DEF StatusRight
  <2>7. ASSUME ~page'.canSelectCard PROVE Unlocks'
    <3>1. ~Is("PLAYING") /\ ~page.canSelectCard /\ Unlocks
      BY <1>3, <1>4, <2>1, <2>7
    <3>2. CASE NewRound(0)
      BY <1>10, <3>1, <3>2 DEF Unlocks
    <3>3. ASSUME NEW m \in Plays, Fresh(m) \/ m.answer = "ok" PROVE Unlocks'
      <4>1. Older(m) \in Plays' /\ Older(m).answer = m.answer /\ Older(m).card = m.card
        BY <1>5, <1>6, <1>11 DEF Plays
      <4>2. Fresh(Older(m))' \/ Older(m).answer = "ok"
        BY <1>1, <3>3, <4>1 DEF Fresh
      <4> QED
        BY <4>1, <4>2 DEF Unlocks
    <3>4. ASSUME MyStatus(server) = "JUDGING",
                 NEW m \in inFlight, m.op = "JUDGE_SELECT", m.answer = "asked", m.card = "shown"
          PROVE  Unlocks'
      BY <1>1, <1>5, <1>6, <3>4 DEF Unlocks
    <3> QED
      BY <3>1, <3>2, <3>3, <3>4 DEF Unlocks
  <2> QED
    BY <2>4, <2>5, <2>6, <2>7
<1> QED
  BY <1>3, <1>12, <1>13 DEF LockInv

\* What the page knows of the round stays.
LEMMA LockKept ==
    ASSUME LockInv, UNCHANGED <<server, events>>, Infos' = Infos,
           page'.status = page.status, page'.judge = page.judge, Selected(page'),
           Engaged /\ ~page'.canSelectCard => Unlocks'
    PROVE  LockInv'
<1>1. /\ Queue' = Queue /\ \A n : (NewRound(n)' <=> NewRound(n))
      /\ \A status, n : Right(status, n)' <=> Right(status, n)
      /\ Engaged' <=> Engaged
  BY DEF Queue, NewRound, Notice, TellsMe, Right, Engaged
<1>2. TellsRight => TellsRight'
  BY <1>1 DEF TellsRight
<1>3. InfosRight => InfosRight'
  BY <1>1 DEF InfosRight
<1>4. StatusRight => StatusRight'
  BY <1>1 DEF StatusRight
<1> QED
  BY <1>1, <1>2, <1>3, <1>4 DEF LockInv

LEMMA UnlocksStays ==
    ASSUME Unlocks, UNCHANGED <<server, events>>,
           \A m \in inFlight : m.answer \in {"asked", "ok"} /\ m.op \in {"PLAY_CARD", "JUDGE_SELECT"} => m \in inFlight'
    PROVE  Unlocks'
<1>1. Queue' = Queue /\ (NewRound(0)' <=> NewRound(0)) /\ \A m : Fresh(m)' <=> Fresh(m)
  BY DEF Queue, NewRound, Fresh
<1>2. ASSUME NEW m \in Plays, Fresh(m) \/ m.answer = "ok" PROVE m \in Plays'
  BY <1>2 DEF Plays, Fresh
<1> QED
  BY <1>1, <1>2 DEF Unlocks

LEMMA LockLearned == ASSUME Base, LockInv, NEW op \in Ops, Learn(op) PROVE LockInv'
<1>1. PICK m \in inFlight :
              /\ m.op = op /\ m.answer # "asked" /\ inFlight' = inFlight \ {m}
              /\ UNCHANGED <<server, events, reloads>>
              /\ op = "GET_GAME_INFO" => page' = LearnInfo(page, m.data)
              /\ op = "GET_CARDS" => page' = LearnCards(page, m.data)
              /\ op = "PLAY_CARD" => page' = IF m.answer = "ok" THEN PlayComplete(page) ELSE page
              /\ op = "JUDGE_SELECT" => page' = page
  BY LearnIs
<1>2. page \in Pages /\ m.data \in Servers /\ server \in Servers /\ m.ahead \in Nat /\ Selected(page)
  BY DEF Base, TypeOK, Messages, LockInv
<1>3. /\ op # "GET_GAME_INFO" => Infos' = Infos
      /\ op = "GET_GAME_INFO" => m \in Infos /\ Infos' \subseteq Infos
  BY <1>1 DEF Infos
<1>4. op # "PLAY_CARD" \/ m.answer # "ok" => (Unlocks => Unlocks')
  <2> SUFFICES ASSUME op # "PLAY_CARD" \/ m.answer # "ok", Unlocks PROVE Unlocks'
    OBVIOUS
  <2>1. CASE op # "JUDGE_SELECT" \/ m.answer # "ok"
    <3>1. \A n \in inFlight : n.answer \in {"asked", "ok"} /\ n.op \in {"PLAY_CARD", "JUDGE_SELECT"} => n \in inFlight'
      BY <1>1, <2>1
    <3> QED
      BY <1>1, <3>1, UnlocksStays
  <2>2. CASE op = "JUDGE_SELECT"
    <3>1. /\ Queue' = Queue /\ (NewRound(0)' <=> NewRound(0)) /\ (\A n : Fresh(n)' <=> Fresh(n))
          /\ Plays' = Plays
      BY <1>1, <2>2 DEF Queue, NewRound, Fresh, Plays
    <3>2. \A n \in inFlight : n.answer = "asked" => n \in inFlight'
      BY <1>1
    <3> QED
      BY <1>1, <3>1, <3>2 DEF Unlocks
  <2> QED
    BY <2>1, <2>2
<1>5. CASE op = "GET_GAME_INFO"
  <2>1. page' = LearnInfo(page, m.data) /\ m \in Infos /\ Infos' \subseteq Infos
    BY <1>1, <1>3, <1>5
  <2>2. /\ page'.status = MyStatus(m.data) /\ page'.canSelectCard = page.canSelectCard /\ Selected(page')
        /\ MyStatus(m.data) = "PLAYING" => page'.judge = "other"
        /\ MyStatus(m.data) \in {"JUDGE", "JUDGING"} => page'.judge = "me"
    BY <1>2, <2>1, LearnedControls
  <2>3. page'.status # None
    BY <1>2, <2>2, StatusTypes, ClientAssumption DEF Statuses
  <2>4. /\ Queue' = Queue /\ \A n : (NewRound(n)' <=> NewRound(n))
        /\ \A status, n : Right(status, n)' <=> Right(status, n)
        /\ Engaged' <=> Engaged
    BY <1>1 DEF Queue, NewRound, Notice, TellsMe, Right, Engaged
  <2>5. ASSUME Engaged PROVE TellsRight' /\ InfosRight' /\ StatusRight' /\ (~page'.canSelectCard => Unlocks')
    <3>1. TellsRight /\ InfosRight /\ (~page.canSelectCard => Unlocks)
      BY <2>5 DEF LockInv
    <3>2. TellsRight' /\ InfosRight'
      BY <1>1, <2>1, <2>4, <3>1 DEF TellsRight, InfosRight
    <3>3. ~page'.canSelectCard => Unlocks'
      BY <1>4, <1>5, <2>2, <3>1
    <3>4. Right(MyStatus(m.data), m.ahead) \/ NewRound(m.ahead)
      BY <1>1, <2>1, <3>1 DEF InfosRight
    <3>5. CASE NewRound(m.ahead)
      <4>1. NewRound(0)
        BY <1>2, <3>5 DEF NewRound, Queue
      <4> QED
        BY <2>4, <3>2, <3>3, <4>1 DEF StatusRight
    <3>6. CASE Right(MyStatus(m.data), m.ahead)
      <4>1. Right(page.status, 0)'
        <5>1. Notice(m.ahead) => Notice(0)
          BY <1>2 DEF Notice, Queue
        <5>2. Notice(0)' <=> Notice(0)
          BY <1>1 DEF Notice, TellsMe, Queue
        <5> QED
          BY <1>1, <2>2, <3>6, <5>1, <5>2 DEF Right
      <4>2. MyStatus(server) \in {"PLAYING", "JUDGE", "JUDGING"}
        BY <1>2, <2>5, MyTurns DEF Engaged, EngagedIn
      <4>3. page'.judge = "me" <=> server'.judge = "me"
        <5>1. CASE MyStatus(server) = "PLAYING"
          BY <1>1, <1>2, <2>2, <3>6, <5>1, MyTurns DEF Right
        <5>2. CASE MyStatus(server) \in {"JUDGE", "JUDGING"}
          BY <1>1, <1>2, <2>2, <3>6, <5>2, MyTurns DEF Right
        <5> QED
          BY <4>2, <5>1, <5>2
      <4> QED
        BY <3>2, <3>3, <4>1, <4>3 DEF StatusRight
    <3> QED
      BY <3>4, <3>5, <3>6
  <2> QED
    BY <2>2, <2>3, <2>4, <2>5 DEF LockInv
<1>6. CASE op = "GET_CARDS"
  <2>1. page'.status = page.status /\ page'.judge = page.judge /\ page'.canSelectCard = page.canSelectCard
        /\ Selected(page')
    BY <1>1, <1>2, <1>6, LearnedControls
  <2> QED
    BY <1>1, <1>3, <1>4, <1>6, <2>1, LockKept DEF LockInv
<1>7. CASE op = "PLAY_CARD" /\ m.answer = "ok"
  <2>1. page'.status = page.status /\ page'.judge = page.judge /\ page'.canSelectCard /\ Selected(page')
    BY <1>1, <1>2, <1>7, LearnedControls
  <2> QED
    BY <1>1, <1>3, <1>7, <2>1, LockKept
<1>8. CASE op = "JUDGE_SELECT" \/ (op = "PLAY_CARD" /\ m.answer # "ok")
  <2>1. page' = page
    BY <1>1, <1>8
  <2> QED
    BY <1>1, <1>2, <1>3, <1>4, <1>8, <2>1, LockKept DEF LockInv
<1> QED
  BY <1>5, <1>6, <1>7, <1>8 DEF Ops

LEMMA LockClicked ==
    ASSUME Ordered, HandInv, LockInv, NEW c \in Cards, HandCardClick(c) PROVE LockInv'
<1> DEFINE card == IF page.handSelectedCard = c THEN None ELSE c
           on == ~(page.handSelectedCard = c)
<1>1. /\ page' = [page EXCEPT !.handSelectedCard = card, !.confirm = on]
      /\ UNCHANGED <<server, events, inFlight>> /\ RoundKnown
      /\ page.canSelectCard /\ page.status \in {None, "PLAYING"} /\ page.hand[c] > 0
  BY DEF HandCardClick
<1>2. card \in {None, c} /\ on \in BOOLEAN /\ (on => card = c)
  OBVIOUS
<1> HIDE DEF card, on
<1>3. /\ page'.handSelectedCard = card /\ page'.confirm = on /\ page'.hand = page.hand
      /\ page'.canSelectCard = page.canSelectCard /\ page'.status = page.status /\ page'.judge = page.judge
  BY <1>1 DEF HandInv, Base, TypeOK, Pages
<1>4. page.status = "PLAYING"
  BY <1>1, RoundIsKnown DEF LockInv, HandInv
<1>5. c # None
  BY ClientAssumption
<1>6. Selected(page')
  BY <1>1, <1>2, <1>3, <1>4, <1>5 DEF Selected
<1>7. Infos' = Infos
  BY <1>1 DEF Infos
<1> QED
  BY <1>1, <1>3, <1>6, <1>7, LockKept

LEMMA LockRoundClicked == ASSUME Ordered, HandInv, LockInv, RoundCardClick PROVE LockInv'
<1>1. /\ RoundKnown /\ page.status \in {None, "JUDGING"} /\ UNCHANGED <<server, events, inFlight>>
      /\ page' \in Pages /\ page'.hand = page.hand /\ page'.handSelectedCard = page.handSelectedCard
      /\ page'.canSelectCard = page.canSelectCard /\ page'.status = page.status
      /\ page'.judge = page.judge
      /\ page'.confirm => page'.roundSelectedCard # None
  BY RoundClickIs DEF HandInv, Base, TypeOK
<1>2. page.status = "JUDGING"
  BY <1>1, RoundIsKnown DEF LockInv, HandInv
<1>3. Selected(page')
  BY <1>1, <1>2 DEF Selected, LockInv
<1>4. Infos' = Infos /\ page.canSelectCard
  BY <1>1 DEF Infos, RoundCardClick
<1> QED
  BY <1>1, <1>3, <1>4, LockKept

\* What is confirmed can be done: the page knows whose turn it is, and has the card.
LEMMA LockConfirmed ==
    ASSUME Ordered, "staleConfirm" \notin Races, HandInv, LockInv, ConfirmClick PROVE LockInv'
<1>1. /\ Infos = {} /\ ~Coming("PLAYING") /\ page.confirm /\ UNCHANGED <<server, events>>
      /\ page' = [page EXCEPT !.canSelectCard = FALSE]
      /\ page.judge # "me" \/ page.roundSelectedCard # "gone"
  BY ConfirmIs, RoundIsKnown DEF HandInv
<1>2. page \in Pages /\ server \in Servers
  BY DEF HandInv, Base, TypeOK
<1>3. /\ page'.hand = page.hand /\ page'.handSelectedCard = page.handSelectedCard /\ page'.judge = page.judge
      /\ page'.status = page.status /\ page'.confirm = page.confirm
      /\ page'.roundSelectedCard = page.roundSelectedCard
  BY <1>1, <1>2 DEF Pages
<1>4. Selected(page')
  BY <1>3 DEF LockInv, Selected
<1>5. \/ /\ page.judge = "me" /\ page.roundSelectedCard # None
         /\ inFlight' = inFlight \cup {Request("JUDGE_SELECT", page.roundSelectedCard)}
      \/ /\ page.judge # "me" /\ page.handSelectedCard # None /\ page.handSelectedCard \in Cards
         /\ inFlight' = inFlight \cup {Request("PLAY_CARD", page.handSelectedCard)}
      \/ /\ page.judge = "me" => page.roundSelectedCard = None
         /\ page.judge # "me" => page.handSelectedCard = None
         /\ inFlight' = inFlight
  BY ConfirmIs DEF HandInv
<1>6. Infos' = Infos
  BY <1>5 DEF Infos, Request
<1>7. ASSUME Engaged PROVE Unlocks'
  <2>1. Right(page.status, 0) /\ (page.judge = "me" <=> server.judge = "me")
    <3>1. ~NewRound(0)
      BY <1>1 DEF NewRound, Coming
    <3> QED
      BY <1>1, <1>7, <3>1 DEF LockInv, StatusRight
  <2>2. \/ page.status = "PLAYING" /\ page.handSelectedCard # None
        \/ page.status = "JUDGING" /\ page.roundSelectedCard # None
    BY <1>1 DEF LockInv, Selected
  <2>3. page.status = MyStatus(server)
    BY <2>1, <2>2 DEF Right
  <2>4. CASE page.status = "JUDGING"
    <3>1. page.judge = "me"
      BY <1>2, <2>1, <2>3, <2>4, MyTurns
    <3>2. page.roundSelectedCard = "shown" /\ page.roundSelectedCard # None
      BY <1>1, <1>2, <2>2, <2>4, <3>1 DEF Pages
    <3>3. Request("JUDGE_SELECT", "shown") \in inFlight'
      BY <1>5, <3>1, <3>2
    <3>4. /\ Request("JUDGE_SELECT", "shown").op = "JUDGE_SELECT"
          /\ Request("JUDGE_SELECT", "shown").answer = "asked"
          /\ Request("JUDGE_SELECT", "shown").card = "shown"
      BY DEF Request
    <3> QED
      BY <1>1, <2>3, <2>4, <3>3, <3>4 DEF Unlocks
  <2>5. CASE page.status = "PLAYING"
    <3>0. PICK c, n : c = page.handSelectedCard /\ n = Request("PLAY_CARD", c)
      OBVIOUS
    <3>1. server.judge = "other" /\ page.judge # "me" /\ server.state = "PLAYING"
      BY <1>2, <2>1, <2>3, <2>5, MyTurns
    <3>2. c # None /\ c \in Cards /\ page.hand[c] > 0
      BY <1>2, <2>2, <2>5, <3>0 DEF Pages, LockInv, Selected
    <3>3. inFlight' = inFlight \cup {n}
      BY <1>5, <3>0, <3>1, <3>2
    <3>4. n.op = "PLAY_CARD" /\ n.answer = "asked" /\ n.card = c
      BY <3>0 DEF Request
    <3>5. Loads = {} /\ ~Coming("LOBBY")
      BY <3>1, <3>2 DEF HandInv, LoadsOK, NoticesOK
    <3>6. page.hand[c] + In(c, Loaded) + In(c, OnTheWay) = In(c, server.hand) + In(c, Laid)
      BY <3>2, <3>5 DEF HandInv, HandBalance
    <3>7. page.hand[c] \in Int /\ MyStatus(server) = "PLAYING"
      BY <1>2, <2>3, <2>5, <3>2 DEF Pages
    <3>8. c \in server.hand \/ c \in Laid
      BY <3>2, <3>6, <3>7 DEF In
    <3>9. CASE c \in server.hand
      <4>1. n \in Plays'
        BY <3>3, <3>4 DEF Plays
      <4>2. MyStatus(server') = "PLAYING" /\ c \in server'.hand
        BY <1>1, <3>7, <3>9
      <4>3. Fresh(n)'
        BY <3>4, <4>2 DEF Fresh
      <4> QED
        BY <4>1, <4>3 DEF Unlocks
    <3>10. CASE c \in Laid
      <4>1. PICK m \in Plays : m.answer = "ok"
        BY <3>10 DEF Laid
      <4>2. m \in Plays'
        BY <3>3 DEF Plays
      <4> QED
        BY <4>1, <4>2 DEF Unlocks
    <3> QED
      BY <3>8, <3>9, <3>10
  <2> QED
    BY <2>2, <2>4, <2>5
<1> QED
  BY <1>1, <1>3, <1>4, <1>6, <1>7, LockKept

LEMMA LockStarts == ASSUME HandInv, LockInv, StartRound PROVE LockInv'
<1>1. TypeOK /\ server.hand \cap server.played = {}
  BY DEF HandInv, Base, Unplayed
<1>2. events = <<>> /\ UNCHANGED <<inFlight, page>>
  BY <1>1, RoundStarts
<1>3. PICK k \in Nat : /\ Len(events') = k + 1 /\ DealsAre(events', k, server'.hand \ server.hand)
                       /\ events'[k + 1].type = "state" /\ events'[k + 1].state = "PLAYING"
  BY <1>1, RoundStarts
<1>4. k + 1 \in Queue' /\ k + 1 > 0
  BY <1>3 DEF Queue
<1>5. \A i \in Queue' : events'[i].type # "info"
  BY <1>3 DEF Queue, DealsAre
<1>6. NewRound(0)'
  BY <1>3, <1>4 DEF NewRound
<1>7. Infos' = Infos /\ \A m \in Infos : m.answer # "asked" => m.ahead = 0
  BY <1>2 DEF Infos, HandInv, Base, TypeOK, MessagesOK, Messages
<1>8. InfosRight'
  <2> SUFFICES ASSUME NEW m \in Infos, m.answer # "asked" PROVE NewRound(m.ahead)'
    BY <1>7 DEF InfosRight
  <2> QED
    BY <1>6, <1>7
<1>9. TellsRight'
  BY <1>5 DEF TellsRight
<1> QED
  BY <1>2, <1>6, <1>7, <1>8, <1>9 DEF LockInv, StatusRight, Unlocks

LEMMA NewPageSelects == Selected(NewGame)
BY DEF Selected, NewGame

LEMMA LockInit == ASSUME Init PROVE LockInv
<1> DEFINE n == Request("GET_GAME_INFO", None)
<1>1. n \in Infos
  BY DEF Init, Infos, Request
<1>2. ~Engaged
  BY DEF Init, Engaged, EngagedIn, InLobby
<1>3. Selected(page)
  BY NewPageSelects DEF Init
<1> QED
  BY <1>1, <1>2, <1>3 DEF LockInv

LEMMA LockReload == ASSUME LockInv, Reload PROVE LockInv'
<1> DEFINE n == Request("GET_GAME_INFO", None)
<1>1. /\ page' = NewGame /\ UNCHANGED <<server, events>>
      /\ inFlight' = {n, Request("GET_CARDS", None)}
  BY DEF Reload
<1>2. Infos' = {n} /\ n.answer = "asked"
  BY <1>1 DEF Infos, Request
<1> HIDE DEF n
<1>3. Selected(page') /\ page'.canSelectCard
  BY <1>1, NewPageSelects DEF NewGame
<1>4. /\ Queue' = Queue /\ (Engaged' <=> Engaged)
  BY <1>1 DEF Queue, Engaged
<1>5. TellsRight => TellsRight'
  BY <1>1, <1>4 DEF TellsRight
<1>6. InfosRight' /\ StatusRight'
  BY <1>2 DEF InfosRight, StatusRight
<1> QED
  BY <1>2, <1>3, <1>4, <1>5, <1>6 DEF LockInv

LEMMA LockStep == ASSUME Races = {}, HandInv, LockInv, [Next]_vars PROVE LockInv'
<1>1. Base /\ Base' /\ TypeOK /\ server.hand \cap server.played = {}
  BY BaseStep DEF HandInv, Base, Unplayed
<1>2. Ordered /\ "staleConfirm" \notin Races /\ "overtaken" \notin Races
  BY DEF Ordered
<1>3. CASE StartRound
  BY <1>3, LockStarts
<1>4. CASE SkipMe
  <2>1. /\ UNCHANGED <<inFlight, page>> /\ server'.state = "JUDGING" /\ server'.judge = "other"
    BY <1>1, <1>4, SkippedMe
  <2>2. ~Engaged' /\ Infos' = Infos
    BY <2>1 DEF Engaged, EngagedIn, Infos
  <2> QED
    BY <2>1, <2>2 DEF LockInv
<1>5. ASSUME GoesOn, UNCHANGED <<inFlight, page>>,
             server'.hand = server.hand \/ server'.state \in {"LOBBY", "ROUND_OVER"}
      PROVE  LockInv'
  <2>1. Plays' = Plays /\ Infos' = Infos
    BY <1>5 DEF Plays, Infos
  <2> QED
    BY <1>1, <1>5, <2>1, LockGoesOn
<1>6. CASE OthersPlay
  BY <1>1, <1>5, <1>6, OthersPlayGoesOn DEF OthersPlay
<1>7. CASE OtherJudges
  <2>1. RoundOver /\ server.state = "JUDGING" /\ UNCHANGED <<inFlight, page>>
    BY <1>7 DEF OtherJudges
  <2> QED
    BY <1>1, <1>5, <2>1, RoundOverGoesOn
<1>8. CASE ResetState
  <2>1. UNCHANGED <<inFlight, page>> /\ InLobby.state = "LOBBY"
    BY <1>8 DEF ResetState, InLobby
  <2> QED
    BY <1>1, <1>5, <1>8, <2>1, ResetStateGoesOn
<1>9. CASE HandleEvent
  BY <1>2, <1>9, LockHandled
<1>10. ASSUME NEW op \in Ops, Serve(op) \/ Learn(op) PROVE LockInv'
  BY <1>1, <1>10, LockServed, LockLearned
<1>11. ASSUME NEW c \in Cards, HandCardClick(c) PROVE LockInv'
  BY <1>2, <1>11, LockClicked
<1>12. CASE RoundCardClick
  BY <1>2, <1>12, LockRoundClicked
<1>13. CASE ConfirmClick
  BY <1>2, <1>13, LockConfirmed
<1>14. CASE Reload
  BY <1>14, LockReload
<1>15. CASE UNCHANGED vars
  <2>1. UNCHANGED <<server, events, page>> /\ Infos' = Infos /\ inFlight' = inFlight
    BY <1>15 DEF vars, Infos
  <2>2. Unlocks => Unlocks'
    BY <2>1, UnlocksStays
  <2> QED
    BY <2>1, <2>2, LockKept DEF LockInv
<1> QED
  BY <1>3, <1>4, <1>6, <1>7, <1>8, <1>9, <1>10, <1>11, <1>12, <1>13, <1>14, <1>15 DEF Next

LEMMA LockInvActs == ASSUME HandInv, LockInv PROVE NotLockedOut
<1> SUFFICES ASSUME Quiet, Waits PROVE CanAct
  BY DEF NotLockedOut
<1>1. Infos = {} /\ Plays = {} /\ inFlight = {} /\ Queue = {}
  BY DEF Quiet, Infos, Plays, Queue
<1>2. server \in Servers
  BY DEF HandInv, Base, TypeOK
<1>3. Engaged
  BY <1>2, MyTurns DEF Waits, Engaged, EngagedIn
<1>4. ~NewRound(0) /\ \A n : ~Notice(n)
  BY <1>1 DEF NewRound, Notice
<1>5. page.canSelectCard
  BY <1>1, <1>3, <1>4 DEF LockInv, Unlocks
<1>6. page.status = MyStatus(server) /\ (page.judge = "me" <=> server.judge = "me")
  BY <1>1, <1>3, <1>4 DEF LockInv, StatusRight, Right
<1>7. server.judge = "me" <=> MyStatus(server) = "JUDGING"
  BY <1>2, MyTurns DEF Waits
<1> QED
  BY <1>5, <1>6, <1>7 DEF CanAct

\* When nothing is under way and the game waits for the player, the page lets the player
\* act (enableCardControls_, refreshGameStatus, updateUserStatus): a click, a skip, a reset
\* or a reload never leaves the controls disabled, the role wrong or a card selected that
\* is not in the hand, when requests, answers and events come in the order the page is
\* written for.
THEOREM NotLockedOutInOrder == Races = {} => (Spec => []NotLockedOut)
<1> SUFFICES ASSUME Races = {} PROVE Spec => []NotLockedOut
  OBVIOUS
<1>1. Init => HandInv /\ LockInv
  BY HandInit, LockInit
<1>2. HandInv /\ LockInv /\ [Next]_vars => (HandInv /\ LockInv)'
  BY HandStep, LockStep DEF Ordered
<1>3. HandInv /\ LockInv => NotLockedOut
  BY LockInvActs
<1> QED
  BY <1>1, <1>2, <1>3, PTL DEF Spec
=============================================================================
