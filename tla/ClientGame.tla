----------------------------- MODULE ClientGame -----------------------------
(***************************************************************************)
(* A page in a game: the cah.Game object of one player ("me"), the game as *)
(* far as it concerns that player, the queue of long-poll events from the  *)
(* one to the other, and the requests and answers, which have a way of     *)
(* their own.  The other players are the "judge" when it is not me, and    *)
(* the "player" that stands for all others that play.                      *)
(***************************************************************************)
EXTENDS Naturals, Sequences, FiniteSets

CONSTANTS
    Cards,      \* white cards that this player can be dealt
    HandSize,   \* cards in a hand
    Picks,      \* cards that the black cards ask for
    Draws,      \* cards that the black cards deal on top to those who play
    None,       \* nothing
    MaxEvents,  \* bound: events under way when the game goes on
    MaxConfirms,\* bound: selections under way at a time
    MaxReloads, \* bound: times that the page is loaded again
    Races       \* the orders to allow that the code has no answer to:
                \*   "overtaken"       the page learns what came of a request before it has the answer
                \*   "hasty"           the user plays before the page knows of the round
                \*   "staleConfirm"    the judge confirms what was selected in an earlier round
                \*   "dealAroundLoad"  cards are dealt while the page loads

ASSUME ClientAssumption ==
    /\ HandSize \in Nat /\ Picks \subseteq 1..HandSize /\ Draws \subseteq Nat
    /\ MaxEvents \in Nat /\ MaxConfirms \in Nat /\ MaxReloads \in Nat
    /\ None \notin Cards \cup {"me", "other", "shown", "gone", "IDLE", "JUDGE", "JUDGING", "PLAYING"}
    /\ Races \subseteq {"overtaken", "hasty", "staleConfirm", "dealAroundLoad"}

VARIABLES
    server,     \* the game, as far as it concerns me
    events,     \* long-poll events to the page, oldest first
    inFlight,   \* requests and answers under way
    page,       \* the cah.Game object
    reloads     \* times that the page was loaded again

vars == <<server, events, inFlight, page, reloads>>

-----------------------------------------------------------------------------
(* The game. *)

InLobby ==
    [state |-> "LOBBY", judge |-> "other", hand |-> {}, played |-> {}, pick |-> 1,
     othersDone |-> FALSE]

\* getPlayerStatus of me and of the others
MyStatus(s) ==
    CASE s.state = "PLAYING" /\ s.judge = "me" -> "JUDGE"
      [] s.state = "PLAYING" /\ s.judge # "me" ->
            IF Cardinality(s.played) = s.pick THEN "IDLE" ELSE "PLAYING"
      [] s.state = "JUDGING" /\ s.judge = "me" -> "JUDGING"
      [] s.state = "ROUND_OVER" /\ s.judge = "me" -> "JUDGE"
      [] OTHER -> "IDLE"

PlayerStatus(s) == IF s.state = "PLAYING" /\ ~s.othersDone THEN "PLAYING" ELSE "IDLE"

JudgeStatus(s) ==
    CASE s.state = "LOBBY" \/ s.judge = "me" -> "IDLE"
      [] s.state = "JUDGING" /\ s.judge # "me" -> "JUDGING"
      [] OTHER -> "JUDGE"

\* getWhiteCards: what lies on the table for me, face up or down
Table(s) ==
    CASE s.state = "PLAYING" ->
            (IF s.played # {} THEN {"mine"} ELSE {}) \cup (IF s.othersDone THEN {"faceDown"} ELSE {})
      [] s.state = "JUDGING" -> (IF s.played # {} THEN {"mine"} ELSE {}) \cup {"theirs"}
      [] OTHER -> {}

Deal(cards) == IF cards = {} THEN <<>> ELSE <<[type |-> "deal", cards |-> cards]>>

StateChange(s) == <<[type |-> "state", state |-> s.state, table |-> Table(s)]>>

Info(who, status) == <<[type |-> "info", who |-> who, status |-> status]>>

JudgeInfo(s) == IF s.judge = "me" THEN Info("me", MyStatus(s)) ELSE Info("judge", JudgeStatus(s))

\* The game goes on when judging can start; told is what players are told before.
Advance(s, told) ==
    LET ready == s.othersDone /\ (s.judge = "me" \/ Cardinality(s.played) = s.pick)
        judging == [s EXCEPT !.state = "JUDGING"]
    IN  IF ready
          THEN server' = judging /\ events' = events \o told \o StateChange(judging) \o JudgeInfo(judging)
          ELSE server' = s /\ events' = events \o told

Unserved(op) == \E m \in inFlight : m.op = op /\ m.answer = "asked"

Room == Len(events) <= MaxEvents

\* Nothing is dealt while the page waits for its hand.
Dealing == "dealAroundLoad" \in Races \/ ~Unserved("GET_CARDS")

\* What a timer does comes seconds after the last thing that happened in the game:
\* players have been told of that.  It may race with a request for the same turn.
Settled == events = <<>>

\* startNextRound and dealState: the game starts, the intermission is over, or
\* the judge is skipped, which returns the cards.
StartRound ==
    /\ Settled /\ Dealing /\ ~Unserved("PLAY_CARD")
    /\ server.state # "PLAYING"
    /\ Unserved("JUDGE_SELECT") => server.state = "JUDGING"
    /\ LET returned == IF server.state = "JUDGING" THEN server.played ELSE {}
           kept == server.hand \cup returned
           full == IF Cardinality(kept) > HandSize THEN Cardinality(kept) ELSE HandSize
       IN  \E j \in {"me", "other"}, p \in Picks, d \in Draws, new \in SUBSET (Cards \ kept) :
              /\ Cardinality(kept \cup new) = full + (IF j = "me" THEN 0 ELSE d)
              /\ server' = [state |-> "PLAYING", judge |-> j, hand |-> kept \cup new,
                            played |-> {}, pick |-> p, othersDone |-> FALSE]
              /\ events' = events \o Deal(returned) \o Deal(new) \o StateChange(server')
    /\ UNCHANGED <<inFlight, page, reloads>>

OthersPlay ==
    /\ Room /\ server.state = "PLAYING" /\ ~server.othersDone
    /\ Advance([server EXCEPT !.othersDone = TRUE], Info("player", "IDLE"))
    /\ UNCHANGED <<inFlight, page, reloads>>

\* skipIdlePlayers: what was played is returned, and judging starts.
SkipMe ==
    /\ Settled /\ Dealing /\ MyStatus(server) = "PLAYING" /\ server.othersDone
    /\ server' = [server EXCEPT !.state = "JUDGING", !.hand = @ \cup server.played, !.played = {}]
    /\ events' = events \o Deal(server.played) \o StateChange(server') \o JudgeInfo(server')
                        \o Info("me", MyStatus(server'))
    /\ UNCHANGED <<inFlight, page, reloads>>

\* judgeCard: the round is over.
RoundOver ==
    /\ server' = [server EXCEPT !.state = "ROUND_OVER"]
    /\ \E winner \in {"me", "player"} :
          /\ winner = "me" => server.played # {}
          /\ events' = events \o <<[type |-> "complete"]>> \o JudgeInfo(server') \o Info(winner, "IDLE")

OtherJudges ==
    /\ Room /\ server.state = "JUDGING" /\ server.judge # "me"
    /\ RoundOver
    /\ UNCHANGED <<inFlight, page, reloads>>

\* resetState, when somebody has won or too few are left.
ResetState ==
    /\ Room /\ server.state # "LOBBY"
    /\ server' = InLobby
    /\ \E told \in {<<>>, Info("me", "IDLE")} :
          /\ server.judge = "me" => told # <<>>
          /\ events' = events \o StateChange(InLobby) \o told
    /\ UNCHANGED <<inFlight, page, reloads>>

-----------------------------------------------------------------------------
(* Requests.  An answer knows how many events were under way before it: it   *)
(* may overtake those; later events, and answers served after later events,  *)
(* wait for it, unless "overtaken".                                          *)

Request(op, card) ==
    [op |-> op, card |-> card, answer |-> "asked", data |-> InLobby, ahead |-> 0]

Answer(m, answer) ==
    inFlight' = (inFlight \ {m}) \cup
        {[m EXCEPT !.answer = answer, !.data = server, !.ahead = Len(events)]}

\* playCard
ServePlay(m) ==
    /\ m.op = "PLAY_CARD"
    /\ LET mayPlay == MyStatus(server) = "PLAYING" /\ m.card \in server.hand
           s == [server EXCEPT !.hand = @ \ {m.card}, !.played = @ \cup {m.card}]
       IN  IF mayPlay
             THEN Answer(m, "ok") /\ Advance(s, Info("me", MyStatus(s)))
             ELSE Answer(m, "error") /\ UNCHANGED <<server, events>>

\* judgeCard
ServeJudge(m) ==
    /\ m.op = "JUDGE_SELECT"
    /\ IF MyStatus(server) = "JUDGING" /\ m.card = "shown"
         THEN Answer(m, "ok") /\ RoundOver
         ELSE Answer(m, "error") /\ UNCHANGED <<server, events>>

ServeRead(m) ==
    /\ m.op \in {"GET_GAME_INFO", "GET_CARDS"}
    /\ Answer(m, "ok") /\ UNCHANGED <<server, events>>

Serve(op) ==
    /\ Room
    /\ \E m \in inFlight :
          /\ m.op = op /\ m.answer = "asked"
          /\ ServePlay(m) \/ ServeJudge(m) \/ ServeRead(m)
    /\ UNCHANGED <<page, reloads>>

-----------------------------------------------------------------------------
(* The page. *)

NewGame ==
    [state |-> "LOBBY", judge |-> None, hand |-> [c \in Cards |-> 0], handSelectedCard |-> None,
     roundSelectedCard |-> None, canSelectCard |-> TRUE, confirm |-> FALSE,
     status |-> None, playerStatus |-> None, table |-> {}]

Init ==
    /\ server = InLobby /\ events = <<>> /\ reloads = 0
    /\ page = NewGame
    /\ inFlight = {Request("GET_GAME_INFO", None), Request("GET_CARDS", None)}

Dealt(p, cards) == [p EXCEPT !.hand = [c \in Cards |-> @[c] + (IF c \in cards THEN 1 ELSE 0)]]

\* The cards on the table are removed: what was selected there is not there any more.
Cleared(p) ==
    [p EXCEPT !.table = {}, !.roundSelectedCard = IF @ = None THEN None ELSE "gone"]

\* updateUserStatus, for me
UpdateMe(p, status) ==
    [p EXCEPT !.status = status,
              !.confirm = \/ status = "PLAYING" /\ p.handSelectedCard # None
                          \/ status = "JUDGING" /\ p.roundSelectedCard # None,
              !.handSelectedCard = IF status = "PLAYING" THEN @ ELSE None,
              !.judge = IF status \in {"JUDGE", "JUDGING"} THEN "me" ELSE @]

\* updateUserStatus, for another judge
UpdateJudge(p, status) == [p EXCEPT !.judge = IF status \in {"JUDGE", "JUDGING"} THEN "other" ELSE @]

\* updateUserStatus, for another player
UpdatePlayer(p, status) ==
    LET played == p.playerStatus = "PLAYING" /\ status = "IDLE" /\ p.state = "PLAYING"
    IN  [p EXCEPT !.playerStatus = status, !.table = IF played THEN @ \cup {"faceDown"} ELSE @]

\* mutant of ToState: judging leaves the cards of the round before on the table
ToStateKeepsTable(p, e) ==
    CASE e.state = "LOBBY" ->
            [Cleared(p) EXCEPT !.state = "LOBBY", !.judge = None, !.hand = [c \in Cards |-> 0],
                               !.handSelectedCard = None, !.confirm = FALSE]
      [] e.state = "PLAYING" -> [Cleared(p) EXCEPT !.state = "PLAYING", !.canSelectCard = TRUE]
      [] e.state = "JUDGING" -> [p EXCEPT !.state = "JUDGING", !.table = @ \cup e.table]

\* mutant of ToState: a new round does not enable the controls
ToStateStaysLocked(p, e) ==
    CASE e.state = "LOBBY" ->
            [Cleared(p) EXCEPT !.state = "LOBBY", !.judge = None, !.hand = [c \in Cards |-> 0],
                               !.handSelectedCard = None, !.confirm = FALSE]
      [] e.state = "PLAYING" -> [Cleared(p) EXCEPT !.state = "PLAYING"]
      [] e.state = "JUDGING" -> [Cleared(p) EXCEPT !.state = "JUDGING", !.table = e.table]

\* stateChange
ToState(p, e) ==
    CASE e.state = "LOBBY" ->
            [Cleared(p) EXCEPT !.state = "LOBBY", !.judge = None, !.hand = [c \in Cards |-> 0],
                               !.handSelectedCard = None, !.confirm = FALSE]
      [] e.state = "PLAYING" -> [Cleared(p) EXCEPT !.state = "PLAYING", !.canSelectCard = TRUE]
      [] e.state = "JUDGING" -> [Cleared(p) EXCEPT !.state = "JUDGING", !.table = e.table]

Handled(p, e) ==
    CASE e.type = "deal" -> Dealt(p, e.cards)
      [] e.type = "state" -> ToState(p, e)
      [] e.type = "complete" -> [p EXCEPT !.confirm = FALSE]
      [] e.type = "info" /\ e.who = "me" -> UpdateMe(p, e.status)
      [] e.type = "info" /\ e.who = "judge" -> UpdateJudge(p, e.status)
      [] e.type = "info" /\ e.who = "player" -> UpdatePlayer(p, e.status)

\* mutant of Asked: nothing is asked for when a round starts
AskedNothing(e) == {}

\* stateChange asks for the status of all players when a round starts.
Asked(e) ==
    IF e.type = "state" /\ e.state = "PLAYING" THEN {Request("GET_GAME_INFO", None)} ELSE {}

\* No answer is awaited that is older than what is the n-th to come.
InTurn(n) == "overtaken" \in Races \/ \A m \in inFlight : m.answer = "asked" \/ m.ahead >= n

HandleEvent ==
    /\ events # <<>>
    /\ InTurn(1)
    /\ page' = Handled(page, Head(events))
    /\ events' = Tail(events)
    /\ inFlight' = {[m EXCEPT !.ahead = IF @ > 0 THEN @ - 1 ELSE 0] : m \in inFlight}
                        \cup Asked(Head(events))
    /\ UNCHANGED <<server, reloads>>

\* updateGameStatus
LearnInfo(p, s) == UpdateMe(UpdateJudge(UpdatePlayer(p, PlayerStatus(s)), JudgeStatus(s)), MyStatus(s))

\* dealtCards and setRoundWhiteCards
LearnCards(p, s) == [Dealt(p, s.hand) EXCEPT !.table = @ \cup Table(s)]

\* mutant of PlayComplete: the selected card stays in the hand
PlayCompleteKeeps(p) ==
    IF p.handSelectedCard = None
      THEN [p EXCEPT !.confirm = FALSE, !.canSelectCard = TRUE]
      ELSE [p EXCEPT !.table = @ \cup {"mine"},
                     !.handSelectedCard = None, !.confirm = FALSE, !.canSelectCard = TRUE]

\* playCardComplete
PlayComplete(p) ==
    IF p.handSelectedCard = None
      THEN [p EXCEPT !.confirm = FALSE, !.canSelectCard = TRUE]
      ELSE [p EXCEPT !.hand[p.handSelectedCard] = @ - 1, !.table = @ \cup {"mine"},
                     !.handSelectedCard = None, !.confirm = FALSE, !.canSelectCard = TRUE]

\* The handler for an error of PLAY_CARD fails before it gets to playCardError:
\* it reads a variable that is not there.
PlayError(p) == p

Learn(op) ==
    /\ \E m \in inFlight :
          /\ m.op = op /\ m.answer # "asked" /\ InTurn(m.ahead)
          /\ page' = CASE m.op = "GET_GAME_INFO" -> LearnInfo(page, m.data)
                       [] m.op = "GET_CARDS" -> LearnCards(page, m.data)
                       [] m.op = "PLAY_CARD" /\ m.answer = "ok" -> PlayComplete(page)
                       [] m.op = "PLAY_CARD" /\ m.answer = "error" -> PlayError(page)
                       [] m.op = "JUDGE_SELECT" -> page
          /\ inFlight' = inFlight \ {m}
    /\ UNCHANGED <<server, events, reloads>>

-----------------------------------------------------------------------------
(* The user. *)

\* The user plays when the page knows of the round: it takes longer to choose than
\* for the event that starts the round, and the status asked for then, to come.
RoundKnown ==
    \/ "hasty" \in Races
    \/ /\ \A i \in DOMAIN events : events[i].type = "state" => events[i].state # "PLAYING"
       /\ \A m \in inFlight : m.op # "GET_GAME_INFO"

\* handCardClick_: selected, or not any more.
HandCardClick(c) ==
    /\ RoundKnown
    /\ page.canSelectCard /\ page.judge # "me" /\ page.status \in {None, "PLAYING"} /\ page.hand[c] > 0
    /\ LET again == page.handSelectedCard = c
       IN  page' = [page EXCEPT !.handSelectedCard = IF again THEN None ELSE c, !.confirm = ~again]
    /\ UNCHANGED <<server, events, inFlight, reloads>>

\* roundCardClick_: the same card again or another one.
RoundCardClick ==
    /\ RoundKnown
    /\ page.canSelectCard /\ page.status \in {None, "JUDGING"} /\ page.table # {}
    /\ \E again \in BOOLEAN :
          /\ again => page.roundSelectedCard = "shown"
          /\ page' = [page EXCEPT !.roundSelectedCard = IF again THEN None ELSE "shown",
                                  !.confirm = ~again]
    /\ UNCHANGED <<server, events, inFlight, reloads>>

\* confirmClick_.  The button stays enabled: it can be clicked twice.
ConfirmClick ==
    /\ RoundKnown /\ page.confirm
    /\ Cardinality({m \in inFlight : m.op \in {"PLAY_CARD", "JUDGE_SELECT"}}) < MaxConfirms
    /\ "staleConfirm" \in Races \/ page.judge # "me" \/ page.roundSelectedCard # "gone"
    /\ LET request ==
              CASE page.judge = "me" /\ page.roundSelectedCard # None ->
                      {Request("JUDGE_SELECT", page.roundSelectedCard)}
                [] page.judge # "me" /\ page.handSelectedCard # None ->
                      {Request("PLAY_CARD", page.handSelectedCard)}
                [] OTHER -> {}
       IN  inFlight' = inFlight \cup request
    /\ page' = [page EXCEPT !.canSelectCard = FALSE]
    /\ UNCHANGED <<server, events, reloads>>

\* The page is loaded again, when its selections have been served.
Reload ==
    /\ reloads < MaxReloads /\ reloads' = reloads + 1
    /\ ~Unserved("PLAY_CARD") /\ ~Unserved("JUDGE_SELECT")
    /\ "dealAroundLoad" \in Races \/ events = <<>>
    /\ page' = NewGame
    /\ inFlight' = {Request("GET_GAME_INFO", None), Request("GET_CARDS", None)}
    /\ UNCHANGED <<server, events>>

Ops == {"GET_GAME_INFO", "GET_CARDS", "PLAY_CARD", "JUDGE_SELECT"}

Next ==
    \/ StartRound \/ OthersPlay \/ SkipMe \/ OtherJudges \/ ResetState
    \/ HandleEvent
    \/ \E op \in Ops : Serve(op) \/ Learn(op)
    \/ \E c \in Cards : HandCardClick(c)
    \/ RoundCardClick \/ ConfirmClick \/ Reload

Spec == Init /\ [][Next]_vars

\* The connection works: events and answers arrive, requests are served.
Fairness == WF_vars(HandleEvent) /\ \A op \in Ops : WF_vars(Serve(op)) /\ WF_vars(Learn(op))

FairSpec == Spec /\ Fairness

-----------------------------------------------------------------------------
Quiet == events = <<>> /\ inFlight = {}

\* When nothing is under way, the page shows the hand that the server has for the
\* player, each card once: after playing, being skipped, cards given back, a
\* skipped judge, resets and reloads.
HandsAgree == Quiet => \A c \in Cards : page.hand[c] = IF c \in server.hand THEN 1 ELSE 0

Waits == MyStatus(server) \in {"PLAYING", "JUDGING"}

CanAct ==
    /\ page.canSelectCard /\ page.status = MyStatus(server)
    /\ page.judge = "me" <=> page.status = "JUDGING"

\* When nothing is under way and the game waits for the player, the page lets the
\* player select a card (canSelectCard_, judge_ and the status all agree), whatever
\* went wrong before (enableCardControls_, "Enable playing cards, etc.").
NotLockedOut == Quiet /\ Waits => CanAct

\* When nothing is under way, what lies on the table of a page is what the server
\* has there for the player (setRoundWhiteCards, addRoundWhiteCard_).
TableShown == Quiet /\ server.state = "JUDGING" => page.table = Table(server)

\* Whenever the game waits for the player, the page comes to let the player act, or
\* the game stops waiting (refreshGameStatus, playCardComplete).
LetsAct == Waits ~> (CanAct \/ ~Waits)
=============================================================================
