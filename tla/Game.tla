-------------------------------- MODULE Game --------------------------------
(***************************************************************************)
(* One game of the server: data/Game.java with the classes it owns         *)
(* (Player, PlayerPlayedCardsTracker, its round timer).                    *)
(*                                                                         *)
(* The state of a Game object is the record  game  and every method of the *)
(* source that changes it is an operator from records to records with the  *)
(* method's name; a request handler or a step of a timer task is one       *)
(* action.  The threads of the shared ScheduledThreadPoolExecutor that run *)
(* this game's timer tasks are the  Workers: Future.cancel(false) does not *)
(* stop a task a worker has already taken.                                 *)
(*                                                                         *)
(* Cards are abstracted to what the state machine reads of them: whether a *)
(* player was dealt a hand this game, how many cards a player has played,  *)
(* and how many the black card asks for.  Who is host is left to the module *)
(* Membership: nothing here depends on it, since an admin may do whatever  *)
(* the host may.                                                           *)
(***************************************************************************)
EXTENDS Integers, Sequences, FiniteSets

CONSTANTS
    Users,           \* the connected users that may enter this game
    NoUser,          \* Java's null, for the judge
    PlayerLimit,     \* options.playerLimit
    SpectatorLimit,  \* options.spectatorLimit
    ScoreGoal,       \* options.scoreGoal
    MaxSkips,        \* MAX_SKIPS_BEFORE_KICK
    Picks,           \* the pick values of the black cards in the deck
    Workers,         \* threads of the timer pool
    Adversities      \* which of the orders and inputs below may happen

(***************************************************************************)
(* The orders and inputs a quiet evening does not show.  A run names the   *)
(* ones it admits:                                                         *)
(*   overlap      requests are served while a timer task that has already  *)
(*                been taken by a worker has not finished                  *)
(*   earlySkip    the host skips the judge when nobody waits for the judge *)
(*   binderPick   the judge picks the second card of a player that left    *)
(*   skippedPlay  a player the host has skipped plays nevertheless         *)
(*   spectatorPicks  a spectator picks while there is no judge             *)
(***************************************************************************)
Adverse == {"overlap", "earlySkip", "binderPick", "skippedPlay", "spectatorPicks"}

ASSUME UsersAssumption == NoUser \notin Users /\ IsFiniteSet(Users)
ASSUME LimitsAssumption ==
    /\ PlayerLimit \in Nat /\ PlayerLimit >= 3
    /\ SpectatorLimit \in Nat
    /\ ScoreGoal \in Nat /\ ScoreGoal >= 1
    /\ MaxSkips \in Nat /\ MaxSkips >= 1
ASSUME PicksAssumption == Picks \subseteq Nat \ {0} /\ Picks # {}
ASSUME WorkersAssumption == Workers # {}
ASSUME AdversitiesAssumption == Adversities \subseteq Adverse

VARIABLES
    game,     \* the fields of the Game object
    worker    \* what each timer thread is doing for this game

vars == <<game, worker>>

MinPlayers == 3

States == {"LOBBY", "PLAYING", "JUDGING", "ROUND_OVER"}
Tasks == {"warnPlay", "skipPlay", "warnJudge", "skipJudge", "nextRound", "win"}

-----------------------------------------------------------------------------
(* The record.  played, score and skips are 0 for users that are not       *)
(* players: a Player object lives from addPlayer to removePlayer.          *)

Games == [ state      : States,
           players    : Seq(Users),           \* in order of joining
           spectators : SUBSET Users,
           round      : SUBSET Users,         \* roundPlayers
           judgeIndex : Int,                  \* 0-based; -1 after a judge at 0 left
           played     : [Users -> Nat],       \* length of the list in playerCardMap
           orphans    : SUBSET Users,         \* reverseIdMap entries left behind
           table      : SUBSET Users,         \* card sets the judge's client shows
           dealt      : SUBSET Users,         \* players holding a hand
           score      : [Users -> 0..ScoreGoal],
           skips      : [Users -> 0..MaxSkips],
           pick       : Picks \cup {0},       \* blackCard, 0 for null
           decks      : BOOLEAN,              \* whiteDeck and blackDeck are loaded
           timer      : Tasks \cup {"none"} ] \* lastScheduledFuture

NewGame == [ state |-> "LOBBY", players |-> <<>>, spectators |-> {},
             round |-> {}, judgeIndex |-> 0,
             played |-> [u \in Users |-> 0], orphans |-> {}, table |-> {},
             dealt |-> {}, score |-> [u \in Users |-> 0],
             skips |-> [u \in Users |-> 0], pick |-> 0, decks |-> FALSE,
             timer |-> "none" ]

Activities == [ pc     : Tasks \cup {"idle", "kick"},
                remove : SUBSET Users,   \* playersToRemove not yet removed
                any    : BOOLEAN ]       \* playersToRemove was not empty

Idle == [pc |-> "idle", remove |-> {}, any |-> FALSE]

Saturated(n, bound) == IF n < bound THEN n ELSE bound

-----------------------------------------------------------------------------
(* Reading the record.                                                     *)

Members(g) == {g.players[i] : i \in 1..Len(g.players)}
\* mutant of InGame: only spectators are refused a second seat
InGameForgetsPlayers(g, u) == u \in g.spectators

InGame(g, u) == u \in Members(g) \/ u \in g.spectators

\* List.indexOf, 1-based
Position(g, u) == CHOOSE i \in 1..Len(g.players) : g.players[i] = u

\* List.remove(Object) on a list that holds each player once
Without(g, u) ==
    LET k == Position(g, u)
    IN  [i \in 1..(Len(g.players) - 1) |->
            IF i < k THEN g.players[i] ELSE g.players[i + 1]]

JudgeOf(g) == IF g.judgeIndex \in 0..(Len(g.players) - 1)
              THEN g.players[g.judgeIndex + 1] ELSE NoUser

HavePlayed(g) == {u \in Users : g.played[u] > 0}

\* mutant of StartJudging: the state is not looked at
StartJudgingInAnyState(g) ==
    /\ Cardinality(HavePlayed(g)) = Cardinality(g.round)
    /\ \A u \in HavePlayed(g) : g.played[u] = g.pick

\* mutant of StartJudging: the number of cards is not looked at
StartJudgingOnFirstCards(g) ==
    /\ g.state = "PLAYING"
    /\ Cardinality(HavePlayed(g)) = Cardinality(g.round)

\* mutant of StartJudging: off by one player
StartJudgingOneShort(g) ==
    /\ g.state = "PLAYING"
    /\ Cardinality(HavePlayed(g)) + 1 >= Cardinality(g.round)
    /\ \A u \in HavePlayed(g) : g.played[u] = g.pick

StartJudging(g) ==
    /\ g.state = "PLAYING"
    /\ Cardinality(HavePlayed(g)) = Cardinality(g.round)
    /\ \A u \in HavePlayed(g) : g.played[u] = g.pick

-----------------------------------------------------------------------------
(* Private methods.                                                        *)

KillRoundTimer(g) == [g EXCEPT !.timer = "none"]

\* PlayerPlayedCardsTracker.remove: of the reverse entries only the one of
\* the first card goes.
Untrack(g, u) ==
    [g EXCEPT !.played[u] = 0,
              !.orphans = IF g.played[u] > 1 THEN @ \cup {u} ELSE @]

ClearPlayed(g) == [g EXCEPT !.played = [u \in Users |-> 0], !.orphans = {}]

ReturnCardsToHand(g) == [ClearPlayed(g) EXCEPT !.table = {}]

JudgingState(g) ==
    [g EXCEPT !.state = "JUDGING", !.table = HavePlayed(g), !.timer = "warnJudge"]

\* mutant of ResetState: the scores of the finished game stay
ResetStateKeepsScores(g) ==
    [NewGame EXCEPT !.players = g.players, !.spectators = g.spectators,
                    !.skips = g.skips, !.score = g.score]

\* Only who is there and how often each was skipped outlives a game.
ResetState(g) ==
    [NewGame EXCEPT !.players = g.players, !.spectators = g.spectators,
                    !.skips = g.skips]

PlayingState(g, pick) ==
    [ClearPlayed(g) EXCEPT
        !.state = "PLAYING", !.table = {}, !.pick = pick, !.timer = "warnPlay"]

DealState(g, pick) == PlayingState([g EXCEPT !.dealt = Members(g)], pick)

NextJudgeIndex(g) ==
    IF g.judgeIndex + 1 >= Len(g.players) THEN 0 ELSE g.judgeIndex + 1

StartNextRound(g, pick) ==
    IF ~g.decks THEN KillRoundTimer(g)
    ELSE LET h == [g EXCEPT !.judgeIndex = NextJudgeIndex(g)]
         IN  DealState([h EXCEPT !.round = Members(h) \ {JudgeOf(h)}], pick)

\* mutant of SkipIdleJudge: returns early when the judge is gone
SkipIdleJudgeIfThere(g, pick) ==
    IF g.state # "JUDGING" \/ JudgeOf(g) = NoUser THEN KillRoundTimer(g)
    ELSE StartNextRound(ReturnCardsToHand(g), pick)

SkipIdleJudge(g, pick) ==
    IF g.state # "JUDGING" THEN KillRoundTimer(g)
    ELSE LET j == JudgeOf(g)
             h == IF j = NoUser THEN g
                  ELSE [g EXCEPT !.skips[j] = Saturated(@ + 1, MaxSkips)]
         IN  StartNextRound(ReturnCardsToHand(h), pick)

-----------------------------------------------------------------------------
(* removePlayer.                                                           *)

\* mutant of DiscardPlayedCardsAndHand: the cards on the table stay there
DiscardHandOnly(g, u) == [g EXCEPT !.dealt = @ \ {u}]

DiscardPlayedCardsAndHand(g, u) == [Untrack(g, u) EXCEPT !.dealt = @ \ {u}]

LeaveRound(g, u) ==
    LET h == [g EXCEPT !.round = @ \ {u}]
    IN  IF u \in g.round /\ StartJudging(h) THEN JudgingState(h) ELSE h

JudgeLeaves(g, u) == JudgeOf(g) = u /\ g.state \in {"PLAYING", "JUDGING"}

\* mutant of HandleJudgeOnRemoval: the index is not corrected
HandleJudgeIgnoresOthers(g, u) ==
    IF JudgeLeaves(g, u)
    THEN [ReturnCardsToHand(g) EXCEPT !.judgeIndex = @ - 1]
    ELSE g

HandleJudgeOnRemoval(g, u) ==
    IF JudgeLeaves(g, u)
    THEN [ReturnCardsToHand(g) EXCEPT !.judgeIndex = @ - 1]
    ELSE IF Position(g, u) - 1 < g.judgeIndex
         THEN [g EXCEPT !.judgeIndex = @ - 1]
         ELSE g

\* players.remove and user.leaveGame: the Player object is gone
TakeFromList(g, u) ==
    [g EXCEPT !.players = Without(g, u), !.score[u] = 0, !.skips[u] = 0]

HandlePlayerCountAfterRemoval(g, wasJudge) ==
    LET h == IF g.players = <<>> THEN [g EXCEPT !.spectators = {}] ELSE g
    IN  IF Len(h.players) < MinPlayers /\ h.state # "LOBBY" THEN ResetState(h)
        ELSE IF wasJudge THEN [h EXCEPT !.timer = "nextRound"]
        ELSE h

RemovePlayer(g, u) ==
    IF u \notin Members(g) THEN g
    ELSE LET h == LeaveRound(DiscardPlayedCardsAndHand(g, u), u)
         IN  HandlePlayerCountAfterRemoval(
                 TakeFromList(HandleJudgeOnRemoval(h, u), u), JudgeLeaves(h, u))

-----------------------------------------------------------------------------
(* skipIdlePlayers.                                                        *)

\* Players of the round that still owe cards.
IdlePlayers(g) == {u \in g.round : g.played[u] < g.pick}

\* playedCards.size() when the scan of roundPlayers reaches u
PlayedWhenReached(g, u) ==
    HavePlayed(g) \ {v \in IdlePlayers(g) : Position(g, v) < Position(g, u)}

PlayersToRemove(g) ==
    {u \in IdlePlayers(g) :
        \/ g.skips[u] + 1 >= MaxSkips
        \/ Cardinality(PlayedWhenReached(g, u)) < 2}

SkipIdlePlayers(g) ==
    LET idle == IdlePlayers(g)
    IN  [KillRoundTimer(g) EXCEPT
            !.skips = [u \in Users |-> IF u \in idle
                                       THEN Saturated(g.skips[u] + 1, MaxSkips)
                                       ELSE g.skips[u]],
            !.played = [u \in Users |-> IF u \in idle THEN 0 ELSE g.played[u]],
            !.orphans = @ \cup {u \in idle : g.played[u] > 1}]

ResetOrJudgeAfterIdleSkip(g, any) ==
    IF g.state # "PLAYING" /\ any THEN g
    ELSE IF Len(g.players) < MinPlayers \/ Cardinality(HavePlayed(g)) < 2
         THEN ResetState(g)
         ELSE JudgingState(g)

-----------------------------------------------------------------------------
(* skipPlayer, on the host's or an admin's request.                        *)

SkipPlayer(g, u, pick) ==
    IF u \notin Members(g) THEN g
    ELSE IF u = JudgeOf(g) THEN SkipIdleJudge(g, pick)
    ELSE IF g.state # "PLAYING" \/ g.played[u] >= g.pick \/ u \notin g.round THEN g
    ELSE LET h == [Untrack(g, u) EXCEPT !.round = @ \ {u}]
         IN  IF StartJudging(h) THEN JudgingState(h)
             ELSE IF Cardinality(h.round) < 2
                  THEN StartNextRound(ReturnCardsToHand(h), pick)
                  ELSE h

-----------------------------------------------------------------------------
(* playCard and judgeCard.                                                 *)

MayPlay(g, u) ==
    /\ JudgeOf(g) # u
    /\ g.state = "PLAYING"
    /\ g.played[u] < g.pick
    /\ u \in g.dealt

\* Any attempt of a player, even a refused one, resets the skip count first.
PlayCard(g, u) ==
    LET h == [g EXCEPT !.skips[u] = 0]
    IN  IF ~MayPlay(h, u) THEN h
        ELSE LET k == [h EXCEPT !.played[u] = @ + 1]
             IN  IF StartJudging(k) THEN JudgingState(k) ELSE k

\* getPlayerForUser: null for a spectator
PlayerFor(g, u) == IF u \in Members(g) THEN u ELSE NoUser

MayJudge(g, j) == JudgeOf(g) = PlayerFor(g, j) /\ g.state = "JUDGING"

\* mutant of AfterRound: one point too many is asked for
AfterRoundPastGoal(g, winner) ==
    IF g.score[winner] > ScoreGoal THEN "win" ELSE "nextRound"

\* mutant of AfterRound: the winning round is left to itself
AfterRoundOnlyGoesOn(g, winner) ==
    IF g.score[winner] >= ScoreGoal THEN "none" ELSE "nextRound"

AfterRound(g, winner) ==
    IF g.score[winner] >= ScoreGoal THEN "win" ELSE "nextRound"

\* The judge picks a card of the set that u played.  When u has left and the
\* reverse entry is still there, the round is already over when the lookup of
\* u's cards throws: nothing is scheduled.
JudgeCard(g, j, u) ==
    IF ~MayJudge(g, j) THEN g
    ELSE LET h == IF j \in Members(g) THEN [g EXCEPT !.skips[j] = 0] ELSE g
             won == [h EXCEPT !.score[u] = IF u \in g.dealt
                                           THEN Saturated(@ + 1, ScoreGoal) ELSE @,
                              !.state = "ROUND_OVER", !.table = {}]
         IN  IF g.played[u] > 0 THEN [won EXCEPT !.timer = AfterRound(won, u)]
             ELSE IF u \in g.orphans THEN won
             ELSE h

-----------------------------------------------------------------------------
(* Requests.  Without "overlap" they are served only while no timer task   *)
(* is in progress.                                                         *)

Quiet == \A w \in Workers : worker[w].pc = "idle"
Served == game.players # <<>> /\ (Quiet \/ "overlap" \in Adversities)

\* GameManager.createGameWithPlayer: a new Game object with its first player
CreateGame(u) ==
    /\ game.players = <<>> /\ game.timer = "none" /\ Quiet
    /\ game' = [NewGame EXCEPT !.players = <<u>>]
    /\ UNCHANGED worker

AddPlayer(u) ==
    /\ Served /\ ~InGame(game, u)
    /\ Len(game.players) < PlayerLimit
    /\ game' = [game EXCEPT !.players = Append(@, u)]
    /\ UNCHANGED worker

AddSpectator(u) ==
    /\ Served /\ ~InGame(game, u)
    /\ Cardinality(game.spectators) < SpectatorLimit
    /\ game' = [game EXCEPT !.spectators = @ \cup {u}]
    /\ UNCHANGED worker

\* LeaveGameHandler, and User.noLongerValid on a disconnect
LeaveGame(u) ==
    /\ Served /\ InGame(game, u)
    /\ game' = [RemovePlayer(game, u) EXCEPT !.spectators = @ \ {u}]
    /\ UNCHANGED worker

\* ThreadLocalRandom.nextInt picks the seat the first judge follows.
Start(seat, pick) ==
    /\ Served /\ game.state = "LOBBY" /\ Len(game.players) >= MinPlayers
    /\ seat < Len(game.players)
    /\ game' = StartNextRound([game EXCEPT !.judgeIndex = seat, !.decks = TRUE], pick)
    /\ UNCHANGED worker

Stop ==
    /\ Served /\ game.state # "LOBBY"
    /\ game' = ResetState(game)
    /\ UNCHANGED worker

Play(u) ==
    /\ Served /\ u \in Members(game)
    /\ MayPlay(game, u) /\ u \notin game.round => "skippedPlay" \in Adversities
    /\ game' = PlayCard(game, u)
    /\ UNCHANGED worker

Judge(j, u) ==
    /\ Served /\ InGame(game, j)
    /\ u \in game.table
    /\ game.played[u] = 0 /\ u \in game.orphans => "binderPick" \in Adversities
    /\ j \notin Members(game) => "spectatorPicks" \in Adversities
    /\ game' = JudgeCard(game, j, u)
    /\ UNCHANGED worker

Skip(u, pick) ==
    /\ Served /\ u \in Members(game)
    /\ u = JudgeOf(game) /\ game.state # "JUDGING" => "earlySkip" \in Adversities
    /\ game' = SkipPlayer(game, u, pick)
    /\ UNCHANGED worker

-----------------------------------------------------------------------------
(* Timer threads.                                                          *)

\* The delay of the pending task is over and a thread of the pool takes it.
TakeTask(w) ==
    /\ game.timer # "none" /\ worker[w].pc = "idle"
    /\ Quiet \/ "overlap" \in Adversities
    /\ worker' = [worker EXCEPT ![w].pc = game.timer]
    /\ game' = KillRoundTimer(game)

WarnPlayersToPlay(w) ==
    /\ worker[w].pc = "warnPlay"
    /\ game' = [game EXCEPT !.timer = "skipPlay"]
    /\ worker' = [worker EXCEPT ![w] = Idle]

WarnJudgeToJudge(w) ==
    /\ worker[w].pc = "warnJudge"
    /\ game' = [game EXCEPT !.timer = "skipJudge"]
    /\ worker' = [worker EXCEPT ![w] = Idle]

SkipJudgeTask(w, pick) ==
    /\ worker[w].pc = "skipJudge"
    /\ game' = SkipIdleJudge(game, pick)
    /\ worker' = [worker EXCEPT ![w] = Idle]

NextRoundTask(w, pick) ==
    /\ worker[w].pc = "nextRound"
    /\ game' = StartNextRound(game, pick)
    /\ worker' = [worker EXCEPT ![w] = Idle]

WinTask(w) ==
    /\ worker[w].pc = "win"
    /\ game' = ResetState(game)
    /\ worker' = [worker EXCEPT ![w] = Idle]

\* skipIdlePlayers holds roundPlayers for the scan only; the removals and the
\* decision at the end each take their own locks.
ScanIdle(w) ==
    /\ worker[w].pc = "skipPlay"
    /\ game' = SkipIdlePlayers(game)
    /\ worker' = [worker EXCEPT ![w] =
           [pc |-> "kick", remove |-> PlayersToRemove(game),
            any |-> PlayersToRemove(game) # {}]]

\* kickRemovedIdlePlayers, in the order of the scan
KickIdle(w, u) ==
    /\ worker[w].pc = "kick" /\ u \in worker[w].remove
    /\ u \in Members(game) =>
          \A v \in worker[w].remove \cap Members(game) :
             Position(game, u) <= Position(game, v)
    /\ game' = RemovePlayer(game, u)
    /\ worker' = [worker EXCEPT ![w].remove = @ \ {u}]

AfterIdleSkip(w) ==
    /\ worker[w].pc = "kick" /\ worker[w].remove = {}
    /\ game' = ResetOrJudgeAfterIdleSkip(game, worker[w].any)
    /\ worker' = [worker EXCEPT ![w] = Idle]

-----------------------------------------------------------------------------

Init ==
    /\ game = NewGame
    /\ worker = [w \in Workers |-> Idle]

Request ==
    \/ \E u \in Users : CreateGame(u)
    \/ \E u \in Users : AddPlayer(u)
    \/ \E u \in Users : AddSpectator(u)
    \/ \E u \in Users : LeaveGame(u)
    \/ \E seat \in 0..(PlayerLimit - 1), pick \in Picks : Start(seat, pick)
    \/ Stop
    \/ \E u \in Users : Play(u)
    \/ \E j, u \in Users : Judge(j, u)
    \/ \E u \in Users, pick \in Picks : Skip(u, pick)

TimerStep(w) ==
    \/ TakeTask(w)
    \/ WarnPlayersToPlay(w)
    \/ WarnJudgeToJudge(w)
    \/ \E pick \in Picks : SkipJudgeTask(w, pick)
    \/ \E pick \in Picks : NextRoundTask(w, pick)
    \/ WinTask(w)
    \/ ScanIdle(w)
    \/ \E u \in Users : KickIdle(w, u)
    \/ AfterIdleSkip(w)

Next == Request \/ \E w \in Workers : TimerStep(w)

Spec == Init /\ [][Next]_vars

\* The pool runs every task that is due, and a running task goes on.
FairSpec == Spec /\ \A w \in Workers : WF_vars(TimerStep(w))

-----------------------------------------------------------------------------
(* What the game promises whatever happens.                                *)

\* The fields keep their types; a non-player has no score, plays or skips.
TypeOK ==
    /\ game \in Games
    /\ worker \in [Workers -> Activities]
    /\ \A i, j \in 1..Len(game.players) :
          game.players[i] = game.players[j] => i = j

\* A game in the lobby holds nothing of the game before it, and a game that
\* has left it has its decks, a black card and at least three players
\* (resetState, start and handlePlayerCountAfterRemoval together).
LobbyClean ==
    IF game.state = "LOBBY"
    THEN /\ ~game.decks /\ game.pick = 0 /\ game.judgeIndex = 0
         /\ game.round = {} /\ game.orphans = {} /\ game.dealt = {}
         /\ \A u \in Users : game.played[u] = 0 /\ game.score[u] = 0
    ELSE game.decks /\ game.pick # 0 /\ Len(game.players) >= MinPlayers

\* Whoever takes part in the round, holds a hand or has cards on the table is
\* a player of the game: no trace of a player outlives removePlayer.
NoGhosts ==
    /\ game.round \subseteq Members(game)
    /\ game.dealt \subseteq Members(game)
    /\ HavePlayed(game) \subseteq game.dealt
    /\ game.spectators \cap Members(game) = {}

-----------------------------------------------------------------------------
(* What it promises when no adversity is admitted.                         *)

\* The timer task that may be pending in each state.
Pending(state) ==
    CASE state = "LOBBY"      -> {"none"}
      [] state = "PLAYING"    -> {"warnPlay", "skipPlay", "nextRound"}
      [] state = "JUDGING"    -> {"warnJudge", "skipJudge", "nextRound"}
      [] state = "ROUND_OVER" -> {"nextRound", "win"}

\* A game that waits always has a timer that moves it on, and one made for
\* the state it waits in (every rescheduleTimer and killRoundTimer).
TimerMatches == Quiet => game.timer \in Pending(game.state)

\* A player that reaches the score goal ends the game: no further round is
\* played or judged (judgeCard's choice of task, winState).
GoalEndsGame ==
    game.state \in {"PLAYING", "JUDGING"} => \A u \in Users : game.score[u] < ScoreGoal

\* Only players of the round have cards on the table, and while they are
\* judged each set has exactly as many cards as the black card asks for.  The
\* judge has none there, also after the turn has passed on because the judge left.
PlaysInRound ==
    /\ HavePlayed(game) \subseteq game.round
    /\ game.state \in {"PLAYING", "JUDGING"} => JudgeOf(game) \notin HavePlayed(game)
    /\ game.state = "JUDGING" =>
          \A u \in HavePlayed(game) : game.played[u] = game.pick

\* A request that moves the game to judging leaves nobody of the round out,
\* unless the round is being given up because its judge left.
AwaitsEveryone ==
    [][Quiet /\ game.state = "PLAYING" /\ game'.state = "JUDGING"
       => game'.round \subseteq HavePlayed(game') \/ game'.timer = "nextRound"]_vars

\* A round is decided once, and by its judge: when it is over the next one or the
\* lobby follows, never a second judging of the same cards, and where it is decided
\* there is a judge, since spectators do "not actually play. Not even as Czar"
\* (game.jsp) and a judge that is null there "shouldn't ever happen" (judgeCard).
JudgedOnce ==
    [][/\ game.state = "ROUND_OVER" => game'.state # "JUDGING"
       /\ game.state = "JUDGING" /\ game'.state = "ROUND_OVER" => JudgeOf(game) # NoUser]_vars

NextJudge(g) == g.players[NextJudgeIndex(g) + 1]

\* u leaves, the game goes on, and it is not u's turn to judge next
PassedOver(u) ==
    /\ u \in Members(game) /\ u \notin Members(game') /\ u # NextJudge(game)
    /\ game'.state # "LOBBY"

\* When a player leaves, the player whose turn it is to judge next stays the
\* same (handleJudgeOnPlayerRemoval's corrections of judgeIndex).  Not claimed
\* for a judge that leaves once the round is over.
TurnKept ==
    [][\A u \in Users : PassedOver(u) /\ ~(game.state = "ROUND_OVER" /\ u = JudgeOf(game))
                          => NextJudge(game') = NextJudge(game)]_vars

\* An intermission ends and so does judging, whoever is idle (the timers).
RoundOverEnds == []<>(game.state # "ROUND_OVER")
JudgingEnds == []<>(game.state # "JUDGING")
=============================================================================
