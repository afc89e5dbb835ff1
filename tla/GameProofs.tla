----------------------------- MODULE GameProofs -----------------------------
(***************************************************************************)
(* Proofs about the module Game, for any number of users, limits, black    *)
(* cards and timer threads, and whatever adversities are admitted.         *)
(*                                                                         *)
(* A method of the source may leave the record of a game in a state no     *)
(* request sees, to be repaired before it returns: a departed player is    *)
(* taken out of five fields, one after the other.  Loose is what holds of  *)
(* the record also between those steps, Sound is what holds at their end.  *)
(***************************************************************************)
EXTENDS Game, TLAPS, FiniteSetTheorems

Distinct(g) ==
    \A i, j \in 1..Len(g.players) : g.players[i] = g.players[j] => i = j

Ghostless(g) ==
    /\ g.round \subseteq Members(g)
    /\ g.dealt \subseteq Members(g)
    /\ \A u \in Users : g.played[u] > 0 => u \in g.dealt
    /\ g.spectators \cap Members(g) = {}

Clean(g) ==
    IF g.state = "LOBBY"
    THEN /\ ~g.decks /\ g.pick = 0 /\ g.judgeIndex = 0
         /\ g.round = {} /\ g.orphans = {} /\ g.dealt = {}
         /\ \A u \in Users : g.played[u] = 0 /\ g.score[u] = 0
    ELSE g.decks /\ g.pick # 0

Loose(g) == g \in Games /\ Distinct(g) /\ Ghostless(g) /\ Clean(g)

Enough(g) == g.state # "LOBBY" => Len(g.players) >= MinPlayers

Sound(g) == Loose(g) /\ Enough(g)

Seated(g) == g \in Games /\ Distinct(g) /\ g.spectators \cap Members(g) = {}

Inv == Sound(game) /\ worker \in [Workers -> Activities]

-----------------------------------------------------------------------------
(* What each transform does to the fields the invariant reads.             *)

LEMMA MembersType ==
    ASSUME NEW g \in Games PROVE Members(g) \subseteq Users
  BY DEF Members, Games

LEMMA NewGameType == NewGame \in Games
  BY LimitsAssumption DEF NewGame, Games, States

LEMMA TimerFacts ==
    ASSUME NEW g \in Games, NEW t \in Tasks \cup {"none"}
    PROVE  LET h == [g EXCEPT !.timer = t]
           IN  /\ h \in Games
               /\ h.state = g.state /\ h.players = g.players
               /\ h.spectators = g.spectators /\ h.round = g.round
               /\ h.dealt = g.dealt /\ h.played = g.played
               /\ h.orphans = g.orphans /\ h.score = g.score
               /\ h.judgeIndex = g.judgeIndex /\ h.pick = g.pick
               /\ h.decks = g.decks /\ h.skips = g.skips
  BY DEF Games

LEMMA UntrackFacts ==
    ASSUME NEW g \in Games, NEW u \in Users
    PROVE  LET h == Untrack(g, u)
           IN  /\ h \in Games
               /\ h.state = g.state /\ h.players = g.players
               /\ h.spectators = g.spectators /\ h.round = g.round
               /\ h.dealt = g.dealt /\ h.played = [g.played EXCEPT ![u] = 0]
               /\ h.orphans = (IF g.played[u] > 1 THEN g.orphans \cup {u} ELSE g.orphans)
               /\ h.score = g.score /\ h.judgeIndex = g.judgeIndex
               /\ h.pick = g.pick /\ h.decks = g.decks /\ h.skips = g.skips
  BY DEF Games, Untrack

LEMMA ClearPlayedFacts ==
    ASSUME NEW g \in Games
    PROVE  LET h == ClearPlayed(g)
           IN  /\ h \in Games
               /\ h.state = g.state /\ h.players = g.players
               /\ h.spectators = g.spectators /\ h.round = g.round
               /\ h.dealt = g.dealt /\ h.played = [u \in Users |-> 0]
               /\ h.orphans = {} /\ h.score = g.score
               /\ h.judgeIndex = g.judgeIndex /\ h.pick = g.pick
               /\ h.decks = g.decks /\ h.skips = g.skips
  BY DEF Games, ClearPlayed

LEMMA ReturnFacts ==
    ASSUME NEW g \in Games
    PROVE  LET h == ReturnCardsToHand(g)
           IN  /\ h \in Games
               /\ h.state = g.state /\ h.players = g.players
               /\ h.spectators = g.spectators /\ h.round = g.round
               /\ h.dealt = g.dealt /\ h.played = [u \in Users |-> 0]
               /\ h.orphans = {} /\ h.score = g.score
               /\ h.judgeIndex = g.judgeIndex /\ h.pick = g.pick
               /\ h.decks = g.decks /\ h.skips = g.skips
  <1> DEFINE c == ClearPlayed(g)
  <1>1. /\ c \in Games
        /\ c.state = g.state /\ c.players = g.players
        /\ c.spectators = g.spectators /\ c.round = g.round
        /\ c.dealt = g.dealt /\ c.played = [u \in Users |-> 0]
        /\ c.orphans = {} /\ c.score = g.score
        /\ c.judgeIndex = g.judgeIndex /\ c.pick = g.pick
        /\ c.decks = g.decks /\ c.skips = g.skips
    BY ClearPlayedFacts
  <1>2. ReturnCardsToHand(g) = [c EXCEPT !.table = {}]
    BY DEF ReturnCardsToHand
  <1> HIDE DEF c
  <1> QED
    BY <1>1, <1>2 DEF Games

LEMMA JudgingFacts ==
    ASSUME NEW g \in Games
    PROVE  LET h == JudgingState(g)
           IN  /\ h \in Games
               /\ h.state = "JUDGING" /\ h.players = g.players
               /\ h.spectators = g.spectators /\ h.round = g.round
               /\ h.dealt = g.dealt /\ h.played = g.played
               /\ h.orphans = g.orphans /\ h.score = g.score
               /\ h.judgeIndex = g.judgeIndex /\ h.pick = g.pick
               /\ h.decks = g.decks /\ h.skips = g.skips
  BY DEF Games, JudgingState, HavePlayed, States, Tasks

LEMMA ResetFacts ==
    ASSUME NEW g \in Games
    PROVE  LET h == ResetState(g)
           IN  /\ h \in Games
               /\ h.state = "LOBBY" /\ h.players = g.players
               /\ h.spectators = g.spectators /\ h.round = {}
               /\ h.dealt = {} /\ h.played = [u \in Users |-> 0]
               /\ h.orphans = {} /\ h.score = [u \in Users |-> 0]
               /\ h.judgeIndex = 0 /\ h.pick = 0 /\ h.decks = FALSE
  BY NewGameType DEF Games, ResetState, NewGame

LEMMA PlayingFacts ==
    ASSUME NEW g \in Games, NEW pick \in Picks
    PROVE  LET h == PlayingState(g, pick)
           IN  /\ h \in Games
               /\ h.state = "PLAYING" /\ h.players = g.players
               /\ h.spectators = g.spectators /\ h.round = g.round
               /\ h.dealt = g.dealt /\ h.played = [u \in Users |-> 0]
               /\ h.pick = pick /\ h.decks = g.decks
  <1> DEFINE c == ClearPlayed(g)
  <1>1. /\ c \in Games
        /\ c.players = g.players /\ c.spectators = g.spectators
        /\ c.round = g.round /\ c.dealt = g.dealt
        /\ c.played = [u \in Users |-> 0] /\ c.decks = g.decks
    BY ClearPlayedFacts
  <1>2. PlayingState(g, pick) = [c EXCEPT !.state = "PLAYING", !.table = {},
                                          !.pick = pick, !.timer = "warnPlay"]
    BY DEF PlayingState
  <1> HIDE DEF c
  <1>3. [c EXCEPT !.state = "PLAYING", !.table = {},
                  !.pick = pick, !.timer = "warnPlay"] \in Games
    BY <1>1 DEF Games, States, Tasks
  <1> QED
    BY <1>1, <1>2, <1>3 DEF Games

LEMMA DealFacts ==
    ASSUME NEW g \in Games, NEW pick \in Picks
    PROVE  LET h == DealState(g, pick)
           IN  /\ h \in Games
               /\ h.state = "PLAYING" /\ h.players = g.players
               /\ h.spectators = g.spectators /\ h.round = g.round
               /\ h.dealt = Members(g) /\ h.played = [u \in Users |-> 0]
               /\ h.pick = pick /\ h.decks = g.decks
  <1> DEFINE k == [g EXCEPT !.dealt = Members(g)]
  <1>1. k \in Games
    BY MembersType DEF Games
  <1>2. /\ k.players = g.players /\ k.spectators = g.spectators
        /\ k.round = g.round /\ k.dealt = Members(g) /\ k.decks = g.decks
    BY DEF Games
  <1>3. DealState(g, pick) = PlayingState(k, pick)
    BY DEF DealState
  <1> HIDE DEF k
  <1> QED
    BY <1>1, <1>2, <1>3, PlayingFacts

-----------------------------------------------------------------------------
(* The transforms keep the record loose or sound.                          *)

\* A new Game object is sound.
LEMMA NewGameSound == Sound(NewGame)
  BY NewGameType
     DEF Sound, Loose, Enough, Distinct, Ghostless, Clean, NewGame, Members

\* Scheduling or killing the timer changes nothing the invariant reads.
LEMMA TimerSound ==
    ASSUME NEW g, Loose(g), NEW t \in Tasks \cup {"none"}
    PROVE  /\ Loose([g EXCEPT !.timer = t])
           /\ Enough(g) => Sound([g EXCEPT !.timer = t])
  <1> DEFINE h == [g EXCEPT !.timer = t]
  <1>1. g \in Games
    BY DEF Loose
  <1>2. /\ h \in Games
        /\ h.state = g.state /\ h.players = g.players
        /\ h.spectators = g.spectators /\ h.round = g.round
        /\ h.dealt = g.dealt /\ h.played = g.played
        /\ h.orphans = g.orphans /\ h.score = g.score
        /\ h.judgeIndex = g.judgeIndex /\ h.pick = g.pick
        /\ h.decks = g.decks
    BY <1>1, TimerFacts
  <1> HIDE DEF h
  <1>3. Loose(h)
    BY <1>2 DEF Loose, Distinct, Ghostless, Clean, Members
  <1>4. Enough(g) => Enough(h)
    BY <1>2 DEF Enough
  <1> QED
    BY <1>3, <1>4 DEF Sound, h

\* PlayerPlayedCardsTracker.remove forgets the player's plays.
LEMMA UntrackLoose ==
    ASSUME NEW g, Loose(g), NEW u \in Users
    PROVE  Loose(Untrack(g, u))
  <1> DEFINE h == Untrack(g, u)
  <1>1. g \in Games /\ g.played \in [Users -> Nat]
    BY DEF Loose, Games
  <1>2. /\ h \in Games
        /\ h.state = g.state /\ h.players = g.players
        /\ h.spectators = g.spectators /\ h.round = g.round
        /\ h.dealt = g.dealt /\ h.score = g.score
        /\ h.judgeIndex = g.judgeIndex /\ h.pick = g.pick /\ h.decks = g.decks
    BY <1>1, UntrackFacts
  <1>3. \A v \in Users : h.played[v] = IF v = u THEN 0 ELSE g.played[v]
    BY <1>1, UntrackFacts
  <1>4. g.played[u] = 0 => h.orphans = g.orphans
    <2>1. g.played[u] = 0 => ~(g.played[u] > 1)
      OBVIOUS
    <2>2. h.orphans = IF g.played[u] > 1 THEN g.orphans \cup {u} ELSE g.orphans
      BY <1>1 DEF Untrack, Games
    <2> QED
      BY <2>1, <2>2
  <1> HIDE DEF h
  <1>5. Distinct(h)
    BY <1>2 DEF Loose, Distinct
  <1>6. Ghostless(h)
    BY <1>1, <1>2, <1>3 DEF Loose, Ghostless, Members
  <1>7. Clean(h)
    BY <1>1, <1>2, <1>3, <1>4 DEF Loose, Clean
  <1> QED
    BY <1>2, <1>5, <1>6, <1>7 DEF Loose, h

\* returnCardsToHand empties the table.
LEMMA ReturnLoose ==
    ASSUME NEW g, Loose(g)
    PROVE  Loose(ReturnCardsToHand(g))
  <1>1. g \in Games
    BY DEF Loose
  <1>2. Clean(ReturnCardsToHand(g))
    BY <1>1, ReturnFacts DEF Loose, Clean
  <1>3. Distinct(ReturnCardsToHand(g)) /\ Ghostless(ReturnCardsToHand(g))
    BY <1>1, ReturnFacts DEF Loose, Distinct, Ghostless, Members
  <1> QED
    BY <1>1, <1>2, <1>3, ReturnFacts DEF Loose

\* judgingState is for games that have left the lobby.
LEMMA JudgingLoose ==
    ASSUME NEW g, Loose(g), g.state # "LOBBY"
    PROVE  Loose(JudgingState(g))
  <1>1. g \in Games
    BY DEF Loose
  <1>2. Clean(JudgingState(g))
    BY <1>1, JudgingFacts DEF Loose, Clean
  <1>3. Distinct(JudgingState(g)) /\ Ghostless(JudgingState(g))
    BY <1>1, JudgingFacts DEF Loose, Distinct, Ghostless, Members
  <1> QED
    BY <1>1, <1>2, <1>3, JudgingFacts DEF Loose

\* resetState makes a clean lobby of any game with its players seated.
LEMMA ResetSound ==
    ASSUME NEW g, Seated(g)
    PROVE  Sound(ResetState(g))
  <1> DEFINE h == ResetState(g)
  <1>1. g \in Games
    BY DEF Seated
  <1>2. /\ h \in Games
        /\ h.state = "LOBBY" /\ h.players = g.players
        /\ h.spectators = g.spectators /\ h.round = {}
        /\ h.dealt = {} /\ h.orphans = {} /\ h.judgeIndex = 0
        /\ h.pick = 0 /\ h.decks = FALSE
    BY <1>1, ResetFacts
  <1>3. \A u \in Users : h.played[u] = 0 /\ h.score[u] = 0
    BY <1>1, ResetFacts, ZenonT(30)
  <1> HIDE DEF h
  <1>4. Distinct(h)
    BY <1>2 DEF Seated, Distinct
  <1>5. Ghostless(h)
    BY <1>2, <1>3 DEF Seated, Ghostless, Members
  <1>6. Clean(h) /\ Enough(h)
    BY <1>2, <1>3 DEF Clean, Enough
  <1> QED
    BY <1>2, <1>4, <1>5, <1>6 DEF Sound, Loose, h

\* dealState deals to every player and opens the round.
LEMMA DealSound ==
    ASSUME NEW g, Seated(g), g.decks, Len(g.players) >= MinPlayers,
           g.round \subseteq Members(g), NEW pick \in Picks
    PROVE  Sound(DealState(g, pick))
  <1>1. g \in Games
    BY DEF Seated
  <1>2. pick # 0
    BY PicksAssumption
  <1>3. Clean(DealState(g, pick)) /\ Enough(DealState(g, pick))
    BY <1>1, <1>2, DealFacts DEF Clean, Enough
  <1>4. Distinct(DealState(g, pick)) /\ Ghostless(DealState(g, pick))
    BY <1>1, DealFacts DEF Seated, Distinct, Ghostless, Members
  <1> QED
    BY <1>1, <1>3, <1>4, DealFacts DEF Sound, Loose

\* startNextRound, of a game that may have been reset meanwhile.
LEMMA StartNextRoundSound ==
    ASSUME NEW g, Seated(g), NEW pick \in Picks,
           g.decks => Len(g.players) >= MinPlayers,
           ~g.decks => Sound(g)
    PROVE  Sound(StartNextRound(g, pick))
  <1>1. CASE ~g.decks
    <2>1. StartNextRound(g, pick) = [g EXCEPT !.timer = "none"]
      BY <1>1 DEF StartNextRound, KillRoundTimer
    <2> QED
      BY <1>1, <2>1, TimerSound DEF Sound
  <1>2. CASE g.decks
    <2> DEFINE h == [g EXCEPT !.judgeIndex = NextJudgeIndex(g)]
               k == [h EXCEPT !.round = Members(h) \ {JudgeOf(h)}]
    <2>1. StartNextRound(g, pick) = DealState(k, pick)
      BY <1>2 DEF StartNextRound
    <2>2. g \in Games /\ NextJudgeIndex(g) \in Int
      BY DEF Seated, NextJudgeIndex, Games
    <2>3. /\ h \in Games /\ h.players = g.players
          /\ h.spectators = g.spectators /\ h.decks = g.decks
      BY <2>2 DEF Games
    <2> HIDE DEF h
    <2>4. /\ k \in Games /\ k.players = g.players
          /\ k.spectators = g.spectators /\ k.decks = g.decks
          /\ k.round = Members(h) \ {JudgeOf(h)}
      BY <2>3, MembersType DEF Games
    <2> HIDE DEF k
    <2>5. Seated(k) /\ k.round \subseteq Members(k)
      BY <2>3, <2>4 DEF Seated, Distinct, Members
    <2> QED
      BY <1>2, <2>1, <2>4, <2>5, DealSound
  <1> QED
    BY <1>1, <1>2

\* Whatever is sound may go on to its next round.
LEMMA NextRoundOfSound ==
    ASSUME NEW g, Sound(g), NEW pick \in Picks
    PROVE  Sound(StartNextRound(g, pick))
  <1>1. Seated(g)
    BY DEF Sound, Loose, Ghostless, Seated
  <1>2. g.decks => g.state # "LOBBY"
    BY DEF Sound, Loose, Clean
  <1> QED
    BY <1>1, <1>2, StartNextRoundSound DEF Sound, Enough

\* skipIdleJudge
LEMMA SkipIdleJudgeSound ==
    ASSUME NEW g, Sound(g), NEW pick \in Picks
    PROVE  Sound(SkipIdleJudge(g, pick))
  <1>1. CASE g.state # "JUDGING"
    BY <1>1, TimerSound DEF SkipIdleJudge, KillRoundTimer, Sound
  <1>2. CASE g.state = "JUDGING"
    <2> DEFINE j == JudgeOf(g)
               h == IF j = NoUser THEN g
                    ELSE [g EXCEPT !.skips[j] = Saturated(@ + 1, MaxSkips)]
    <2>1. SkipIdleJudge(g, pick) = StartNextRound(ReturnCardsToHand(h), pick)
      BY <1>2 DEF SkipIdleJudge
    <2>2. Sound(h)
      <3>1. CASE j = NoUser
        BY <3>1
      <3>2. CASE j # NoUser
        <4>1. g \in Games /\ j \in Users
          BY <3>2, SMTT(30) DEF Sound, Loose, JudgeOf, Games
        <4>2. Saturated(g.skips[j] + 1, MaxSkips) \in 0..MaxSkips
          BY <4>1, LimitsAssumption DEF Saturated, Games
        <4>3. h = [g EXCEPT !.skips = [g.skips EXCEPT ![j] =
                       Saturated(g.skips[j] + 1, MaxSkips)]]
          BY <3>2
        <4>4. /\ h \in Games
              /\ h.state = g.state /\ h.players = g.players
              /\ h.spectators = g.spectators /\ h.round = g.round
              /\ h.dealt = g.dealt /\ h.played = g.played
              /\ h.orphans = g.orphans /\ h.score = g.score
              /\ h.judgeIndex = g.judgeIndex /\ h.pick = g.pick
              /\ h.decks = g.decks
          BY <4>1, <4>2, <4>3 DEF Games
        <4> HIDE DEF h
        <4> QED
          BY <4>4 DEF Sound, Loose, Distinct, Ghostless, Clean, Enough, Members
      <3> QED
        BY <3>1, <3>2
    <2> HIDE DEF h
    <2>3. Sound(ReturnCardsToHand(h))
      BY <2>2, ReturnLoose, ReturnFacts DEF Sound, Loose, Enough
    <2> QED
      BY <2>1, <2>3, NextRoundOfSound
  <1> QED
    BY <1>1, <1>2

-----------------------------------------------------------------------------
(* removePlayer, step by step.                                             *)

\* Nothing of u is left but its place in the list of players.
Cleared(g, u) == u \notin g.round /\ u \notin g.dealt /\ g.played[u] = 0

LEMMA PositionOf ==
    ASSUME NEW g \in Games, NEW u \in Members(g)
    PROVE  /\ Position(g, u) \in 1..Len(g.players)
           /\ g.players[Position(g, u)] = u
  BY DEF Position, Members

\* discardPlayedCardsAndHandOnRemoval
LEMMA DiscardLoose ==
    ASSUME NEW g, Loose(g), NEW u \in Users
    PROVE  LET h == DiscardPlayedCardsAndHand(g, u)
           IN  /\ Loose(h) /\ h.players = g.players /\ h.state = g.state
               /\ u \notin h.dealt /\ h.played[u] = 0
  <1> DEFINE k == Untrack(g, u)
             h == DiscardPlayedCardsAndHand(g, u)
  <1>1. g \in Games /\ g.played \in [Users -> Nat]
    BY DEF Loose, Games
  <1>2. Loose(k)
    BY UntrackLoose
  <1>3. k \in Games /\ k.players = g.players /\ k.state = g.state
    BY <1>1, UntrackFacts
  <1>4. k.played[u] = 0
    BY <1>1, UntrackFacts
  <1>5. h = [k EXCEPT !.dealt = @ \ {u}]
    BY DEF DiscardPlayedCardsAndHand
  <1> HIDE DEF k, h
  <1>6. /\ h \in Games
        /\ h.state = k.state /\ h.players = k.players
        /\ h.spectators = k.spectators /\ h.round = k.round
        /\ h.dealt = k.dealt \ {u} /\ h.played = k.played
        /\ h.orphans = k.orphans /\ h.score = k.score
        /\ h.judgeIndex = k.judgeIndex /\ h.pick = k.pick
        /\ h.decks = k.decks
    BY <1>3, <1>5 DEF Games
  <1>7. k.played \in [Users -> Nat]
    BY <1>3 DEF Games
  <1>8. Loose(h)
    BY <1>2, <1>4, <1>6, <1>7 DEF Loose, Distinct, Ghostless, Clean, Members
  <1> QED
    BY <1>3, <1>4, <1>6, <1>8 DEF h

\* roundPlayers.remove, and judging if that was the play waited for
LEMMA LeaveRoundLoose ==
    ASSUME NEW g, Loose(g), NEW u \in Users, u \notin g.dealt, g.played[u] = 0
    PROVE  LET h == LeaveRound(g, u)
           IN  /\ Loose(h) /\ h.players = g.players
               /\ Cleared(h, u)
               /\ g.state = "LOBBY" => h.state = "LOBBY"
  <1> DEFINE k == [g EXCEPT !.round = @ \ {u}]
  <1>1. g \in Games
    BY DEF Loose
  <1>2. /\ k \in Games
        /\ k.state = g.state /\ k.players = g.players
        /\ k.spectators = g.spectators /\ k.round = g.round \ {u}
        /\ k.dealt = g.dealt /\ k.played = g.played
        /\ k.orphans = g.orphans /\ k.score = g.score
        /\ k.judgeIndex = g.judgeIndex /\ k.pick = g.pick
        /\ k.decks = g.decks
    BY <1>1 DEF Games
  <1>3. LeaveRound(g, u) = IF u \in g.round /\ StartJudging(k)
                           THEN JudgingState(k) ELSE k
    BY DEF LeaveRound
  <1> HIDE DEF k
  <1>4. Loose(k) /\ Cleared(k, u)
    BY <1>2 DEF Loose, Distinct, Ghostless, Clean, Members, Cleared
  <1>5. CASE u \in g.round /\ StartJudging(k)
    <2>1. k.state = "PLAYING"
      BY <1>5 DEF StartJudging
    <2>2. LeaveRound(g, u) = JudgingState(k)
      BY <1>3, <1>5
    <2>3. Loose(JudgingState(k))
      BY <1>4, <2>1, JudgingLoose
    <2>4. JudgingState(k).players = k.players /\ Cleared(JudgingState(k), u)
      BY <1>2, <1>4, JudgingFacts DEF Cleared
    <2> QED
      BY <1>2, <2>1, <2>2, <2>3, <2>4
  <1>6. CASE ~(u \in g.round /\ StartJudging(k))
    BY <1>2, <1>3, <1>4, <1>6
  <1> QED
    BY <1>5, <1>6

\* The seat of the judge may move freely outside the lobby.
LEMMA JudgeIndexFacts ==
    ASSUME NEW g \in Games, NEW d \in Int
    PROVE  LET h == [g EXCEPT !.judgeIndex = d]
           IN  /\ h \in Games
               /\ h.state = g.state /\ h.players = g.players
               /\ h.spectators = g.spectators /\ h.round = g.round
               /\ h.dealt = g.dealt /\ h.played = g.played
               /\ h.orphans = g.orphans /\ h.score = g.score
               /\ h.pick = g.pick /\ h.decks = g.decks
  BY DEF Games

\* handleJudgeOnPlayerRemoval: in the lobby judgeIndex is 0 and stays 0.
LEMMA HandleJudgeLoose ==
    ASSUME NEW g, Loose(g), NEW u \in Members(g), Cleared(g, u)
    PROVE  LET h == HandleJudgeOnRemoval(g, u)
           IN  /\ Loose(h) /\ h.players = g.players /\ h.state = g.state
               /\ Cleared(h, u)
  <1>1. g \in Games /\ u \in Users
    BY MembersType DEF Loose
  <1> DEFINE k == ReturnCardsToHand(g)
             h == HandleJudgeOnRemoval(g, u)
  <1>2. CASE JudgeLeaves(g, u)
    <2>1. Loose(k)
      BY ReturnLoose
    <2>2. k \in Games /\ k.players = g.players /\ k.state = g.state /\ Cleared(k, u)
      BY <1>1, ReturnFacts DEF Cleared
    <2>3. h = [k EXCEPT !.judgeIndex = k.judgeIndex - 1] /\ k.judgeIndex - 1 \in Int
      BY <1>2, <2>2 DEF HandleJudgeOnRemoval, Games
    <2>4. g.state # "LOBBY"
      BY <1>2 DEF JudgeLeaves
    <2> HIDE DEF k, h
    <2>5. /\ h \in Games
          /\ h.state = k.state /\ h.players = k.players
          /\ h.spectators = k.spectators /\ h.round = k.round
          /\ h.dealt = k.dealt /\ h.played = k.played
          /\ h.orphans = k.orphans /\ h.score = k.score
          /\ h.pick = k.pick /\ h.decks = k.decks
      BY <2>2, <2>3, JudgeIndexFacts
    <2>6. Loose(h) /\ Cleared(h, u)
      BY <2>1, <2>2, <2>4, <2>5
         DEF Loose, Distinct, Ghostless, Clean, Members, Cleared
    <2> QED
      BY <2>2, <2>5, <2>6 DEF h
  <1>3. CASE ~JudgeLeaves(g, u) /\ Position(g, u) - 1 < g.judgeIndex
    <2>1. h = [g EXCEPT !.judgeIndex = g.judgeIndex - 1] /\ g.judgeIndex - 1 \in Int
      BY <1>1, <1>3 DEF HandleJudgeOnRemoval, Games
    <2>2. g.judgeIndex # 0
      BY <1>1, <1>3, PositionOf
    <2> HIDE DEF h
    <2>3. /\ h \in Games
          /\ h.state = g.state /\ h.players = g.players
          /\ h.spectators = g.spectators /\ h.round = g.round
          /\ h.dealt = g.dealt /\ h.played = g.played
          /\ h.orphans = g.orphans /\ h.score = g.score
          /\ h.pick = g.pick /\ h.decks = g.decks
      BY <1>1, <2>1, JudgeIndexFacts
    <2>4. Loose(h) /\ Cleared(h, u)
      BY <2>2, <2>3 DEF Loose, Distinct, Ghostless, Clean, Members, Cleared
    <2> QED
      BY <2>3, <2>4 DEF h
  <1>4. CASE ~JudgeLeaves(g, u) /\ ~(Position(g, u) - 1 < g.judgeIndex)
    BY <1>4 DEF HandleJudgeOnRemoval
  <1> QED
    BY <1>2, <1>3, <1>4

\* List.remove: the others keep their order, and u is gone.
LEMMA WithoutFacts ==
    ASSUME NEW g \in Games, Distinct(g), NEW u \in Members(g)
    PROVE  LET s == Without(g, u)
           IN  /\ s \in Seq(Users)
               /\ Len(s) = Len(g.players) - 1
               /\ \A i, j \in 1..Len(s) : s[i] = s[j] => i = j
               /\ {s[i] : i \in 1..Len(s)} = Members(g) \ {u}
  <1> DEFINE p == g.players
             n == Len(p)
             k == Position(g, u)
             s == Without(g, u)
  <1>0. p \in Seq(Users) /\ n \in Nat
    BY DEF Games
  <1>1. p \in Seq(Users) /\ n \in Nat /\ k \in 1..n /\ p[k] = u
    BY <1>0, PositionOf
  <1>2. \A i, j \in 1..n : p[i] = p[j] => i = j
    BY DEF Distinct
  <1>3. Members(g) = {p[i] : i \in 1..n}
    BY DEF Members
  <1>4. s = [i \in 1..(n - 1) |-> IF i < k THEN p[i] ELSE p[i + 1]]
    BY DEF Without
  <1> HIDE DEF p, n, k, s
  <1>5. n - 1 \in Nat
    BY <1>1
  <1>6. \A i \in 1..(n - 1) : s[i] \in Users
    BY <1>1, <1>4 DEF n
  <1>7. s \in Seq(Users) /\ Len(s) = n - 1
    BY <1>4, <1>5, <1>6
  <1>8. \A i, j \in 1..(n - 1) : s[i] = s[j] => i = j
    BY <1>1, <1>2, <1>4
  <1>9. {s[i] : i \in 1..(n - 1)} = {p[i] : i \in 1..n} \ {u}
    <2>1. ASSUME NEW i \in 1..(n - 1)
          PROVE  s[i] \in {p[j] : j \in 1..n} /\ s[i] # u
      BY <1>1, <1>2, <1>4
    <2>2. ASSUME NEW j \in 1..n, p[j] # u
          PROVE  \E i \in 1..(n - 1) : s[i] = p[j]
      <3>1. CASE j < k
        BY <1>1, <1>4, <3>1
      <3>2. CASE j > k
        <4>1. j - 1 \in 1..(n - 1) /\ ~(j - 1 < k) /\ (j - 1) + 1 = j
          BY <1>1, <3>2
        <4>2. s[j - 1] = p[j]
          BY <1>4, <4>1
        <4> QED
          BY <4>1, <4>2
      <3> QED
        BY <1>1, <2>2, <3>1, <3>2
    <2> QED
      BY <2>1, <2>2
  <1> QED
    BY <1>3, <1>7, <1>8, <1>9 DEF n, p, s

\* players.remove, user.leaveGame
LEMMA TakeLoose ==
    ASSUME NEW g, Loose(g), NEW u \in Members(g), Cleared(g, u)
    PROVE  LET h == TakeFromList(g, u)
           IN  /\ Loose(h) /\ h.state = g.state
               /\ Members(h) = Members(g) \ {u}
               /\ Len(h.players) = Len(g.players) - 1
  <1> DEFINE h == TakeFromList(g, u)
             rest == Without(g, u)
  <1>1. g \in Games /\ Distinct(g) /\ u \in Users
    BY MembersType DEF Loose
  <1>2. /\ rest \in Seq(Users) /\ Len(rest) = Len(g.players) - 1
        /\ \A i, j \in 1..Len(rest) : rest[i] = rest[j] => i = j
        /\ {rest[i] : i \in 1..Len(rest)} = Members(g) \ {u}
    BY <1>1, WithoutFacts
  <1>3. h = [g EXCEPT !.players = rest, !.score = [g.score EXCEPT ![u] = 0],
                      !.skips = [g.skips EXCEPT ![u] = 0]]
    BY <1>1 DEF TakeFromList, Games
  <1>4. 0 \in 0..ScoreGoal /\ 0 \in 0..MaxSkips
    BY LimitsAssumption
  <1>5. /\ [g.score EXCEPT ![u] = 0] \in [Users -> 0..ScoreGoal]
        /\ [g.skips EXCEPT ![u] = 0] \in [Users -> 0..MaxSkips]
        /\ \A v \in Users : g.score[v] = 0 => [g.score EXCEPT ![u] = 0][v] = 0
    BY <1>1, <1>4 DEF Games
  <1> HIDE DEF h, rest
  <1>6. /\ h \in Games
        /\ h.state = g.state /\ h.players = rest
        /\ h.spectators = g.spectators /\ h.round = g.round
        /\ h.dealt = g.dealt /\ h.played = g.played
        /\ h.orphans = g.orphans
        /\ h.judgeIndex = g.judgeIndex /\ h.pick = g.pick
        /\ h.decks = g.decks
    BY <1>1, <1>2, <1>3, <1>5 DEF Games
  <1>7. \A v \in Users : g.score[v] = 0 => h.score[v] = 0
    BY <1>1, <1>3, <1>5 DEF Games
  <1>8. Members(h) = Members(g) \ {u}
    <2>1. Members(h) = {rest[i] : i \in 1..Len(rest)}
      BY <1>6 DEF Members
    <2> QED
      BY <1>2, <2>1
  <1>9. Distinct(h)
    BY <1>2, <1>6 DEF Distinct
  <1>10. Ghostless(h)
    BY <1>6, <1>8 DEF Loose, Ghostless, Cleared
  <1>11. Clean(h)
    BY <1>6, <1>7 DEF Loose, Clean
  <1> QED
    BY <1>2, <1>6, <1>8, <1>9, <1>10, <1>11 DEF Loose, h

\* handlePlayerCountAfterRemoval restores what "enough players" promises.
LEMMA CountSound ==
    ASSUME NEW g, Loose(g), NEW wasJudge \in BOOLEAN
    PROVE  Sound(HandlePlayerCountAfterRemoval(g, wasJudge))
  <1> DEFINE h == IF g.players = <<>> THEN [g EXCEPT !.spectators = {}] ELSE g
             t == [h EXCEPT !.timer = "nextRound"]
  <1>1. g \in Games
    BY DEF Loose
  <1>2. Loose(h)
    <2>1. CASE g.players = <<>>
      <3>1. /\ h \in Games
            /\ h.state = g.state /\ h.players = g.players
            /\ h.spectators = {} /\ h.round = g.round
            /\ h.dealt = g.dealt /\ h.played = g.played
            /\ h.orphans = g.orphans /\ h.score = g.score
            /\ h.judgeIndex = g.judgeIndex /\ h.pick = g.pick
            /\ h.decks = g.decks
        BY <1>1, <2>1 DEF Games
      <3> HIDE DEF h
      <3> QED
        BY <3>1 DEF Loose, Distinct, Ghostless, Clean, Members
    <2>2. CASE g.players # <<>>
      BY <2>2
    <2> QED
      BY <2>1, <2>2
  <1>3. HandlePlayerCountAfterRemoval(g, wasJudge) =
            IF Len(h.players) < MinPlayers /\ h.state # "LOBBY" THEN ResetState(h)
            ELSE IF wasJudge THEN t ELSE h
    BY DEF HandlePlayerCountAfterRemoval
  <1> HIDE DEF h
  <1>4. CASE Len(h.players) < MinPlayers /\ h.state # "LOBBY"
    BY <1>2, <1>3, <1>4, ResetSound DEF Loose, Ghostless, Seated
  <1>5. CASE ~(Len(h.players) < MinPlayers /\ h.state # "LOBBY")
    <2>1. Len(h.players) \in Nat
      BY <1>2 DEF Loose, Games
    <2>2. Enough(h)
      BY <1>5, <2>1 DEF Enough, MinPlayers
    <2>3. Sound(t) /\ Sound(h)
      BY <1>2, <2>2, TimerSound DEF Sound, Tasks
    <2> QED
      BY <1>3, <1>5, <2>3
  <1> QED
    BY <1>4, <1>5

\* removePlayer as a whole
LEMMA RemovePlayerSound ==
    ASSUME NEW g, Sound(g), NEW u \in Users
    PROVE  Sound(RemovePlayer(g, u))
  <1> DEFINE a == DiscardPlayedCardsAndHand(g, u)
             b == LeaveRound(a, u)
             c == HandleJudgeOnRemoval(b, u)
             d == TakeFromList(c, u)
  <1>1. CASE u \notin Members(g)
    BY <1>1 DEF RemovePlayer
  <1>2. CASE u \in Members(g)
    <2>1. RemovePlayer(g, u) = HandlePlayerCountAfterRemoval(d, JudgeLeaves(b, u))
      BY <1>2 DEF RemovePlayer
    <2>2. Loose(a) /\ a.players = g.players /\ u \notin a.dealt /\ a.played[u] = 0
      BY DiscardLoose DEF Sound
    <2> HIDE DEF a
    <2>3. Loose(b) /\ b.players = a.players /\ Cleared(b, u)
      BY <2>2, LeaveRoundLoose
    <2> HIDE DEF b
    <2>4. u \in Members(b)
      BY <1>2, <2>2, <2>3 DEF Members
    <2>5. Loose(c) /\ c.players = b.players /\ Cleared(c, u)
      BY <2>3, <2>4, HandleJudgeLoose
    <2> HIDE DEF c
    <2>6. u \in Members(c)
      BY <2>4, <2>5 DEF Members
    <2>7. Loose(d)
      BY <2>5, <2>6, TakeLoose
    <2>8. JudgeLeaves(b, u) \in BOOLEAN
      BY DEF JudgeLeaves
    <2> HIDE DEF d
    <2> QED
      BY <2>1, <2>7, <2>8, CountSound
  <1> QED
    BY <1>1, <1>2

-----------------------------------------------------------------------------
(* Playing and judging.                                                    *)

\* A field of skips may take any value of its type.
LEMMA SkipsFacts ==
    ASSUME NEW g \in Games, NEW f \in [Users -> 0..MaxSkips]
    PROVE  LET h == [g EXCEPT !.skips = f]
           IN  /\ h \in Games
               /\ h.state = g.state /\ h.players = g.players
               /\ h.spectators = g.spectators /\ h.round = g.round
               /\ h.dealt = g.dealt /\ h.played = g.played
               /\ h.orphans = g.orphans /\ h.score = g.score
               /\ h.judgeIndex = g.judgeIndex /\ h.pick = g.pick
               /\ h.decks = g.decks /\ h.table = g.table
  BY DEF Games

\* Forgetting the skips of a player.
LEMMA ForgiveSound ==
    ASSUME NEW g, Sound(g), NEW u \in Users
    PROVE  Sound([g EXCEPT !.skips[u] = 0])
  <1> DEFINE f == [g.skips EXCEPT ![u] = 0]
             h == [g EXCEPT !.skips = f]
  <1>1. g \in Games /\ g.skips \in [Users -> 0..MaxSkips] /\ 0 \in 0..MaxSkips
    BY LimitsAssumption DEF Sound, Loose, Games
  <1>2. f \in [Users -> 0..MaxSkips]
    BY <1>1
  <1>3. [g EXCEPT !.skips[u] = 0] = h
    BY <1>1 DEF Games
  <1> HIDE DEF f
  <1>4. /\ h \in Games
        /\ h.state = g.state /\ h.players = g.players
        /\ h.spectators = g.spectators /\ h.round = g.round
        /\ h.dealt = g.dealt /\ h.played = g.played
        /\ h.orphans = g.orphans /\ h.score = g.score
        /\ h.judgeIndex = g.judgeIndex /\ h.pick = g.pick
        /\ h.decks = g.decks
    BY <1>1, <1>2, SkipsFacts
  <1> HIDE DEF h
  <1>5. Sound(h)
    BY <1>4 DEF Sound, Loose, Distinct, Ghostless, Clean, Enough, Members
  <1> QED
    BY <1>3, <1>5

\* judgingState of a sound game
LEMMA JudgingSound ==
    ASSUME NEW g, Sound(g), g.state # "LOBBY"
    PROVE  Sound(JudgingState(g))
  <1>1. g \in Games
    BY DEF Sound, Loose
  <1>2. JudgingState(g).players = g.players
    BY <1>1, JudgingFacts
  <1> QED
    BY <1>2, JudgingLoose DEF Sound, Enough

\* playCard
LEMMA PlayCardSound ==
    ASSUME NEW g, Sound(g), NEW u \in Users
    PROVE  Sound(PlayCard(g, u))
  <1> DEFINE h == [g EXCEPT !.skips[u] = 0]
             k == [h EXCEPT !.played[u] = @ + 1]
  <1>1. Sound(h)
    BY ForgiveSound
  <1>2. PlayCard(g, u) = IF ~MayPlay(h, u) THEN h
                         ELSE IF StartJudging(k) THEN JudgingState(k) ELSE k
    BY DEF PlayCard
  <1> HIDE DEF h
  <1>3. CASE ~MayPlay(h, u)
    BY <1>1, <1>2, <1>3
  <1>4. CASE MayPlay(h, u)
    <2>1. h \in Games /\ h.played \in [Users -> Nat]
      BY <1>1 DEF Sound, Loose, Games
    <2>2. h.state = "PLAYING" /\ u \in h.dealt
      BY <1>4 DEF MayPlay
    <2> DEFINE f == [h.played EXCEPT ![u] = h.played[u] + 1]
    <2>3. f \in [Users -> Nat] /\ \A v \in Users : v # u => f[v] = h.played[v]
      BY <2>1
    <2>4. k = [h EXCEPT !.played = f]
      BY <2>1 DEF Games
    <2> HIDE DEF k, f
    <2>5. /\ k \in Games
          /\ k.state = h.state /\ k.players = h.players
          /\ k.spectators = h.spectators /\ k.round = h.round
          /\ k.dealt = h.dealt /\ k.played = f
          /\ k.orphans = h.orphans /\ k.score = h.score
          /\ k.judgeIndex = h.judgeIndex /\ k.pick = h.pick
          /\ k.decks = h.decks
      BY <2>1, <2>3, <2>4 DEF Games
    <2>6. Ghostless(k)
      BY <1>1, <2>2, <2>3, <2>5 DEF Sound, Loose, Ghostless, Members
    <2>7. Distinct(k) /\ Clean(k) /\ Enough(k)
      BY <1>1, <2>2, <2>5 DEF Sound, Loose, Distinct, Clean, Enough
    <2>8. Sound(k) /\ k.state # "LOBBY"
      BY <2>2, <2>5, <2>6, <2>7 DEF Sound, Loose
    <2> QED
      BY <1>2, <1>4, <2>8, JudgingSound
  <1> QED
    BY <1>3, <1>4

\* The winner of a round gets at most one point, and the round is over.
LEMMA WonFacts ==
    ASSUME NEW g \in Games, NEW f \in [Users -> 0..ScoreGoal]
    PROVE  LET h == [g EXCEPT !.score = f, !.state = "ROUND_OVER", !.table = {}]
           IN  /\ h \in Games
               /\ h.state = "ROUND_OVER" /\ h.players = g.players
               /\ h.spectators = g.spectators /\ h.round = g.round
               /\ h.dealt = g.dealt /\ h.played = g.played
               /\ h.orphans = g.orphans
               /\ h.judgeIndex = g.judgeIndex /\ h.pick = g.pick
               /\ h.decks = g.decks
  BY DEF Games, States

\* judgeCard, whatever becomes of the lookup of the winner
LEMMA JudgeCardSound ==
    ASSUME NEW g, Sound(g), NEW j \in Users, NEW u \in Users
    PROVE  Sound(JudgeCard(g, j, u))
  <1> DEFINE h == IF j \in Members(g) THEN [g EXCEPT !.skips[j] = 0] ELSE g
             f == [h.score EXCEPT ![u] = IF u \in g.dealt
                      THEN Saturated(h.score[u] + 1, ScoreGoal) ELSE h.score[u]]
             won == [h EXCEPT !.score[u] = IF u \in g.dealt
                        THEN Saturated(@ + 1, ScoreGoal) ELSE @,
                              !.state = "ROUND_OVER", !.table = {}]
             t == [won EXCEPT !.timer = AfterRound(won, u)]
  <1>1. Sound(h)
    BY ForgiveSound
  <1>2. JudgeCard(g, j, u) = IF ~MayJudge(g, j) THEN g
                             ELSE IF g.played[u] > 0 THEN t
                             ELSE IF u \in g.orphans THEN won ELSE h
    BY DEF JudgeCard
  <1>3. h.state = g.state
    BY DEF Sound, Loose, Games
  <1> HIDE DEF h
  <1>4. CASE ~MayJudge(g, j)
    BY <1>2, <1>4
  <1>5. CASE MayJudge(g, j)
    <2>1. h \in Games /\ h.score \in [Users -> 0..ScoreGoal] /\ h.state = "JUDGING"
      BY <1>1, <1>3, <1>5 DEF Sound, Loose, Games, MayJudge
    <2>2. h.score[u] \in 0..ScoreGoal
          /\ Saturated(h.score[u] + 1, ScoreGoal) \in 0..ScoreGoal
      BY <2>1, LimitsAssumption DEF Saturated
    <2>3. f \in [Users -> 0..ScoreGoal]
      BY <2>1, <2>2
    <2>4. won = [h EXCEPT !.score = f, !.state = "ROUND_OVER", !.table = {}]
      BY <2>1 DEF Games
    <2> HIDE DEF f, won
    <2>5. /\ won \in Games
          /\ won.state = "ROUND_OVER" /\ won.players = h.players
          /\ won.spectators = h.spectators /\ won.round = h.round
          /\ won.dealt = h.dealt /\ won.played = h.played
          /\ won.orphans = h.orphans
          /\ won.judgeIndex = h.judgeIndex /\ won.pick = h.pick
          /\ won.decks = h.decks
      BY <2>1, <2>3, <2>4, WonFacts, ZenonT(30)
    <2>6. Sound(won)
      BY <1>1, <2>1, <2>5
         DEF Sound, Loose, Distinct, Ghostless, Clean, Enough, Members
    <2>7. AfterRound(won, u) \in Tasks \cup {"none"}
      BY DEF AfterRound, Tasks
    <2>8. Sound(t)
      BY <2>6, <2>7, TimerSound DEF Sound
    <2> QED
      BY <1>1, <1>2, <1>5, <2>6, <2>8
  <1> QED
    BY <1>4, <1>5

-----------------------------------------------------------------------------
(* Skipping.                                                               *)

\* Leaving the round without leaving the game.
LEMMA OutOfRoundSound ==
    ASSUME NEW g, Sound(g), NEW u \in Users
    PROVE  LET h == [Untrack(g, u) EXCEPT !.round = @ \ {u}]
           IN  Sound(h) /\ h.state = g.state
  <1> DEFINE k == Untrack(g, u)
             h == [k EXCEPT !.round = @ \ {u}]
  <1>1. g \in Games
    BY DEF Sound, Loose
  <1>2. k \in Games /\ k.state = g.state /\ k.players = g.players
    BY <1>1, UntrackFacts
  <1>3. Loose(k)
    BY UntrackLoose DEF Sound
  <1> HIDE DEF k
  <1>4. /\ h \in Games
        /\ h.state = k.state /\ h.players = k.players
        /\ h.spectators = k.spectators /\ h.round = k.round \ {u}
        /\ h.dealt = k.dealt /\ h.played = k.played
        /\ h.orphans = k.orphans /\ h.score = k.score
        /\ h.judgeIndex = k.judgeIndex /\ h.pick = k.pick
        /\ h.decks = k.decks
    BY <1>2 DEF Games
  <1> HIDE DEF h
  <1>5. Distinct(h) /\ Ghostless(h) /\ Clean(h)
    BY <1>3, <1>4 DEF Loose, Distinct, Ghostless, Clean, Members
  <1>6. Enough(h)
    BY <1>2, <1>4 DEF Sound, Enough
  <1> QED
    BY <1>2, <1>4, <1>5, <1>6 DEF Sound, Loose, h, k

\* returnCardsToHand of a sound game
LEMMA ReturnSound ==
    ASSUME NEW g, Sound(g)
    PROVE  Sound(ReturnCardsToHand(g))
  BY ReturnLoose, ReturnFacts DEF Sound, Loose, Enough

\* skipPlayer
LEMMA SkipPlayerSound ==
    ASSUME NEW g, Sound(g), NEW u \in Users, NEW pick \in Picks
    PROVE  Sound(SkipPlayer(g, u, pick))
  <1> DEFINE h == [Untrack(g, u) EXCEPT !.round = @ \ {u}]
  <1>1. Sound(h) /\ h.state = g.state
    BY OutOfRoundSound
  <1>2. SkipPlayer(g, u, pick) =
          IF u \notin Members(g) THEN g
          ELSE IF u = JudgeOf(g) THEN SkipIdleJudge(g, pick)
          ELSE IF g.state # "PLAYING" \/ g.played[u] >= g.pick \/ u \notin g.round
               THEN g
          ELSE IF StartJudging(h) THEN JudgingState(h)
          ELSE IF Cardinality(h.round) < 2
               THEN StartNextRound(ReturnCardsToHand(h), pick)
          ELSE h
    BY DEF SkipPlayer
  <1> HIDE DEF h
  <1>3. StartJudging(h) => Sound(JudgingState(h))
    BY <1>1, JudgingSound DEF StartJudging
  <1>4. Sound(StartNextRound(ReturnCardsToHand(h), pick))
    BY <1>1, ReturnSound, NextRoundOfSound
  <1>5. Sound(SkipIdleJudge(g, pick))
    BY SkipIdleJudgeSound
  <1> QED
    BY <1>1, <1>2, <1>3, <1>4, <1>5

\* skipIdlePlayers, the scan
LEMMA SkipIdlePlayersSound ==
    ASSUME NEW g, Sound(g)
    PROVE  Sound(SkipIdlePlayers(g))
  <1> DEFINE idle == IdlePlayers(g)
             f == [u \in Users |-> IF u \in idle
                                   THEN Saturated(g.skips[u] + 1, MaxSkips)
                                   ELSE g.skips[u]]
             p == [u \in Users |-> IF u \in idle THEN 0 ELSE g.played[u]]
             o == g.orphans \cup {u \in idle : g.played[u] > 1}
             k == KillRoundTimer(g)
             h == SkipIdlePlayers(g)
  <1>1. /\ g \in Games /\ g.played \in [Users -> Nat]
        /\ g.skips \in [Users -> 0..MaxSkips]
        /\ g.round \subseteq Users /\ g.orphans \subseteq Users
    BY DEF Sound, Loose, Games
  <1>2. idle \subseteq Users /\ idle \subseteq g.round
    BY <1>1 DEF IdlePlayers
  <1>3. p \in [Users -> Nat] /\ \A u \in Users : p[u] > 0 => g.played[u] > 0
    BY <1>1
  <1>4. f \in [Users -> 0..MaxSkips]
    <2>1. \A u \in Users : Saturated(g.skips[u] + 1, MaxSkips) \in 0..MaxSkips
      BY <1>1, LimitsAssumption DEF Saturated
    <2> QED
      BY <1>1, <2>1
  <1>5. o \subseteq Users
    BY <1>1, <1>2
  <1>6. /\ k \in Games /\ k.orphans = g.orphans
        /\ k.state = g.state /\ k.players = g.players
        /\ k.spectators = g.spectators /\ k.round = g.round
        /\ k.dealt = g.dealt /\ k.score = g.score
        /\ k.judgeIndex = g.judgeIndex /\ k.pick = g.pick
        /\ k.decks = g.decks
    BY <1>1, TimerFacts DEF KillRoundTimer
  <1>7. h = [k EXCEPT !.skips = f, !.played = p, !.orphans = o]
    BY <1>6 DEF SkipIdlePlayers
  <1>8. g.round = {} => idle = {}
    BY <1>2
  <1>9. idle = {} => o = g.orphans
    OBVIOUS
  <1>10. \A u \in Users : g.played[u] = 0 => p[u] = 0
    OBVIOUS
  <1> HIDE DEF idle, f, p, o, k, h
  <1>11. /\ h \in Games
         /\ h.state = g.state /\ h.players = g.players
         /\ h.spectators = g.spectators /\ h.round = g.round
         /\ h.dealt = g.dealt /\ h.played = p
         /\ h.orphans = o /\ h.score = g.score
         /\ h.judgeIndex = g.judgeIndex /\ h.pick = g.pick
         /\ h.decks = g.decks
    BY <1>3, <1>4, <1>5, <1>6, <1>7 DEF Games
  <1>12. Ghostless(h)
    BY <1>3, <1>11 DEF Sound, Loose, Ghostless, Members
  <1>13. Distinct(h) /\ Enough(h)
    BY <1>11 DEF Sound, Loose, Distinct, Enough
  <1>14. Clean(h)
    BY <1>8, <1>9, <1>10, <1>11 DEF Sound, Loose, Clean
  <1> QED
    BY <1>11, <1>12, <1>13, <1>14 DEF Sound, Loose, h

\* skipIdlePlayers, the decision at the end: two sets of cards on the table
\* mean that the game has left the lobby.
LEMMA ResetOrJudgeSound ==
    ASSUME NEW g, Sound(g), NEW any \in BOOLEAN
    PROVE  Sound(ResetOrJudgeAfterIdleSkip(g, any))
  <1>1. Sound(ResetState(g))
    BY ResetSound DEF Sound, Loose, Ghostless, Seated
  <1>2. ASSUME ~(Cardinality(HavePlayed(g)) < 2)
        PROVE  g.state # "LOBBY"
    <2>1. HavePlayed(g) # {}
      BY <1>2, FS_EmptySet
    <2>2. PICK u \in Users : g.played[u] > 0
      BY <2>1 DEF HavePlayed
    <2> QED
      BY <2>2 DEF Sound, Loose, Clean
  <1>3. ~(Cardinality(HavePlayed(g)) < 2) => Sound(JudgingState(g))
    BY <1>2, JudgingSound
  <1> QED
    BY <1>1, <1>3 DEF ResetOrJudgeAfterIdleSkip

-----------------------------------------------------------------------------
(* Joining.                                                                *)

\* addPlayer appends a user that is not yet there.
LEMMA AddPlayerSound ==
    ASSUME NEW g, Sound(g), NEW u \in Users, ~InGame(g, u)
    PROVE  Sound([g EXCEPT !.players = Append(g.players, u)])
  <1> DEFINE p == g.players
             n == Len(p)
             q == Append(p, u)
             h == [g EXCEPT !.players = q]
  <1>1. g \in Games /\ p \in Seq(Users) /\ n \in Nat
    BY DEF Sound, Loose, Games
  <1>2. Members(g) = {p[i] : i \in 1..n} /\ u \notin Members(g) /\ u \notin g.spectators
    BY DEF Members, InGame
  <1>3. \A i, j \in 1..n : p[i] = p[j] => i = j
    BY DEF Sound, Loose, Distinct
  <1> HIDE DEF p, n
  <1>4. /\ q \in Seq(Users) /\ Len(q) = n + 1 /\ q[n + 1] = u
        /\ \A i \in 1..n : q[i] = p[i]
    BY <1>1 DEF n
  <1> HIDE DEF q
  <1>5. \A i \in 1..(n + 1) : i \in 1..n \/ i = n + 1
    BY <1>1
  <1>6. \A i, j \in 1..(n + 1) : q[i] = q[j] => i = j
    BY <1>2, <1>3, <1>4, <1>5
  <1>7. {q[i] : i \in 1..(n + 1)} = Members(g) \cup {u}
    <2>1. \A i \in 1..n : i \in 1..(n + 1)
      BY <1>1
    <2>2. n + 1 \in 1..(n + 1)
      BY <1>1
    <2> QED
      BY <1>2, <1>4, <1>5, <2>1, <2>2
  <1>8. /\ h \in Games
        /\ h.state = g.state /\ h.players = q
        /\ h.spectators = g.spectators /\ h.round = g.round
        /\ h.dealt = g.dealt /\ h.played = g.played
        /\ h.orphans = g.orphans /\ h.score = g.score
        /\ h.judgeIndex = g.judgeIndex /\ h.pick = g.pick
        /\ h.decks = g.decks
    BY <1>1, <1>4 DEF Games
  <1> HIDE DEF h
  <1>9. Members(h) = Members(g) \cup {u}
    <2>1. Members(h) = {q[i] : i \in 1..(n + 1)}
      BY <1>4, <1>8 DEF Members
    <2> QED
      BY <1>7, <2>1
  <1>10. Distinct(h)
    BY <1>4, <1>6, <1>8 DEF Distinct
  <1>11. Ghostless(h)
    BY <1>2, <1>8, <1>9 DEF Sound, Loose, Ghostless
  <1>12. Clean(h)
    BY <1>8 DEF Sound, Loose, Clean
  <1>13. Enough(h)
    <2>1. g.state # "LOBBY" => n >= MinPlayers
      BY DEF Sound, Enough, n, p
    <2> QED
      BY <1>1, <1>4, <1>8, <2>1 DEF Enough, MinPlayers
  <1> QED
    BY <1>8, <1>10, <1>11, <1>12, <1>13 DEF Sound, Loose, h, q, p

\* Spectators come and go without a trace in the round.
LEMMA SpectatorsSound ==
    ASSUME NEW g, Sound(g), NEW S \in SUBSET Users, S \cap Members(g) = {}
    PROVE  Sound([g EXCEPT !.spectators = S])
  <1> DEFINE h == [g EXCEPT !.spectators = S]
  <1>1. /\ h \in Games
        /\ h.state = g.state /\ h.players = g.players
        /\ h.spectators = S /\ h.round = g.round
        /\ h.dealt = g.dealt /\ h.played = g.played
        /\ h.orphans = g.orphans /\ h.score = g.score
        /\ h.judgeIndex = g.judgeIndex /\ h.pick = g.pick
        /\ h.decks = g.decks
    BY DEF Sound, Loose, Games
  <1> HIDE DEF h
  <1>2. Members(h) = Members(g)
    BY <1>1 DEF Members
  <1>3. Distinct(h) /\ Ghostless(h) /\ Clean(h) /\ Enough(h)
    BY <1>1, <1>2 DEF Sound, Loose, Distinct, Ghostless, Clean, Enough
  <1> QED
    BY <1>1, <1>3 DEF Sound, Loose, h

\* createGameWithPlayer: a game with its first player
LEMMA FirstPlayerSound ==
    ASSUME NEW u \in Users
    PROVE  Sound([NewGame EXCEPT !.players = <<u>>])
  <1>1. Sound(NewGame) /\ ~InGame(NewGame, u)
    BY NewGameSound DEF InGame, Members, NewGame
  <1>2. NewGame.players = <<>> /\ Append(<<>>, u) = <<u>>
    BY DEF NewGame
  <1> QED
    BY <1>1, <1>2, AddPlayerSound

\* start: the decks are loaded just before the first round is dealt.
LEMMA StartSound ==
    ASSUME NEW g, Sound(g), NEW seat \in Nat, NEW pick \in Picks,
           Len(g.players) >= MinPlayers
    PROVE  Sound(StartNextRound([g EXCEPT !.judgeIndex = seat, !.decks = TRUE], pick))
  <1> DEFINE h == [g EXCEPT !.judgeIndex = seat, !.decks = TRUE]
  <1>0. g \in Games /\ seat \in Int
    BY DEF Sound, Loose
  <1>1. /\ h \in Games /\ h.players = g.players
        /\ h.spectators = g.spectators /\ h.decks = TRUE
    BY <1>0 DEF Games
  <1> HIDE DEF h
  <1>2. Seated(h)
    BY <1>1 DEF Sound, Loose, Ghostless, Distinct, Seated, Members
  <1> QED
    BY <1>1, <1>2, StartNextRoundSound DEF h

-----------------------------------------------------------------------------
(* The invariant.                                                          *)

LEMMA InitInv == Init => Inv
  <1>1. Idle \in Activities
    BY DEF Idle, Activities
  <1> QED
    BY <1>1, NewGameSound DEF Init, Inv

\* The requests
LEMMA RequestInv == ASSUME Inv, Request PROVE Inv'
  <1>0. Sound(game) /\ game \in Games
    BY DEF Inv, Sound, Loose
  <1>1. ASSUME NEW u \in Users, CreateGame(u) PROVE Inv'
    <2>1. Sound(game')
      BY <1>1, FirstPlayerSound DEF CreateGame
    <2> QED
      BY <1>1, <2>1 DEF CreateGame, Inv
  <1>2. ASSUME NEW u \in Users, AddPlayer(u) PROVE Inv'
    <2>1. Sound(game')
      BY <1>0, <1>2, AddPlayerSound DEF AddPlayer
    <2> QED
      BY <1>2, <2>1 DEF AddPlayer, Inv
  <1>3. ASSUME NEW u \in Users, AddSpectator(u) PROVE Inv'
    <2>1. /\ game.spectators \cup {u} \in SUBSET Users
          /\ (game.spectators \cup {u}) \cap Members(game) = {}
      BY <1>0, <1>3 DEF AddSpectator, InGame, Sound, Loose, Ghostless, Games
    <2>2. Sound([game EXCEPT !.spectators = game.spectators \cup {u}])
      BY <1>0, <2>1, SpectatorsSound
    <2>3. Sound(game')
      BY <1>3, <2>2 DEF AddSpectator
    <2> QED
      BY <1>3, <2>3 DEF AddSpectator, Inv
  <1>4. ASSUME NEW u \in Users, LeaveGame(u) PROVE Inv'
    <2> DEFINE h == RemovePlayer(game, u)
    <2>1. Sound(h)
      BY <1>0, RemovePlayerSound
    <2>2. game' = [h EXCEPT !.spectators = h.spectators \ {u}]
      BY <1>4 DEF LeaveGame
    <2> HIDE DEF h
    <2>3. /\ h.spectators \ {u} \in SUBSET Users
          /\ (h.spectators \ {u}) \cap Members(h) = {}
      BY <2>1 DEF Sound, Loose, Ghostless, Games
    <2>4. Sound(game')
      BY <2>1, <2>2, <2>3, SpectatorsSound
    <2> QED
      BY <1>4, <2>4 DEF LeaveGame, Inv
  <1>5. ASSUME NEW seat \in 0..(PlayerLimit - 1), NEW pick \in Picks, Start(seat, pick)
        PROVE  Inv'
    <2>1. seat \in Nat
      OBVIOUS
    <2>2. Sound(game')
      BY <1>0, <1>5, <2>1, StartSound DEF Start
    <2> QED
      BY <1>5, <2>2 DEF Start, Inv
  <1>6. ASSUME Stop PROVE Inv'
    <2>1. Sound(game')
      BY <1>0, <1>6, ResetSound DEF Stop, Sound, Loose, Ghostless, Seated
    <2> QED
      BY <1>6, <2>1 DEF Stop, Inv
  <1>7. ASSUME NEW u \in Users, Play(u) PROVE Inv'
    <2>1. Sound(game')
      BY <1>0, <1>7, PlayCardSound DEF Play
    <2> QED
      BY <1>7, <2>1 DEF Play, Inv
  <1>8. ASSUME NEW j \in Users, NEW u \in Users, Judge(j, u) PROVE Inv'
    <2>1. Sound(game')
      BY <1>0, <1>8, JudgeCardSound DEF Judge
    <2> QED
      BY <1>8, <2>1 DEF Judge, Inv
  <1>9. ASSUME NEW u \in Users, NEW pick \in Picks, Skip(u, pick) PROVE Inv'
    <2>1. Sound(game')
      BY <1>0, <1>9, SkipPlayerSound DEF Skip
    <2> QED
      BY <1>9, <2>1 DEF Skip, Inv
  <1> QED
    BY <1>1, <1>2, <1>3, <1>4, <1>5, <1>6, <1>7, <1>8, <1>9 DEF Request

\* The steps of a timer thread
LEMMA TimerInv == ASSUME Inv, NEW w \in Workers, TimerStep(w) PROVE Inv'
  <1>0. Sound(game) /\ game \in Games /\ worker \in [Workers -> Activities]
    BY DEF Inv, Sound, Loose
  <1>i. Idle \in Activities
    BY DEF Idle, Activities
  <1>w. ASSUME NEW a \in Activities, worker' = [worker EXCEPT ![w] = a]
        PROVE  worker' \in [Workers -> Activities]
    BY <1>0, <1>w
  <1>1. ASSUME TakeTask(w) PROVE Inv'
    <2>1. game.timer \in Tasks
      BY <1>0, <1>1 DEF TakeTask, Games
    <2>2. [worker[w] EXCEPT !.pc = game.timer] \in Activities
      BY <1>0, <2>1 DEF Activities
    <2>3. worker' = [worker EXCEPT ![w] = [worker[w] EXCEPT !.pc = game.timer]]
      BY <1>0, <1>1 DEF TakeTask
    <2>4. Sound(game')
      BY <1>0, <1>1, TimerSound DEF TakeTask, KillRoundTimer, Sound
    <2> QED
      BY <1>w, <2>2, <2>3, <2>4 DEF Inv
  <1>2. ASSUME WarnPlayersToPlay(w) PROVE Inv'
    <2>1. Sound(game')
      BY <1>0, <1>2, TimerSound DEF WarnPlayersToPlay, Sound, Tasks
    <2> QED
      BY <1>2, <1>i, <1>w, <2>1 DEF WarnPlayersToPlay, Inv
  <1>3. ASSUME WarnJudgeToJudge(w) PROVE Inv'
    <2>1. Sound(game')
      BY <1>0, <1>3, TimerSound DEF WarnJudgeToJudge, Sound, Tasks
    <2> QED
      BY <1>3, <1>i, <1>w, <2>1 DEF WarnJudgeToJudge, Inv
  <1>4. ASSUME NEW pick \in Picks, SkipJudgeTask(w, pick) PROVE Inv'
    <2>1. Sound(game')
      BY <1>0, <1>4, SkipIdleJudgeSound DEF SkipJudgeTask
    <2> QED
      BY <1>4, <1>i, <1>w, <2>1 DEF SkipJudgeTask, Inv
  <1>5. ASSUME NEW pick \in Picks, NextRoundTask(w, pick) PROVE Inv'
    <2>1. Sound(game')
      BY <1>0, <1>5, NextRoundOfSound DEF NextRoundTask
    <2> QED
      BY <1>5, <1>i, <1>w, <2>1 DEF NextRoundTask, Inv
  <1>6. ASSUME WinTask(w) PROVE Inv'
    <2>1. Sound(game')
      BY <1>0, <1>6, ResetSound DEF WinTask, Sound, Loose, Ghostless, Seated
    <2> QED
      BY <1>6, <1>i, <1>w, <2>1 DEF WinTask, Inv
  <1>7. ASSUME ScanIdle(w) PROVE Inv'
    <2>1. Sound(game')
      BY <1>0, <1>7, SkipIdlePlayersSound DEF ScanIdle
    <2>2. PlayersToRemove(game) \subseteq Users
      BY <1>0 DEF PlayersToRemove, IdlePlayers, Games
    <2>3. [pc |-> "kick", remove |-> PlayersToRemove(game),
           any |-> PlayersToRemove(game) # {}] \in Activities
      BY <2>2 DEF Activities
    <2> QED
      BY <1>7, <1>w, <2>1, <2>3 DEF ScanIdle, Inv
  <1>8. ASSUME NEW u \in Users, KickIdle(w, u) PROVE Inv'
    <2>1. Sound(game')
      BY <1>0, <1>8, RemovePlayerSound DEF KickIdle
    <2>2. [worker[w] EXCEPT !.remove = worker[w].remove \ {u}] \in Activities
      BY <1>0 DEF Activities
    <2>3. worker' = [worker EXCEPT ![w] =
                        [worker[w] EXCEPT !.remove = worker[w].remove \ {u}]]
      BY <1>0, <1>8 DEF KickIdle
    <2> QED
      BY <1>w, <2>1, <2>2, <2>3 DEF Inv
  <1>9. ASSUME AfterIdleSkip(w) PROVE Inv'
    <2>1. worker[w].any \in BOOLEAN
      BY <1>0 DEF Activities
    <2>2. Sound(game')
      BY <1>0, <1>9, <2>1, ResetOrJudgeSound DEF AfterIdleSkip
    <2> QED
      BY <1>9, <1>i, <1>w, <2>2 DEF AfterIdleSkip, Inv
  <1> QED
    BY <1>1, <1>2, <1>3, <1>4, <1>5, <1>6, <1>7, <1>8, <1>9 DEF TimerStep

\* Every step preserves the invariant, and a stutter changes nothing.
LEMMA NextInv == Inv /\ [Next]_vars => Inv'
  <1> SUFFICES ASSUME Inv, [Next]_vars PROVE Inv'
    OBVIOUS
  <1>1. CASE Next
    BY <1>1, RequestInv, TimerInv DEF Next
  <1>2. CASE UNCHANGED vars
    BY <1>2 DEF vars, Inv
  <1> QED
    BY <1>1, <1>2

\* The strengthening that is inductive: a sound game, and threads that do
\* something known.
THEOREM Invariance == Spec => []Inv
  BY InitInv, NextInv, PTL DEF Spec

-----------------------------------------------------------------------------
(* The theorems.                                                           *)

\* The fields of a game and of its timer threads keep their types and the list
\* of players holds nobody twice, whatever the requests and their order.
THEOREM TypeCorrect == Spec => []TypeOK
  <1>1. Inv => TypeOK
    BY DEF Inv, Sound, Loose, Distinct, TypeOK
  <1> QED
    BY <1>1, Invariance, PTL

\* resetState leaves nothing of the game before it, and a game that has left
\* the lobby has its decks, a black card and enough players.
THEOREM LobbyStaysClean == Spec => []LobbyClean
  <1>1. Inv => LobbyClean
    BY DEF Inv, Sound, Loose, Clean, Enough, LobbyClean
  <1> QED
    BY <1>1, Invariance, PTL

\* removePlayer leaves no trace of a player in the round, among the hands or
\* on the table, also when a timer thread is in the middle of its task.
THEOREM NobodyStaysBehind == Spec => []NoGhosts
  <1>1. Inv => NoGhosts
    BY DEF Inv, Sound, Loose, Ghostless, NoGhosts, HavePlayed
  <1> QED
    BY <1>1, Invariance, PTL

-----------------------------------------------------------------------------
(***************************************************************************)
(* The rounds of a Game: whose turn it is, whose cards are on the table,   *)
(* and which task of the timer is pending.  What fails only in an order or *)
(* for an input that Adversities names is proved without that.             *)
(***************************************************************************)
(* The fields after each of the transforms.                                *)

\* What a round is, but for its table and its timer.
SameRound(g, h) ==
    /\ h.state = g.state /\ h.players = g.players /\ h.round = g.round
    /\ h.judgeIndex = g.judgeIndex /\ h.played = g.played
    /\ h.score = g.score /\ h.pick = g.pick

LEMMA JudgingFields ==
    ASSUME NEW g \in Games
    PROVE  LET h == JudgingState(g)
           IN  /\ h.state = "JUDGING" /\ h.players = g.players /\ h.round = g.round
               /\ h.judgeIndex = g.judgeIndex /\ h.played = g.played
               /\ h.score = g.score /\ h.pick = g.pick
               /\ h.timer = "warnJudge" /\ h.table = HavePlayed(g)
  BY DEF Games, JudgingState

LEMMA ResetFields ==
    ASSUME NEW g \in Games
    PROVE  LET h == ResetState(g)
           IN  /\ h.state = "LOBBY" /\ h.players = g.players /\ h.round = {}
               /\ h.judgeIndex = 0 /\ h.played = [v \in Users |-> 0]
               /\ h.score = [v \in Users |-> 0] /\ h.pick = 0
               /\ h.timer = "none" /\ h.table = {}
  BY DEF Games, ResetState, NewGame

LEMMA ReturnFields ==
    ASSUME NEW g \in Games
    PROVE  LET h == ReturnCardsToHand(g)
           IN  /\ h \in Games
               /\ h.state = g.state /\ h.players = g.players /\ h.round = g.round
               /\ h.judgeIndex = g.judgeIndex /\ h.played = [v \in Users |-> 0]
               /\ h.score = g.score /\ h.pick = g.pick
               /\ h.timer = g.timer /\ h.table = {}
  <1>1. ReturnCardsToHand(g) \in Games
    BY ReturnFacts
  <1> QED
    BY <1>1 DEF Games, ReturnCardsToHand, ClearPlayed

LEMMA PlayingFields ==
    ASSUME NEW g \in Games, NEW pick \in Picks
    PROVE  LET h == [g EXCEPT !.state = "PLAYING", !.table = {}, !.pick = pick, !.timer = "warnPlay"]
           IN  /\ h.state = "PLAYING" /\ h.timer = "warnPlay" /\ h.table = {}
               /\ h.players = g.players /\ h.score = g.score
               /\ h.judgeIndex = g.judgeIndex /\ h.played = g.played
  BY DEF Games

\* The first round of a game or the next one.
NewRound(g, h) ==
    /\ h.state = "PLAYING" /\ h.players = g.players
    /\ h.judgeIndex = NextJudgeIndex(g) /\ h.played = [v \in Users |-> 0]
    /\ h.score = g.score /\ h.timer = "warnPlay" /\ h.table = {}

LEMMA NextRoundFields ==
    ASSUME NEW g \in Games, NEW pick \in Picks, g.decks
    PROVE  NewRound(g, StartNextRound(g, pick))
  <1> DEFINE h == [g EXCEPT !.judgeIndex = NextJudgeIndex(g)]
             r == Members(h) \ {JudgeOf(h)}
             k == [h EXCEPT !.round = r]
             l == [k EXCEPT !.dealt = Members(k)]
             m == ClearPlayed(l)
             n == PlayingState(l, pick)
  <1>1. StartNextRound(g, pick) = n
    BY DEF StartNextRound, DealState
  <1>2. n = [m EXCEPT !.state = "PLAYING", !.table = {}, !.pick = pick, !.timer = "warnPlay"]
    BY DEF PlayingState
  <1>3. NextJudgeIndex(g) \in Int
    BY DEF NextJudgeIndex, Games
  <1>4. h \in Games /\ h.players = g.players /\ h.score = g.score /\ h.judgeIndex = NextJudgeIndex(g)
    BY <1>3 DEF Games
  <1> HIDE DEF h
  <1>5. r \subseteq Users
    BY <1>4, MembersType
  <1> HIDE DEF r
  <1>6. k \in Games /\ k.players = g.players /\ k.score = g.score /\ k.judgeIndex = NextJudgeIndex(g)
    BY <1>4, <1>5 DEF Games
  <1> HIDE DEF k
  <1>7. l \in Games /\ l.players = g.players /\ l.score = g.score /\ l.judgeIndex = NextJudgeIndex(g)
    BY <1>6, MembersType DEF Games
  <1> HIDE DEF l
  <1>8. /\ m \in Games /\ m.players = g.players /\ m.score = g.score
        /\ m.judgeIndex = NextJudgeIndex(g) /\ m.played = [v \in Users |-> 0]
    BY <1>7, ClearPlayedFacts
  <1> HIDE DEF m
  <1> HIDE DEF n
  <1>9. /\ n.state = "PLAYING" /\ n.timer = "warnPlay" /\ n.table = {}
         /\ n.players = m.players /\ n.score = m.score
         /\ n.judgeIndex = m.judgeIndex /\ n.played = m.played
    BY <1>2, <1>8, PlayingFields
  <1> QED
    BY <1>1, <1>8, <1>9 DEF NewRound, n

\* A Game object that has left the lobby has its decks.
LEMMA SoundFacts ==
    ASSUME NEW g, Sound(g)
    PROVE  /\ g \in Games /\ Distinct(g)
           /\ g.decks <=> g.state # "LOBBY"
           /\ g.state # "LOBBY" => Len(g.players) >= MinPlayers
           /\ g.state = "LOBBY" =>
                 /\ g.judgeIndex = 0 /\ g.pick = 0 /\ g.round = {}
                 /\ \A v \in Users : g.played[v] = 0 /\ g.score[v] = 0
  BY DEF Sound, Loose, Clean, Enough

LEMMA SkipJudgeFields ==
    ASSUME NEW g, Sound(g), NEW pick \in Picks
    PROVE  LET h == SkipIdleJudge(g, pick)
           IN  IF g.state = "JUDGING" THEN NewRound(g, h)
               ELSE SameRound(g, h) /\ h.timer = "none" /\ h.table = g.table
  <1>1. g \in Games
    BY SoundFacts
  <1>2. CASE g.state # "JUDGING"
    BY <1>1, <1>2 DEF SkipIdleJudge, KillRoundTimer, SameRound, Games
  <1>3. CASE g.state = "JUDGING"
    <2> DEFINE j == JudgeOf(g)
               h == IF j = NoUser THEN g
                    ELSE [g EXCEPT !.skips[j] = Saturated(@ + 1, MaxSkips)]
               k == ReturnCardsToHand(h)
    <2>1. SkipIdleJudge(g, pick) = StartNextRound(k, pick)
      BY <1>3 DEF SkipIdleJudge
    <2>2. /\ h \in Games /\ h.players = g.players /\ h.judgeIndex = g.judgeIndex
          /\ h.score = g.score /\ h.decks
      <3>1. CASE j = NoUser
        BY <1>1, <1>3, <3>1, SoundFacts
      <3>2. CASE j # NoUser
        <4>1. j \in Users
          BY <1>1, <3>2, SMTT(30) DEF JudgeOf, Games
        <4>2. Saturated(g.skips[j] + 1, MaxSkips) \in 0..MaxSkips
          BY <1>1, <4>1, LimitsAssumption DEF Saturated, Games
        <4> DEFINE f == [g.skips EXCEPT ![j] = Saturated(g.skips[j] + 1, MaxSkips)]
        <4>3. h = [g EXCEPT !.skips = f]
          BY <3>2
        <4>4. f \in [Users -> 0..MaxSkips]
          BY <1>1, <4>1, <4>2 DEF Games
        <4>5. g.decks
          BY <1>3, SoundFacts
        <4> HIDE DEF f
        <4> QED
          BY <1>1, <4>3, <4>4, <4>5, SkipsFacts
      <3> QED
        BY <3>1, <3>2
    <2> HIDE DEF h
    <2>3. /\ k \in Games /\ k.players = g.players /\ k.judgeIndex = g.judgeIndex
          /\ k.score = g.score /\ k.decks
      BY <2>2, ReturnFacts
    <2> HIDE DEF k
    <2>4. NewRound(k, StartNextRound(k, pick))
      BY <2>3, NextRoundFields
    <2> QED
      BY <1>3, <2>1, <2>3, <2>4 DEF NewRound, NextJudgeIndex
  <1> QED
    BY <1>2, <1>3

-----------------------------------------------------------------------------
(* removePlayer.                                                           *)

\* StartJudging, read off the two fields it counts.
AllIn(played, round, pick) ==
    /\ Cardinality({v \in Users : played[v] > 0}) = Cardinality(round)
    /\ \A v \in Users : played[v] > 0 => played[v] = pick

LEMMA StartJudgingAllIn ==
    ASSUME NEW g PROVE StartJudging(g) <=> g.state = "PLAYING" /\ AllIn(g.played, g.round, g.pick)
  BY DEF StartJudging, AllIn, HavePlayed

LEMMA DiscardFields ==
    ASSUME NEW g \in Games, NEW u \in Users
    PROVE  LET h == DiscardPlayedCardsAndHand(g, u)
           IN  /\ h \in Games
               /\ h.state = g.state /\ h.players = g.players /\ h.round = g.round
               /\ h.judgeIndex = g.judgeIndex /\ h.played = [g.played EXCEPT ![u] = 0]
               /\ h.score = g.score /\ h.pick = g.pick
               /\ h.timer = g.timer /\ h.table = g.table
  <1> DEFINE k == Untrack(g, u)
             h == DiscardPlayedCardsAndHand(g, u)
  <1>1. /\ k \in Games
        /\ k.state = g.state /\ k.players = g.players /\ k.round = g.round
        /\ k.judgeIndex = g.judgeIndex /\ k.played = [g.played EXCEPT ![u] = 0]
        /\ k.score = g.score /\ k.pick = g.pick
    BY UntrackFacts
  <1>2. k.timer = g.timer /\ k.table = g.table
    BY DEF Untrack, Games
  <1>3. h = [k EXCEPT !.dealt = @ \ {u}]
    BY DEF DiscardPlayedCardsAndHand
  <1> HIDE DEF k, h
  <1>4. h \in Games /\ SameRound(k, h) /\ h.timer = k.timer /\ h.table = k.table
    BY <1>1, <1>3 DEF Games, SameRound
  <1> QED
    BY <1>1, <1>2, <1>4 DEF SameRound, h

LEMMA LeaveRoundFields ==
    ASSUME NEW g \in Games, NEW u \in Users
    PROVE  LET h == LeaveRound(g, u)
           IN  /\ h \in Games
               /\ h.players = g.players /\ h.round = g.round \ {u}
               /\ h.judgeIndex = g.judgeIndex /\ h.played = g.played
               /\ h.score = g.score /\ h.pick = g.pick
               /\ \/ h.state = g.state /\ h.timer = g.timer /\ h.table = g.table
                  \/ /\ h.state = "JUDGING" /\ h.timer = "warnJudge"
                     /\ u \in g.round /\ g.state = "PLAYING"
                     /\ AllIn(g.played, g.round \ {u}, g.pick)
  <1> DEFINE k == [g EXCEPT !.round = @ \ {u}]
  <1>1. /\ k \in Games
        /\ k.state = g.state /\ k.players = g.players /\ k.round = g.round \ {u}
        /\ k.judgeIndex = g.judgeIndex /\ k.played = g.played
        /\ k.score = g.score /\ k.pick = g.pick /\ k.timer = g.timer /\ k.table = g.table
    BY DEF Games
  <1>2. LeaveRound(g, u) = IF u \in g.round /\ StartJudging(k) THEN JudgingState(k) ELSE k
    BY DEF LeaveRound
  <1> HIDE DEF k
  <1>3. CASE u \in g.round /\ StartJudging(k)
    <2> DEFINE h == JudgingState(k)
    <2>1. /\ h \in Games
          /\ h.state = "JUDGING" /\ h.players = k.players /\ h.round = k.round
          /\ h.judgeIndex = k.judgeIndex /\ h.played = k.played
          /\ h.score = k.score /\ h.pick = k.pick /\ h.timer = "warnJudge"
      BY <1>1, JudgingFacts, JudgingFields
    <2>2. k.state = "PLAYING" /\ AllIn(k.played, k.round, k.pick)
      BY <1>3, StartJudgingAllIn
    <2>3. LeaveRound(g, u) = h
      BY <1>2, <1>3
    <2> HIDE DEF h
    <2> QED
      BY <1>1, <1>3, <2>1, <2>2, <2>3
  <1>4. CASE ~(u \in g.round /\ StartJudging(k))
    BY <1>1, <1>2, <1>4
  <1> QED
    BY <1>3, <1>4

LEMMA JudgeIndexFields ==
    ASSUME NEW g \in Games
    PROVE  LET h == [g EXCEPT !.judgeIndex = g.judgeIndex - 1]
           IN  /\ h \in Games
               /\ h.state = g.state /\ h.players = g.players /\ h.round = g.round
               /\ h.judgeIndex = g.judgeIndex - 1 /\ h.played = g.played
               /\ h.score = g.score /\ h.pick = g.pick
               /\ h.timer = g.timer /\ h.table = g.table
  <1> DEFINE d == g.judgeIndex - 1
             h == [g EXCEPT !.judgeIndex = d]
  <1>1. d \in Int
    BY DEF Games
  <1> HIDE DEF d
  <1>2. /\ h \in Games
        /\ h.state = g.state /\ h.players = g.players /\ h.round = g.round
        /\ h.judgeIndex = d /\ h.played = g.played
        /\ h.score = g.score /\ h.pick = g.pick
        /\ h.timer = g.timer /\ h.table = g.table
    BY <1>1 DEF Games
  <1> QED
    BY <1>2 DEF d

LEMMA HandleJudgeFields ==
    ASSUME NEW g \in Games, NEW u \in Users
    PROVE  LET h == HandleJudgeOnRemoval(g, u)
           IN  /\ h \in Games
               /\ h.state = g.state /\ h.players = g.players /\ h.round = g.round
               /\ h.score = g.score /\ h.pick = g.pick /\ h.timer = g.timer
               /\ IF JudgeLeaves(g, u)
                  THEN /\ h.judgeIndex = g.judgeIndex - 1 /\ h.table = {}
                       /\ h.played = [v \in Users |-> 0]
                  ELSE /\ h.judgeIndex = (IF Position(g, u) - 1 < g.judgeIndex
                                          THEN g.judgeIndex - 1 ELSE g.judgeIndex)
                       /\ h.table = g.table /\ h.played = g.played
  <1> DEFINE h == HandleJudgeOnRemoval(g, u)
             k == ReturnCardsToHand(g)
  <1>1. CASE JudgeLeaves(g, u)
    <2>1. h = [k EXCEPT !.judgeIndex = k.judgeIndex - 1]
      BY <1>1 DEF HandleJudgeOnRemoval
    <2>2. /\ k \in Games
          /\ k.state = g.state /\ k.players = g.players /\ k.round = g.round
          /\ k.judgeIndex = g.judgeIndex /\ k.played = [v \in Users |-> 0]
          /\ k.score = g.score /\ k.pick = g.pick /\ k.timer = g.timer /\ k.table = {}
      BY ReturnFields
    <2> HIDE DEF h, k
    <2>3. /\ h \in Games
          /\ h.state = k.state /\ h.players = k.players /\ h.round = k.round
          /\ h.judgeIndex = k.judgeIndex - 1 /\ h.played = k.played
          /\ h.score = k.score /\ h.pick = k.pick /\ h.timer = k.timer /\ h.table = k.table
      BY <2>1, <2>2, JudgeIndexFields
    <2> QED
      BY <1>1, <2>2, <2>3 DEF h
  <1>2. CASE ~JudgeLeaves(g, u) /\ Position(g, u) - 1 < g.judgeIndex
    <2>1. h = [g EXCEPT !.judgeIndex = g.judgeIndex - 1]
      BY <1>2 DEF HandleJudgeOnRemoval
    <2> HIDE DEF h
    <2>2. /\ h \in Games
          /\ h.state = g.state /\ h.players = g.players /\ h.round = g.round
          /\ h.judgeIndex = g.judgeIndex - 1 /\ h.played = g.played
          /\ h.score = g.score /\ h.pick = g.pick /\ h.timer = g.timer /\ h.table = g.table
      BY <2>1, JudgeIndexFields
    <2> QED
      BY <1>2, <2>2 DEF h
  <1>3. CASE ~JudgeLeaves(g, u) /\ ~(Position(g, u) - 1 < g.judgeIndex)
    <2>1. h = g
      BY <1>3 DEF HandleJudgeOnRemoval
    <2> HIDE DEF h
    <2> QED
      BY <1>3, <2>1 DEF h
  <1> QED
    BY <1>1, <1>2, <1>3

LEMMA TakeFields ==
    ASSUME NEW g \in Games, Distinct(g), NEW u \in Members(g)
    PROVE  LET h == TakeFromList(g, u)
           IN  /\ h \in Games
               /\ h.players = Without(g, u) /\ h.score = [g.score EXCEPT ![u] = 0]
               /\ h.state = g.state /\ h.round = g.round /\ h.judgeIndex = g.judgeIndex
               /\ h.played = g.played /\ h.pick = g.pick
               /\ h.timer = g.timer /\ h.table = g.table
  <1> DEFINE rest == Without(g, u)
             sc == [g.score EXCEPT ![u] = 0]
             sk == [g.skips EXCEPT ![u] = 0]
             h == TakeFromList(g, u)
  <1>1. rest \in Seq(Users)
    BY WithoutFacts
  <1>2. sc \in [Users -> 0..ScoreGoal] /\ sk \in [Users -> 0..MaxSkips]
    <2>1. g.score \in [Users -> 0..ScoreGoal] /\ g.skips \in [Users -> 0..MaxSkips]
      BY DEF Games
    <2>2. u \in Users /\ 0 \in 0..ScoreGoal /\ 0 \in 0..MaxSkips
      BY MembersType, LimitsAssumption
    <2> QED
      BY <2>1, <2>2
  <1>3. h = [g EXCEPT !.players = rest, !.score = sc, !.skips = sk]
    BY DEF TakeFromList, Games
  <1> HIDE DEF rest, sc, sk, h
  <1>4. /\ h \in Games
        /\ h.players = rest /\ h.score = sc
        /\ h.state = g.state /\ h.round = g.round /\ h.judgeIndex = g.judgeIndex
        /\ h.played = g.played /\ h.pick = g.pick
        /\ h.timer = g.timer /\ h.table = g.table
    BY <1>1, <1>2, <1>3 DEF Games
  <1> QED
    BY <1>4 DEF rest, sc, h

LEMMA CountFields ==
    ASSUME NEW g \in Games, NEW wasJudge \in BOOLEAN
    PROVE  LET h == HandlePlayerCountAfterRemoval(g, wasJudge)
           IN  \/ g.state # "LOBBY" /\ h.state = "LOBBY" /\ h.timer = "none"
               \/ /\ SameRound(g, h) /\ h.table = g.table
                  /\ h.timer = IF wasJudge THEN "nextRound" ELSE g.timer
  <1> DEFINE h == IF g.players = <<>> THEN [g EXCEPT !.spectators = {}] ELSE g
             t == [h EXCEPT !.timer = "nextRound"]
             r == HandlePlayerCountAfterRemoval(g, wasJudge)
  <1>1. h \in Games /\ SameRound(g, h) /\ h.table = g.table /\ h.timer = g.timer
    <2>1. CASE g.players = <<>>
      BY <2>1 DEF Games, SameRound
    <2>2. CASE g.players # <<>>
      BY <2>2 DEF SameRound
    <2> QED
      BY <2>1, <2>2
  <1>2. r = IF Len(h.players) < MinPlayers /\ h.state # "LOBBY" THEN ResetState(h)
            ELSE IF wasJudge THEN t ELSE h
    BY DEF HandlePlayerCountAfterRemoval
  <1> HIDE DEF h
  <1>3. SameRound(h, t) /\ t.table = h.table /\ t.timer = "nextRound"
    BY <1>1 DEF Games, SameRound
  <1> HIDE DEF t, r
  <1>4. CASE Len(h.players) < MinPlayers /\ h.state # "LOBBY"
    BY <1>1, <1>2, <1>4, ResetFields DEF SameRound, r
  <1>5. CASE ~(Len(h.players) < MinPlayers /\ h.state # "LOBBY")
    BY <1>1, <1>2, <1>3, <1>5 DEF SameRound, r
  <1> QED
    BY <1>4, <1>5

\* u has left g, which has become h and goes on.
GoesOnWithout(g, u, h) ==
    /\ h.players = Without(g, u) /\ h.round = g.round \ {u}
    /\ h.score = [g.score EXCEPT ![u] = 0] /\ h.pick = g.pick
    /\ \/ h.state = g.state
       \/ /\ h.state = "JUDGING" /\ g.state = "PLAYING" /\ u \in g.round
          /\ AllIn([g.played EXCEPT ![u] = 0], g.round \ {u}, g.pick)
    /\ IF JudgeLeaves(g, u)
       THEN /\ h.judgeIndex = g.judgeIndex - 1 /\ h.played = [v \in Users |-> 0]
            /\ h.timer = "nextRound" /\ h.table = {}
       ELSE /\ h.judgeIndex = (IF Position(g, u) - 1 < g.judgeIndex
                               THEN g.judgeIndex - 1 ELSE g.judgeIndex)
            /\ h.played = [g.played EXCEPT ![u] = 0]
            /\ \/ h.state = g.state /\ h.timer = g.timer /\ h.table = g.table
               \/ h.state = "JUDGING" /\ h.timer = "warnJudge"

LEMMA RemovalFields ==
    ASSUME NEW g, Sound(g), NEW u \in Members(g)
    PROVE  LET h == RemovePlayer(g, u)
           IN  \/ g.state # "LOBBY" /\ h.state = "LOBBY" /\ h.timer = "none"
               \/ GoesOnWithout(g, u, h)
  <1> DEFINE a == DiscardPlayedCardsAndHand(g, u)
             b == LeaveRound(a, u)
             c == HandleJudgeOnRemoval(b, u)
             d == TakeFromList(c, u)
             h == HandlePlayerCountAfterRemoval(d, JudgeLeaves(b, u))
  <1>1. RemovePlayer(g, u) = h
    BY DEF RemovePlayer
  <1>2. g \in Games /\ Distinct(g) /\ u \in Users
    BY SoundFacts, MembersType
  <1>3. /\ a \in Games
        /\ a.state = g.state /\ a.players = g.players /\ a.round = g.round
        /\ a.judgeIndex = g.judgeIndex /\ a.played = [g.played EXCEPT ![u] = 0]
        /\ a.score = g.score /\ a.pick = g.pick /\ a.timer = g.timer /\ a.table = g.table
    BY <1>2, DiscardFields
  <1> HIDE DEF a
  <1>4. /\ b \in Games
        /\ b.players = a.players /\ b.round = a.round \ {u}
        /\ b.judgeIndex = a.judgeIndex /\ b.played = a.played
        /\ b.score = a.score /\ b.pick = a.pick
        /\ \/ b.state = a.state /\ b.timer = a.timer /\ b.table = a.table
           \/ /\ b.state = "JUDGING" /\ b.timer = "warnJudge"
              /\ u \in a.round /\ a.state = "PLAYING"
              /\ AllIn(a.played, a.round \ {u}, a.pick)
    BY <1>2, <1>3, LeaveRoundFields
  <1> HIDE DEF b
  <1>5. JudgeLeaves(b, u) = JudgeLeaves(g, u) /\ Position(b, u) = Position(g, u)
    BY <1>3, <1>4 DEF JudgeLeaves, JudgeOf, Position
  <1>6. /\ c \in Games
        /\ c.state = b.state /\ c.players = b.players /\ c.round = b.round
        /\ c.score = b.score /\ c.pick = b.pick /\ c.timer = b.timer
        /\ IF JudgeLeaves(g, u)
           THEN /\ c.judgeIndex = b.judgeIndex - 1 /\ c.table = {}
                /\ c.played = [v \in Users |-> 0]
           ELSE /\ c.judgeIndex = (IF Position(g, u) - 1 < b.judgeIndex
                                   THEN b.judgeIndex - 1 ELSE b.judgeIndex)
                /\ c.table = b.table /\ c.played = b.played
    BY <1>2, <1>4, <1>5, HandleJudgeFields
  <1> HIDE DEF c
  <1>7. Distinct(c) /\ u \in Members(c) /\ Without(c, u) = Without(g, u)
    BY <1>2, <1>3, <1>4, <1>6 DEF Distinct, Members, Without, Position
  <1>8. /\ d \in Games
        /\ d.players = Without(g, u) /\ d.score = [c.score EXCEPT ![u] = 0]
        /\ d.state = c.state /\ d.round = c.round /\ d.judgeIndex = c.judgeIndex
        /\ d.played = c.played /\ d.pick = c.pick
        /\ d.timer = c.timer /\ d.table = c.table
    BY <1>6, <1>7, TakeFields
  <1> HIDE DEF d
  <1>9. JudgeLeaves(b, u) \in BOOLEAN
    BY DEF JudgeLeaves
  <1>10. \/ d.state # "LOBBY" /\ h.state = "LOBBY" /\ h.timer = "none"
         \/ /\ SameRound(d, h) /\ h.table = d.table
            /\ h.timer = IF JudgeLeaves(g, u) THEN "nextRound" ELSE d.timer
    BY <1>5, <1>8, <1>9, CountFields
  <1> HIDE DEF h
  <1>11. CASE d.state # "LOBBY" /\ h.state = "LOBBY" /\ h.timer = "none"
    BY <1>1, <1>3, <1>4, <1>6, <1>8, <1>11
  <1>12. CASE /\ SameRound(d, h) /\ h.table = d.table
              /\ h.timer = IF JudgeLeaves(g, u) THEN "nextRound" ELSE d.timer
    <2>1. /\ h.players = Without(g, u) /\ h.round = g.round \ {u}
          /\ h.score = [g.score EXCEPT ![u] = 0] /\ h.pick = g.pick
      BY <1>3, <1>4, <1>6, <1>8, <1>12 DEF SameRound
    <2>2. \/ h.state = g.state
          \/ /\ h.state = "JUDGING" /\ g.state = "PLAYING" /\ u \in g.round
             /\ AllIn([g.played EXCEPT ![u] = 0], g.round \ {u}, g.pick)
      BY <1>3, <1>4, <1>6, <1>8, <1>12 DEF SameRound
    <2>3. CASE JudgeLeaves(g, u)
      BY <1>1, <1>3, <1>4, <1>6, <1>8, <1>12, <2>1, <2>2, <2>3 DEF SameRound, GoesOnWithout
    <2>4. CASE ~JudgeLeaves(g, u)
      BY <1>1, <1>3, <1>4, <1>6, <1>8, <1>12, <2>1, <2>2, <2>4 DEF SameRound, GoesOnWithout
    <2> QED
      BY <2>3, <2>4
  <1> QED
    BY <1>10, <1>11, <1>12

-----------------------------------------------------------------------------
(* Playing, judging and skipping.                                          *)

\* Nothing but who was skipped, who watches and who holds a hand.
Unmoved(g, h) == SameRound(g, h) /\ h.timer = g.timer /\ h.table = g.table

\* u's cards or the lack of them may have been what judging waited for.
JudgingOrWaits(g, h) ==
    \/ h.state = g.state /\ h.timer = g.timer /\ h.table = g.table
    \/ h.state = "JUDGING" /\ h.timer = "warnJudge" /\ AllIn(h.played, h.round, h.pick)

LEMMA ForgiveFields ==
    ASSUME NEW g \in Games, NEW u \in Users
    PROVE  LET h == [g EXCEPT !.skips[u] = 0]
           IN  /\ h \in Games /\ Unmoved(g, h)
               /\ h.dealt = g.dealt /\ h.orphans = g.orphans
  <1> DEFINE f == [g.skips EXCEPT ![u] = 0]
             h == [g EXCEPT !.skips = f]
  <1>1. g.skips \in [Users -> 0..MaxSkips] /\ 0 \in 0..MaxSkips
    BY LimitsAssumption DEF Games
  <1>2. f \in [Users -> 0..MaxSkips]
    BY <1>1
  <1>3. [g EXCEPT !.skips[u] = 0] = h
    BY DEF Games
  <1> HIDE DEF f
  <1>4. /\ h \in Games /\ h.state = g.state /\ h.players = g.players /\ h.round = g.round
        /\ h.judgeIndex = g.judgeIndex /\ h.played = g.played
        /\ h.score = g.score /\ h.pick = g.pick /\ h.timer = g.timer /\ h.table = g.table
        /\ h.dealt = g.dealt /\ h.orphans = g.orphans
    BY <1>2 DEF Games
  <1> HIDE DEF h
  <1> QED
    BY <1>3, <1>4 DEF Unmoved, SameRound

\* u has played a card.
Plays(g, u, h) ==
    /\ MayPlay(g, u)
    /\ h.players = g.players /\ h.round = g.round /\ h.judgeIndex = g.judgeIndex
    /\ h.score = g.score /\ h.pick = g.pick
    /\ h.played = [g.played EXCEPT ![u] = g.played[u] + 1]
    /\ JudgingOrWaits(g, h)

LEMMA PlayFields ==
    ASSUME NEW g, Sound(g), NEW u \in Users
    PROVE  LET h == PlayCard(g, u) IN Unmoved(g, h) \/ Plays(g, u, h)
  <1> DEFINE h == [g EXCEPT !.skips[u] = 0]
             k == [h EXCEPT !.played[u] = @ + 1]
  <1>1. g \in Games
    BY SoundFacts
  <1>2. h \in Games /\ Unmoved(g, h) /\ h.dealt = g.dealt
    BY <1>1, ForgiveFields
  <1>3. PlayCard(g, u) = IF ~MayPlay(h, u) THEN h
                         ELSE IF StartJudging(k) THEN JudgingState(k) ELSE k
    BY DEF PlayCard
  <1> HIDE DEF h
  <1>4. MayPlay(h, u) <=> MayPlay(g, u)
    BY <1>2 DEF Unmoved, SameRound, MayPlay, JudgeOf
  <1>5. CASE ~MayPlay(h, u)
    BY <1>2, <1>3, <1>5
  <1>6. CASE MayPlay(h, u)
    <2> DEFINE f == [h.played EXCEPT ![u] = h.played[u] + 1]
    <2>1. f \in [Users -> Nat]
      BY <1>2 DEF Games
    <2>2. k = [h EXCEPT !.played = f]
      BY <1>2 DEF Games
    <2> HIDE DEF f, k
    <2>3. /\ k \in Games
          /\ k.state = h.state /\ k.players = h.players /\ k.round = h.round
          /\ k.judgeIndex = h.judgeIndex /\ k.played = f
          /\ k.score = h.score /\ k.pick = h.pick /\ k.timer = h.timer /\ k.table = h.table
      BY <1>2, <2>1, <2>2 DEF Games
    <2>4. f = [g.played EXCEPT ![u] = g.played[u] + 1]
      BY <1>2 DEF Unmoved, SameRound, f
    <2>5. CASE StartJudging(k)
      <3>1. PlayCard(g, u) = JudgingState(k)
        BY <1>3, <1>6, <2>5
      <3> DEFINE j == JudgingState(k)
      <3>2. /\ j.state = "JUDGING" /\ j.players = k.players /\ j.round = k.round
            /\ j.judgeIndex = k.judgeIndex /\ j.played = k.played
            /\ j.score = k.score /\ j.pick = k.pick /\ j.timer = "warnJudge"
        BY <2>3, JudgingFields
      <3>3. AllIn(k.played, k.round, k.pick)
        BY <2>5, StartJudgingAllIn
      <3> HIDE DEF j
      <3>4. Plays(g, u, j)
        BY <1>2, <1>4, <1>6, <2>3, <2>4, <3>2, <3>3 DEF Unmoved, SameRound, Plays, JudgingOrWaits
      <3> QED
        BY <3>1, <3>4 DEF j
    <2>6. CASE ~StartJudging(k)
      <3>1. PlayCard(g, u) = k
        BY <1>3, <1>6, <2>6
      <3>2. Plays(g, u, k)
        BY <1>2, <1>4, <1>6, <2>3, <2>4 DEF Unmoved, SameRound, Plays, JudgingOrWaits
      <3> QED
        BY <3>1, <3>2
    <2> QED
      BY <2>5, <2>6
  <1> QED
    BY <1>5, <1>6

\* The round is decided for u, who may have left in the meantime.
Decides(g, j, u, h) ==
    /\ MayJudge(g, j) /\ h.state = "ROUND_OVER" /\ h.table = {}
    /\ h.players = g.players /\ h.round = g.round /\ h.judgeIndex = g.judgeIndex
    /\ h.played = g.played /\ h.pick = g.pick
    /\ \A v \in Users : v # u => h.score[v] = g.score[v]
    /\ IF g.played[u] > 0 THEN h.timer = AfterRound(h, u)
       ELSE u \in g.orphans /\ h.timer = g.timer

LEMMA JudgeFields ==
    ASSUME NEW g, Sound(g), NEW j \in Users, NEW u \in Users
    PROVE  LET h == JudgeCard(g, j, u) IN Unmoved(g, h) \/ Decides(g, j, u, h)
  <1> DEFINE h == IF j \in Members(g) THEN [g EXCEPT !.skips[j] = 0] ELSE g
             f == [h.score EXCEPT ![u] = IF u \in g.dealt
                      THEN Saturated(h.score[u] + 1, ScoreGoal) ELSE h.score[u]]
             won == [h EXCEPT !.score[u] = IF u \in g.dealt
                        THEN Saturated(@ + 1, ScoreGoal) ELSE @,
                              !.state = "ROUND_OVER", !.table = {}]
             t == [won EXCEPT !.timer = AfterRound(won, u)]
  <1>1. g \in Games
    BY SoundFacts
  <1>2. h \in Games /\ Unmoved(g, h)
    <2>1. CASE j \in Members(g)
      BY <1>1, <2>1, ForgiveFields
    <2>2. CASE j \notin Members(g)
      BY <1>1, <2>2 DEF Unmoved, SameRound
    <2> QED
      BY <2>1, <2>2
  <1>3. JudgeCard(g, j, u) = IF ~MayJudge(g, j) THEN g
                             ELSE IF g.played[u] > 0 THEN t
                             ELSE IF u \in g.orphans THEN won ELSE h
    BY DEF JudgeCard
  <1> HIDE DEF h
  <1>4. Unmoved(g, g)
    BY DEF Unmoved, SameRound
  <1>5. CASE MayJudge(g, j)
    <2>1. h.score \in [Users -> 0..ScoreGoal]
      BY <1>2 DEF Games
    <2>2. Saturated(h.score[u] + 1, ScoreGoal) \in 0..ScoreGoal
      BY <2>1, LimitsAssumption DEF Saturated
    <2>3. f \in [Users -> 0..ScoreGoal] /\ \A v \in Users : v # u => f[v] = h.score[v]
      BY <2>1, <2>2
    <2>4. won = [h EXCEPT !.score = f, !.state = "ROUND_OVER", !.table = {}]
      BY <1>2 DEF Games
    <2> HIDE DEF f, won
    <2>5. /\ won \in Games /\ won.state = "ROUND_OVER" /\ won.table = {}
          /\ won.players = h.players /\ won.round = h.round /\ won.judgeIndex = h.judgeIndex
          /\ won.played = h.played /\ won.pick = h.pick /\ won.score = f /\ won.timer = h.timer
      BY <1>2, <2>3, <2>4 DEF Games, States
    <2>6. /\ t.state = won.state /\ t.table = won.table
          /\ t.players = won.players /\ t.round = won.round /\ t.judgeIndex = won.judgeIndex
          /\ t.played = won.played /\ t.pick = won.pick /\ t.score = won.score
          /\ t.timer = AfterRound(won, u)
      BY <2>5 DEF Games
    <2> HIDE DEF t
    <2>7. AfterRound(t, u) = AfterRound(won, u)
      BY <2>6 DEF AfterRound
    <2>8. g.played[u] > 0 => Decides(g, j, u, t)
      BY <1>2, <1>5, <2>3, <2>5, <2>6, <2>7 DEF Unmoved, SameRound, Decides
    <2>9. ~(g.played[u] > 0) /\ u \in g.orphans => Decides(g, j, u, won)
      BY <1>2, <1>5, <2>3, <2>5 DEF Unmoved, SameRound, Decides
    <2> QED
      BY <1>2, <1>3, <1>5, <2>8, <2>9
  <1> QED
    BY <1>3, <1>4, <1>5

\* u is out of this round, for what it owes.
Sits(g, u, h) ==
    /\ g.state = "PLAYING" /\ u \in g.round /\ h.round = g.round \ {u}
    /\ h.players = g.players /\ h.judgeIndex = g.judgeIndex
    /\ h.score = g.score /\ h.pick = g.pick /\ h.played = [g.played EXCEPT ![u] = 0]
    /\ JudgingOrWaits(g, h)

LEMMA SkipFields ==
    ASSUME NEW g, Sound(g), NEW u \in Users, NEW pick \in Picks
    PROVE  LET h == SkipPlayer(g, u, pick)
           IN  \/ Unmoved(g, h)
               \/ /\ u = JudgeOf(g) /\ g.state # "JUDGING"
                  /\ SameRound(g, h) /\ h.timer = "none" /\ h.table = g.table
               \/ g.state \in {"PLAYING", "JUDGING"} /\ NewRound(g, h)
               \/ Sits(g, u, h)
  <1> DEFINE k == Untrack(g, u)
             h == [k EXCEPT !.round = @ \ {u}]
             r == ReturnCardsToHand(h)
  <1>1. g \in Games
    BY SoundFacts
  <1>2. /\ k \in Games /\ k.state = g.state /\ k.players = g.players /\ k.round = g.round
        /\ k.judgeIndex = g.judgeIndex /\ k.played = [g.played EXCEPT ![u] = 0]
        /\ k.score = g.score /\ k.pick = g.pick /\ k.decks = g.decks
    BY <1>1, UntrackFacts
  <1>3. k.timer = g.timer /\ k.table = g.table
    BY <1>1 DEF Untrack, Games
  <1>4. SkipPlayer(g, u, pick) =
          IF u \notin Members(g) THEN g
          ELSE IF u = JudgeOf(g) THEN SkipIdleJudge(g, pick)
          ELSE IF g.state # "PLAYING" \/ g.played[u] >= g.pick \/ u \notin g.round
               THEN g
          ELSE IF StartJudging(h) THEN JudgingState(h)
          ELSE IF Cardinality(h.round) < 2 THEN StartNextRound(r, pick)
          ELSE h
    BY DEF SkipPlayer
  <1> HIDE DEF k
  <1>5. /\ h \in Games /\ h.state = g.state /\ h.players = g.players
        /\ h.round = g.round \ {u} /\ h.judgeIndex = g.judgeIndex
        /\ h.played = [g.played EXCEPT ![u] = 0]
        /\ h.score = g.score /\ h.pick = g.pick /\ h.decks = g.decks
        /\ h.timer = g.timer /\ h.table = g.table
    BY <1>2, <1>3 DEF Games
  <1> HIDE DEF h
  <1>6. Unmoved(g, g)
    BY DEF Unmoved, SameRound
  <1>7. CASE u = JudgeOf(g)
    BY <1>4, <1>6, <1>7, SkipJudgeFields
  <1>8. CASE g.state = "PLAYING" /\ u \in g.round
    <2>1. StartJudging(h) => Sits(g, u, JudgingState(h))
      <3> DEFINE j == JudgingState(h)
      <3>1. /\ j.state = "JUDGING" /\ j.players = h.players /\ j.round = h.round
            /\ j.judgeIndex = h.judgeIndex /\ j.played = h.played
            /\ j.score = h.score /\ j.pick = h.pick /\ j.timer = "warnJudge"
        BY <1>5, JudgingFields
      <3>2. StartJudging(h) => AllIn(h.played, h.round, h.pick)
        BY StartJudgingAllIn
      <3> HIDE DEF j
      <3>3. StartJudging(h) => Sits(g, u, j)
        BY <1>5, <1>8, <3>1, <3>2 DEF Sits, JudgingOrWaits
      <3> QED
        BY <3>3 DEF j
    <2>2. NewRound(g, StartNextRound(r, pick))
      <3>1. /\ r \in Games /\ r.players = g.players /\ r.judgeIndex = g.judgeIndex
            /\ r.score = g.score /\ r.decks = g.decks
        BY <1>5, ReturnFacts
      <3>2. g.decks
        BY <1>8, SoundFacts
      <3> HIDE DEF r
      <3>3. NewRound(r, StartNextRound(r, pick))
        BY <3>1, <3>2, NextRoundFields
      <3> QED
        BY <3>1, <3>3 DEF NewRound, NextJudgeIndex
    <2>3. Sits(g, u, h)
      BY <1>5, <1>8 DEF Sits, JudgingOrWaits
    <2> QED
      BY <1>4, <1>6, <1>7, <1>8, <2>1, <2>2, <2>3
  <1>9. CASE u # JudgeOf(g) /\ ~(g.state = "PLAYING" /\ u \in g.round)
    BY <1>4, <1>6, <1>9
  <1> QED
    BY <1>7, <1>8, <1>9

\* The scan of skipIdlePlayers: the cards of those that owe some go back.
Scans(g, h) ==
    /\ h.state = g.state /\ h.players = g.players /\ h.round = g.round
    /\ h.judgeIndex = g.judgeIndex /\ h.score = g.score /\ h.pick = g.pick
    /\ h.played = [v \in Users |-> IF v \in IdlePlayers(g) THEN 0 ELSE g.played[v]]
    /\ h.timer = "none" /\ h.table = g.table

LEMMA ScanFields == ASSUME NEW g, Sound(g) PROVE Scans(g, SkipIdlePlayers(g))
  <1> DEFINE k == KillRoundTimer(g)
             f == [v \in Users |-> IF v \in IdlePlayers(g)
                                   THEN Saturated(g.skips[v] + 1, MaxSkips)
                                   ELSE g.skips[v]]
             p == [v \in Users |-> IF v \in IdlePlayers(g) THEN 0 ELSE g.played[v]]
             o == k.orphans \cup {v \in IdlePlayers(g) : g.played[v] > 1}
             h == SkipIdlePlayers(g)
  <1>1. g \in Games
    BY SoundFacts
  <1>2. /\ k \in Games
        /\ k.state = g.state /\ k.players = g.players /\ k.round = g.round
        /\ k.judgeIndex = g.judgeIndex /\ k.score = g.score /\ k.pick = g.pick
        /\ k.timer = "none" /\ k.table = g.table
    BY <1>1 DEF KillRoundTimer, Games
  <1>3. h = [k EXCEPT !.skips = f, !.played = p, !.orphans = o]
    BY <1>2 DEF SkipIdlePlayers, Games
  <1> HIDE DEF k, f, p, o, h
  <1>4. /\ h.state = k.state /\ h.players = k.players /\ h.round = k.round
        /\ h.judgeIndex = k.judgeIndex /\ h.score = k.score /\ h.pick = k.pick
        /\ h.played = p /\ h.timer = k.timer /\ h.table = k.table
    BY <1>2, <1>3 DEF Games
  <1> QED
    BY <1>2, <1>4 DEF Scans, p, h

Judges(g, h) ==
    /\ h.state = "JUDGING" /\ h.timer = "warnJudge"
    /\ h.players = g.players /\ h.round = g.round
    /\ h.judgeIndex = g.judgeIndex /\ h.played = g.played
    /\ h.score = g.score /\ h.pick = g.pick

\* The decision at the end of skipIdlePlayers.
LEMMA EndFields ==
    ASSUME NEW g, Sound(g), NEW any \in BOOLEAN
    PROVE  LET h == ResetOrJudgeAfterIdleSkip(g, any)
           IN  \/ g.state # "PLAYING" /\ any /\ h = g
               \/ h.state = "LOBBY" /\ h.timer = "none"
               \/ (g.state = "PLAYING" \/ ~any) /\ g.state # "LOBBY" /\ Judges(g, h)
  <1>1. g \in Games
    BY SoundFacts
  <1>2. ASSUME ~(Cardinality(HavePlayed(g)) < 2)
        PROVE  g.state # "LOBBY"
    <2>1. HavePlayed(g) # {}
      BY <1>2, FS_EmptySet
    <2>2. PICK u \in Users : g.played[u] > 0
      BY <2>1 DEF HavePlayed
    <2> QED
      BY <2>2, SoundFacts
  <1> QED
    BY <1>1, <1>2, ResetFields, JudgingFields DEF ResetOrJudgeAfterIdleSkip, Judges

-----------------------------------------------------------------------------
(* What each action does to the fields.                                    *)

Joins(g, u, h) ==
    /\ h.players = Append(g.players, u)
    /\ h.state = g.state /\ h.round = g.round /\ h.judgeIndex = g.judgeIndex
    /\ h.played = g.played /\ h.score = g.score /\ h.pick = g.pick
    /\ h.timer = g.timer /\ h.table = g.table

Opens(g, h) ==
    /\ g.state = "LOBBY" /\ h.state = "PLAYING" /\ h.players = g.players
    /\ h.judgeIndex \in 0 .. Len(g.players) - 1 /\ h.played = [v \in Users |-> 0]
    /\ h.score = g.score /\ h.timer = "warnPlay" /\ h.table = {}

InLobby(h) == h.state = "LOBBY" /\ h.timer = "none"

Silences(g, h) == SameRound(g, h) /\ h.timer = "none" /\ h.table = g.table

RequestMove(g, h) ==
    \/ InLobby(h)
    \/ Unmoved(g, h)
    \/ Opens(g, h)
    \/ Silences(g, h) /\ g.state # "JUDGING" /\ "earlySkip" \in Adversities
    \/ g.state \in {"PLAYING", "JUDGING"} /\ NewRound(g, h)
    \/ \E u \in Users : Joins(g, u, h)
    \/ \E u \in Members(g) : GoesOnWithout(g, u, h)
    \/ \E u \in Users : Plays(g, u, h) /\ (u \in g.round \/ "skippedPlay" \in Adversities)
    \/ \E u \in Users : Sits(g, u, h)
    \/ \E j, u \in Users :
          /\ Decides(g, j, u, h) /\ u \in g.table
          /\ g.played[u] > 0 \/ "binderPick" \in Adversities
          /\ j \in Members(g) \/ "spectatorPicks" \in Adversities

LEMMA NextJudgeIndexRange ==
    ASSUME NEW g, g.players \in Seq(Users), Len(g.players) >= MinPlayers, g.judgeIndex \in Int,
           g.judgeIndex >= -1
    PROVE  NextJudgeIndex(g) \in 0 .. Len(g.players) - 1
  BY DEF NextJudgeIndex, MinPlayers

\* A removal resets the game, goes on, or finds nobody to remove.
LEMMA RemovalMoves ==
    ASSUME NEW g, Sound(g), NEW u \in Users, NEW h, h = RemovePlayer(g, u)
    PROVE  \/ u \in Members(g) /\ g.state # "LOBBY" /\ InLobby(h)
           \/ u \in Members(g) /\ GoesOnWithout(g, u, h)
           \/ u \notin Members(g) /\ h = g
  <1>1. CASE u \in Members(g)
    BY <1>1, RemovalFields DEF InLobby
  <1>2. CASE u \notin Members(g)
    BY <1>2 DEF RemovePlayer
  <1> QED
    BY <1>1, <1>2

LEMMA RequestMoves == ASSUME Inv, Request PROVE RequestMove(game, game')
  <1>1. Sound(game) /\ game \in Games
    BY SoundFacts DEF Inv
  <1>2. ASSUME NEW u \in Users, CreateGame(u) PROVE InLobby(game')
    BY <1>2 DEF CreateGame, InLobby, NewGame
  <1>3. ASSUME NEW u \in Users, AddPlayer(u) PROVE Joins(game, u, game')
    <2>1. Append(game.players, u) \in Seq(Users)
      BY <1>1 DEF Games
    <2>2. game' = [game EXCEPT !.players = Append(game.players, u)]
      BY <1>3 DEF AddPlayer
    <2> QED
      BY <1>1, <2>1, <2>2 DEF Games, Joins
  <1>4. ASSUME NEW u \in Users, AddSpectator(u) PROVE Unmoved(game, game')
    BY <1>1, <1>4 DEF AddSpectator, Games, Unmoved, SameRound
  <1>5. ASSUME NEW u \in Users, LeaveGame(u) PROVE RequestMove(game, game')
    <2> DEFINE h == RemovePlayer(game, u)
    <2>1. h \in Games
      BY <1>1, RemovePlayerSound, SoundFacts
    <2>2. \/ InLobby(h)
          \/ u \in Members(game) /\ GoesOnWithout(game, u, h)
          \/ h = game
      BY <1>1, RemovalMoves
    <2>3. game' = [h EXCEPT !.spectators = @ \ {u}]
      BY <1>5 DEF LeaveGame
    <2> HIDE DEF h
    <2>4. SameRound(h, game') /\ game'.timer = h.timer /\ game'.table = h.table
      BY <2>1, <2>3 DEF Games, SameRound
    <2>5. CASE InLobby(h)
      BY <2>4, <2>5 DEF InLobby, SameRound, RequestMove
    <2>6. CASE u \in Members(game) /\ GoesOnWithout(game, u, h)
      <3>1. GoesOnWithout(game, u, game')
        BY <2>4, <2>6 DEF GoesOnWithout, SameRound
      <3> QED
        BY <2>6, <3>1 DEF RequestMove
    <2>7. CASE h = game
      BY <2>4, <2>7 DEF Unmoved, RequestMove
    <2> QED
      BY <2>2, <2>5, <2>6, <2>7
  <1>6. ASSUME NEW seat \in 0..(PlayerLimit - 1), NEW pick \in Picks, Start(seat, pick)
        PROVE  Opens(game, game')
    <2> DEFINE h == [game EXCEPT !.judgeIndex = seat, !.decks = TRUE]
    <2>1. seat \in Nat /\ seat \in Int
      OBVIOUS
    <2>2. /\ h \in Games /\ h.players = game.players /\ h.score = game.score
          /\ h.decks /\ h.judgeIndex = seat
      BY <1>1, <2>1 DEF Games
    <2>3. /\ game' = StartNextRound(h, pick)
          /\ game.state = "LOBBY" /\ Len(game.players) >= MinPlayers
      BY <1>6 DEF Start
    <2> HIDE DEF h
    <2>4. NewRound(h, game')
      BY <2>2, <2>3, NextRoundFields
    <2>5. NextJudgeIndex(h) \in 0 .. Len(game.players) - 1
      <3>1. h.players \in Seq(Users)
        BY <2>2 DEF Games
      <3> QED
        BY <2>1, <2>2, <2>3, <3>1, NextJudgeIndexRange
    <2> QED
      BY <2>2, <2>3, <2>4, <2>5 DEF NewRound, Opens
  <1>7. ASSUME Stop PROVE InLobby(game')
    BY <1>1, <1>7, ResetFields DEF Stop, InLobby
  <1>8. ASSUME NEW u \in Users, Play(u) PROVE RequestMove(game, game')
    <2>1. Unmoved(game, game') \/ Plays(game, u, game')
      BY <1>1, <1>8, PlayFields DEF Play
    <2>2. Plays(game, u, game') => u \in game.round \/ "skippedPlay" \in Adversities
      BY <1>8 DEF Play, Plays
    <2> QED
      BY <2>1, <2>2 DEF RequestMove
  <1>9. ASSUME NEW j \in Users, NEW u \in Users, Judge(j, u) PROVE RequestMove(game, game')
    <2>1. Unmoved(game, game') \/ Decides(game, j, u, game')
      BY <1>1, <1>9, JudgeFields DEF Judge
    <2>2. game.played[u] \in Nat
      BY <1>1 DEF Games
    <2>3. /\ u \in game.table
          /\ Decides(game, j, u, game') => game.played[u] > 0 \/ "binderPick" \in Adversities
          /\ j \in Members(game) \/ "spectatorPicks" \in Adversities
      BY <1>9, <2>2 DEF Judge, Decides
    <2> QED
      BY <2>1, <2>3 DEF RequestMove
  <1>10. ASSUME NEW u \in Users, NEW pick \in Picks, Skip(u, pick) PROVE RequestMove(game, game')
    <2>1. game' = SkipPlayer(game, u, pick)
      BY <1>10 DEF Skip
    <2>2. \/ Unmoved(game, game')
          \/ u = JudgeOf(game) /\ game.state # "JUDGING" /\ Silences(game, game')
          \/ game.state \in {"PLAYING", "JUDGING"} /\ NewRound(game, game')
          \/ Sits(game, u, game')
      BY <1>1, <2>1, SkipFields DEF Silences
    <2>3. u = JudgeOf(game) /\ game.state # "JUDGING" => "earlySkip" \in Adversities
      BY <1>10 DEF Skip
    <2> QED
      BY <2>2, <2>3 DEF RequestMove
  <1> QED
    BY <1>2, <1>3, <1>4, <1>5, <1>6, <1>7, <1>8, <1>9, <1>10 DEF Request, RequestMove

LEMMA TaskMoves ==
    ASSUME Inv, NEW w \in Workers
    PROVE  /\ TakeTask(w) => Silences(game, game')
           /\ WarnPlayersToPlay(w) =>
                 SameRound(game, game') /\ game'.timer = "skipPlay" /\ game'.table = game.table
           /\ WarnJudgeToJudge(w) =>
                 SameRound(game, game') /\ game'.timer = "skipJudge" /\ game'.table = game.table
           /\ \A pick \in Picks :
                 /\ SkipJudgeTask(w, pick) =>
                       IF game.state = "JUDGING" THEN NewRound(game, game') ELSE Silences(game, game')
                 /\ NextRoundTask(w, pick) =>
                       IF game.state # "LOBBY" THEN NewRound(game, game') ELSE Silences(game, game')
           /\ WinTask(w) => InLobby(game')
           /\ ScanIdle(w) => Scans(game, game')
           /\ \A u \in Users :
                 KickIdle(w, u) =>
                    \/ u \in Members(game) /\ game.state # "LOBBY" /\ InLobby(game')
                    \/ u \in Members(game) /\ GoesOnWithout(game, u, game')
                    \/ game' = game
           /\ AfterIdleSkip(w) =>
                 \/ game.state # "PLAYING" /\ worker[w].any /\ game' = game
                 \/ InLobby(game')
                 \/ /\ game.state = "PLAYING" \/ ~worker[w].any
                    /\ game.state # "LOBBY" /\ Judges(game, game')
  <1>1. Sound(game) /\ game \in Games
    BY SoundFacts DEF Inv
  <1>2. TakeTask(w) => Silences(game, game')
    BY <1>1 DEF TakeTask, KillRoundTimer, Games, Silences, SameRound
  <1>3. /\ WarnPlayersToPlay(w) =>
              SameRound(game, game') /\ game'.timer = "skipPlay" /\ game'.table = game.table
        /\ WarnJudgeToJudge(w) =>
              SameRound(game, game') /\ game'.timer = "skipJudge" /\ game'.table = game.table
    BY <1>1 DEF WarnPlayersToPlay, WarnJudgeToJudge, Games, SameRound
  <1>4. ASSUME NEW pick \in Picks, SkipJudgeTask(w, pick)
        PROVE  IF game.state = "JUDGING" THEN NewRound(game, game') ELSE Silences(game, game')
    BY <1>1, <1>4, SkipJudgeFields DEF SkipJudgeTask, Silences
  <1>5. ASSUME NEW pick \in Picks, NextRoundTask(w, pick)
        PROVE  IF game.state # "LOBBY" THEN NewRound(game, game') ELSE Silences(game, game')
    <2>1. game.decks <=> game.state # "LOBBY"
      BY <1>1, SoundFacts
    <2>2. CASE game.decks
      BY <1>1, <1>5, <2>1, <2>2, NextRoundFields DEF NextRoundTask
    <2>3. CASE ~game.decks
      <3>1. game' = [game EXCEPT !.timer = "none"]
        BY <1>5, <2>3 DEF NextRoundTask, StartNextRound, KillRoundTimer
      <3> QED
        BY <1>1, <2>1, <2>3, <3>1 DEF Games, Silences, SameRound
    <2> QED
      BY <2>2, <2>3
  <1>6. WinTask(w) => InLobby(game')
    BY <1>1, ResetFields DEF WinTask, InLobby
  <1>7. ScanIdle(w) => Scans(game, game')
    BY <1>1, ScanFields DEF ScanIdle
  <1>8. ASSUME NEW u \in Users, KickIdle(w, u)
        PROVE  \/ u \in Members(game) /\ game.state # "LOBBY" /\ InLobby(game')
               \/ u \in Members(game) /\ GoesOnWithout(game, u, game')
               \/ game' = game
    BY <1>1, <1>8, RemovalMoves DEF KickIdle
  <1>9. AfterIdleSkip(w) =>
              \/ game.state # "PLAYING" /\ worker[w].any /\ game' = game
              \/ InLobby(game')
              \/ /\ game.state = "PLAYING" \/ ~worker[w].any
                 /\ game.state # "LOBBY" /\ Judges(game, game')
    <2>1. worker[w].any \in BOOLEAN
      BY DEF Inv, Activities
    <2> QED
      BY <1>1, <2>1, EndFields DEF AfterIdleSkip, InLobby
  <1> QED
    BY <1>2, <1>3, <1>4, <1>5, <1>6, <1>7, <1>8, <1>9

-----------------------------------------------------------------------------
(* Whose turn it is.                                                       *)

\* judgeIndex is at most one off the list: -1 after a judge at 0 has left, and the
\* length after the last one has left between two rounds.
AtTable(g) == g.judgeIndex \in -1 .. Len(g.players)

LEMMA WithoutAt ==
    ASSUME NEW g \in Games, Distinct(g), NEW u \in Members(g)
    PROVE  /\ Len(g.players) \in Nat /\ Position(g, u) \in 1 .. Len(g.players)
           /\ g.players[Position(g, u)] = u
           /\ Len(Without(g, u)) = Len(g.players) - 1
           /\ \A i \in 1 .. Len(g.players) - 1 :
                 Without(g, u)[i] = IF i < Position(g, u) THEN g.players[i] ELSE g.players[i + 1]
  <1>1. Len(g.players) \in Nat
    BY DEF Games
  <1>2. Position(g, u) \in 1 .. Len(g.players) /\ g.players[Position(g, u)] = u
    BY PositionOf
  <1>3. Len(Without(g, u)) = Len(g.players) - 1
    BY WithoutFacts
  <1> QED
    BY <1>1, <1>2, <1>3 DEF Without

\* The judge sits where judgeIndex says.
LEMMA JudgeSeat ==
    ASSUME NEW g \in Games, Distinct(g), NEW u \in Members(g), AtTable(g)
    PROVE  JudgeOf(g) = u <=> g.judgeIndex = Position(g, u) - 1
  <1> DEFINE n == Len(g.players)
             k == Position(g, u)
  <1>1. n \in Nat /\ k \in 1..n /\ g.players[k] = u
    BY WithoutAt
  <1>2. \A i \in 1..n : g.players[i] = u => i = k
    BY <1>1 DEF Distinct
  <1>3. u # NoUser
    BY MembersType, UsersAssumption
  <1>4. g.judgeIndex \in Int
    BY DEF Games
  <1> HIDE DEF k
  <1> QED
    BY <1>1, <1>2, <1>3, <1>4 DEF JudgeOf, k

LEMMA RemovalAtTable ==
    ASSUME NEW g, Sound(g), AtTable(g), NEW u \in Members(g), NEW h, GoesOnWithout(g, u, h)
    PROVE  AtTable(h)
  <1>1. g \in Games /\ Distinct(g)
    BY SoundFacts
  <1>2. /\ Len(g.players) \in Nat /\ Position(g, u) \in 1 .. Len(g.players)
        /\ Len(h.players) = Len(g.players) - 1
    BY <1>1, WithoutAt DEF GoesOnWithout
  <1>3. JudgeLeaves(g, u) => g.judgeIndex = Position(g, u) - 1
    BY <1>1, JudgeSeat DEF JudgeLeaves
  <1>4. h.judgeIndex = g.judgeIndex \/ h.judgeIndex = g.judgeIndex - 1
    BY DEF GoesOnWithout
  <1>5. CASE JudgeLeaves(g, u)
    <2>1. h.judgeIndex = g.judgeIndex - 1
      BY <1>5 DEF GoesOnWithout
    <2> QED
      BY <1>2, <1>3, <1>5, <2>1 DEF AtTable
  <1>6. CASE ~JudgeLeaves(g, u)
    <2>1. h.judgeIndex = IF Position(g, u) - 1 < g.judgeIndex
                         THEN g.judgeIndex - 1 ELSE g.judgeIndex
      BY <1>6 DEF GoesOnWithout
    <2> QED
      BY <1>2, <2>1 DEF AtTable
  <1> QED
    BY <1>5, <1>6

\* Every step but a removal keeps the list, or appends to it.
LEMMA AtTableStep ==
    ASSUME Inv, [Next]_vars, AtTable(game) PROVE AtTable(game')
  <1>1. /\ Sound(game) /\ game \in Games /\ Len(game.players) \in Nat
        /\ game.players \in Seq(Users)
    BY SoundFacts DEF Inv, Games
  <1>2. Sound(game') /\ Len(game'.players) \in Nat
    BY NextInv, SoundFacts DEF Inv, Games
  <1>3. ASSUME SameRound(game, game') PROVE AtTable(game')
    BY <1>3 DEF SameRound, AtTable
  <1>4. ASSUME game'.state = "LOBBY" PROVE AtTable(game')
    BY <1>2, <1>4, SoundFacts DEF AtTable
  <1>5. ASSUME NewRound(game, game') PROVE AtTable(game')
    <2>1. Len(game.players) >= MinPlayers
      BY <1>2, <1>5, SoundFacts DEF NewRound
    <2>2. NextJudgeIndex(game) \in 0 .. Len(game.players) - 1
      BY <1>1, <2>1, NextJudgeIndexRange DEF AtTable
    <2> QED
      BY <1>1, <1>5, <2>2 DEF NewRound, AtTable
  <1>6. ASSUME game'.players = game.players, game'.judgeIndex = game.judgeIndex PROVE AtTable(game')
    BY <1>6 DEF AtTable
  <1>7. ASSUME Request PROVE AtTable(game')
    <2>1. CASE Opens(game, game')
      BY <1>1, <2>1 DEF Opens, AtTable
    <2>2. ASSUME NEW u \in Users, Joins(game, u, game') PROVE AtTable(game')
      <3>1. Len(game'.players) = Len(game.players) + 1
        BY <1>1, <2>2 DEF Joins
      <3> QED
        BY <1>1, <2>2, <3>1 DEF Joins, AtTable
    <2>3. ASSUME NEW u \in Members(game), GoesOnWithout(game, u, game') PROVE AtTable(game')
      BY <1>1, <2>3, RemovalAtTable
    <2>4. RequestMove(game, game')
      BY <1>7, RequestMoves
    <2> QED
      BY <1>3, <1>4, <1>5, <1>6, <2>1, <2>2, <2>3, <2>4
         DEF RequestMove, InLobby, Unmoved, Silences, Plays, Sits, Decides
  <1>8. ASSUME NEW w \in Workers, TimerStep(w) PROVE AtTable(game')
    <2>1. CASE TakeTask(w) \/ WarnPlayersToPlay(w) \/ WarnJudgeToJudge(w)
      BY <1>3, <2>1, TaskMoves DEF Silences
    <2>2. ASSUME NEW pick \in Picks, SkipJudgeTask(w, pick) \/ NextRoundTask(w, pick)
          PROVE  AtTable(game')
      BY <1>3, <1>5, <2>2, TaskMoves DEF Silences
    <2>3. CASE WinTask(w)
      BY <1>4, <2>3, TaskMoves DEF InLobby
    <2>4. CASE ScanIdle(w)
      BY <1>6, <2>4, TaskMoves DEF Scans
    <2>5. ASSUME NEW u \in Users, KickIdle(w, u) PROVE AtTable(game')
      BY <1>1, <1>4, <1>6, <2>5, TaskMoves, RemovalAtTable DEF InLobby
    <2>6. CASE AfterIdleSkip(w)
      BY <1>4, <1>6, <2>6, TaskMoves DEF InLobby, Judges
    <2> QED
      BY <1>8, <2>1, <2>2, <2>3, <2>4, <2>5, <2>6 DEF TimerStep
  <1>9. CASE UNCHANGED vars
    BY <1>6, <1>9 DEF vars
  <1> QED
    BY <1>7, <1>8, <1>9 DEF Next

TableInv == Inv /\ AtTable(game)

LEMMA SpecTableInv == Spec => []TableInv
  <1>1. Init => TableInv
    BY InitInv DEF TableInv, Init, AtTable, NewGame
  <1>2. TableInv /\ [Next]_vars => TableInv'
    BY NextInv, AtTableStep DEF TableInv
  <1> QED
    BY <1>1, <1>2, PTL DEF Spec

\* handleJudgeOnPlayerRemoval: who judges next does so also when another leaves.
LEMMA RemovalKeepsTurn ==
    ASSUME NEW g, Sound(g), AtTable(g), NEW u \in Members(g), NEW h, GoesOnWithout(g, u, h),
           g.state # "LOBBY", u # NextJudge(g), ~(g.state = "ROUND_OVER" /\ u = JudgeOf(g))
    PROVE  NextJudge(h) = NextJudge(g)
  <1> DEFINE n == Len(g.players)
             p == g.players
             j == g.judgeIndex
             k == Position(g, u)
             s == Without(g, u)
  <1>1. g \in Games /\ Distinct(g) /\ n >= 3
    BY SoundFacts DEF MinPlayers
  <1>2. /\ n \in Nat /\ k \in 1..n /\ p[k] = u /\ Len(s) = n - 1
        /\ \A i \in 1 .. n - 1 : s[i] = IF i < k THEN p[i] ELSE p[i + 1]
    BY <1>1, WithoutAt
  <1>3. j \in -1 .. n
    BY DEF AtTable
  <1>4. NextJudge(g) = IF j + 1 >= n THEN p[1] ELSE p[j + 2]
    BY <1>2, <1>3 DEF NextJudge, NextJudgeIndex
  <1>5. JudgeLeaves(g, u) <=> j = k - 1
    <2>1. g.state \in {"PLAYING", "JUDGING"} \/ u # JudgeOf(g)
      BY <1>1 DEF Games, States
    <2> QED
      BY <1>1, <2>1, JudgeSeat DEF JudgeLeaves
  <1>6. h.judgeIndex = (IF k - 1 <= j THEN j - 1 ELSE j) /\ h.players = s
    <2>1. CASE JudgeLeaves(g, u)
      BY <1>2, <1>3, <1>5, <2>1 DEF GoesOnWithout
    <2>2. CASE ~JudgeLeaves(g, u)
      <3>1. h.judgeIndex = (IF k - 1 < j THEN j - 1 ELSE j) /\ h.players = s
        BY <2>2 DEF GoesOnWithout
      <3>2. j # k - 1
        BY <1>5, <2>2
      <3> HIDE DEF k, j, s
      <3> QED
        BY <1>2, <1>3, <3>1, <3>2
    <2> QED
      BY <2>1, <2>2
  <1>7. NextJudge(h) = s[(IF h.judgeIndex + 1 >= n - 1 THEN 0 ELSE h.judgeIndex + 1) + 1]
    BY <1>2, <1>6 DEF NextJudge, NextJudgeIndex
  <1> HIDE DEF n, p, j, k, s
  <1>8. CASE k - 1 <= j /\ j >= n - 1
    <2>1. NextJudge(h) = s[1] /\ NextJudge(g) = p[1]
      BY <1>1, <1>2, <1>3, <1>4, <1>6, <1>7, <1>8
    <2>2. 1 < k
      BY <1>2, <2>1
    <2> QED
      BY <1>1, <1>2, <2>1, <2>2
  <1>9. CASE k - 1 <= j /\ j < n - 1
    <2>1. NextJudge(h) = s[j + 1] /\ NextJudge(g) = p[j + 2]
      BY <1>1, <1>2, <1>3, <1>4, <1>6, <1>7, <1>9
    <2> QED
      BY <1>1, <1>2, <1>3, <1>9, <2>1
  <1>10. CASE k - 1 > j
    <2>1. NextJudge(g) = p[j + 2] /\ k # j + 2
      BY <1>1, <1>2, <1>3, <1>4, <1>10
    <2>2. NextJudge(h) = s[j + 2]
      BY <1>1, <1>2, <1>3, <1>6, <1>7, <1>10, <2>1
    <2> QED
      BY <1>1, <1>2, <1>3, <1>10, <2>1, <2>2
  <1> QED
    BY <1>2, <1>3, <1>8, <1>9, <1>10

\* Only a removal takes somebody out of a game that goes on.
LEMMA OnlyRemovalRemoves ==
    ASSUME Inv, [Next]_vars, NEW u \in Members(game), u \notin Members(game'),
           game'.state # "LOBBY"
    PROVE  GoesOnWithout(game, u, game')
  <1>1. /\ Sound(game) /\ game \in Games /\ Distinct(game) /\ game.players \in Seq(Users)
    BY SoundFacts DEF Inv, Games
  <1>2. ~InLobby(game') /\ game'.players # game.players
    BY DEF InLobby, Members
  <1>3. ASSUME NEW v \in Members(game), GoesOnWithout(game, v, game')
        PROVE  GoesOnWithout(game, u, game')
    <2>1. Members(game') = Members(game) \ {v}
      <3>1. {Without(game, v)[i] : i \in 1 .. Len(Without(game, v))} = Members(game) \ {v}
        BY <1>1, WithoutFacts
      <3>2. game'.players = Without(game, v)
        BY <1>3 DEF GoesOnWithout
      <3>3. Members(game') = {game'.players[i] : i \in 1 .. Len(game'.players)}
        BY DEF Members
      <3> QED
        BY <3>1, <3>2, <3>3
    <2>2. u = v
      BY <2>1
    <2> QED
      BY <1>3, <2>2
  <1>4. ASSUME NEW v \in Users, Joins(game, v, game') PROVE FALSE
    <2>1. PICK i \in 1 .. Len(game.players) : game.players[i] = u
      BY DEF Members
    <2>2. Len(game'.players) = Len(game.players) + 1 /\ game'.players[i] = u
      BY <1>1, <1>4, <2>1 DEF Joins
    <2>3. i \in 1 .. Len(game'.players)
      BY <1>1, <2>2
    <2> QED
      BY <2>2, <2>3 DEF Members
  <1>5. ASSUME Request PROVE GoesOnWithout(game, u, game')
    <2>1. RequestMove(game, game')
      BY <1>5, RequestMoves
    <2> QED
      BY <1>2, <1>3, <1>4, <2>1
         DEF RequestMove, Unmoved, SameRound, Opens, Silences, NewRound, Plays, Sits, Decides
  <1>6. ASSUME NEW w \in Workers, TimerStep(w) PROVE GoesOnWithout(game, u, game')
    <2>1. ~(TakeTask(w) \/ WarnPlayersToPlay(w) \/ WarnJudgeToJudge(w))
      BY <1>2, TaskMoves DEF Silences, SameRound
    <2>2. \A pick \in Picks : ~(SkipJudgeTask(w, pick) \/ NextRoundTask(w, pick))
      BY <1>2, TaskMoves DEF Silences, SameRound, NewRound
    <2>3. ~WinTask(w) /\ ~ScanIdle(w) /\ ~AfterIdleSkip(w)
      BY <1>2, TaskMoves DEF Scans, Judges
    <2>4. ASSUME NEW v \in Users, KickIdle(w, v) PROVE GoesOnWithout(game, u, game')
      BY <1>2, <1>3, <2>4, TaskMoves
    <2> QED
      BY <1>6, <2>1, <2>2, <2>3, <2>4 DEF TimerStep
  <1> QED
    BY <1>2, <1>5, <1>6 DEF Next, vars

\* When a player leaves, the player whose turn it is to judge next stays the same,
\* whatever adversities are admitted (handleJudgeOnPlayerRemoval).
THEOREM TurnsKept == Spec => TurnKept
  <1>1. TableInv /\ [Next]_vars =>
           [\A u \in Users : PassedOver(u) /\ ~(game.state = "ROUND_OVER" /\ u = JudgeOf(game))
                               => NextJudge(game') = NextJudge(game)]_vars
    <2> SUFFICES ASSUME TableInv, [Next]_vars, NEW u \in Users, PassedOver(u),
                        ~(game.state = "ROUND_OVER" /\ u = JudgeOf(game))
                 PROVE  NextJudge(game') = NextJudge(game)
      OBVIOUS
    <2>1. /\ u \in Members(game) /\ u \notin Members(game') /\ u # NextJudge(game)
          /\ game'.state # "LOBBY" /\ Sound(game) /\ AtTable(game)
      BY DEF PassedOver, TableInv, Inv
    <2>2. GoesOnWithout(game, u, game')
      BY <2>1, OnlyRemovalRemoves DEF TableInv
    <2>3. game.state # "LOBBY"
      BY <2>1, <2>2 DEF GoesOnWithout
    <2> QED
      BY <2>1, <2>2, <2>3, RemovalKeepsTurn
  <1> QED
    BY <1>1, SpecTableInv, PTL DEF Spec, TurnKept

-----------------------------------------------------------------------------
(* Whose cards are on the table.                                           *)

InRound(g) == \A u \in Users : g.played[u] > 0 => u \in g.round

LEMMA ClearedInRound == ASSUME NEW g, \A u \in Users : g.played[u] = 0 PROVE InRound(g)
  BY DEF InRound

\* Cards on the table are in the round as long as nobody plays that was skipped.
LEMMA InRoundStep ==
    ASSUME Inv, [Next]_vars, InRound(game), "skippedPlay" \notin Adversities PROVE InRound(game')
  <1>1. Sound(game) /\ game.played \in [Users -> Nat]
    BY SoundFacts DEF Inv, Games
  <1>2. Sound(game')
    BY NextInv DEF Inv
  <1>3. ASSUME game'.played = game.played, game'.round = game.round PROVE InRound(game')
    BY <1>3 DEF InRound
  <1>4. ASSUME game'.state = "LOBBY" PROVE InRound(game')
    BY <1>2, <1>4, SoundFacts, ClearedInRound
  <1>5. ASSUME game'.played = [v \in Users |-> 0] PROVE InRound(game')
    BY <1>5, ClearedInRound
  <1>6. ASSUME NEW u \in Users, game'.played = [game.played EXCEPT ![u] = 0],
               game'.round = game.round \ {u}
        PROVE  InRound(game')
    BY <1>1, <1>6 DEF InRound
  <1>7. ASSUME NEW u \in Members(game), GoesOnWithout(game, u, game') PROVE InRound(game')
    BY <1>1, <1>5, <1>6, <1>7, SoundFacts, MembersType DEF GoesOnWithout
  <1>8. ASSUME Request PROVE InRound(game')
    <2>1. ASSUME NEW u \in Users, Plays(game, u, game'), u \in game.round PROVE InRound(game')
      BY <1>1, <2>1 DEF Plays, InRound
    <2>2. RequestMove(game, game')
      BY <1>8, RequestMoves
    <2> QED
      BY <1>3, <1>4, <1>5, <1>6, <1>7, <2>1, <2>2
         DEF RequestMove, InLobby, Unmoved, SameRound, Silences, Opens, NewRound, Joins, Sits, Decides
  <1>9. ASSUME NEW w \in Workers, TimerStep(w) PROVE InRound(game')
    <2>1. CASE TakeTask(w) \/ WarnPlayersToPlay(w) \/ WarnJudgeToJudge(w)
      BY <1>3, <2>1, TaskMoves DEF Silences, SameRound
    <2>2. ASSUME NEW pick \in Picks, SkipJudgeTask(w, pick) \/ NextRoundTask(w, pick)
          PROVE  InRound(game')
      BY <1>3, <1>5, <2>2, TaskMoves DEF Silences, SameRound, NewRound
    <2>3. CASE WinTask(w)
      BY <1>4, <2>3, TaskMoves DEF InLobby
    <2>4. CASE ScanIdle(w)
      <3>1. Scans(game, game')
        BY <2>4, TaskMoves
      <3> QED
        BY <1>1, <3>1 DEF Scans, InRound
    <2>5. ASSUME NEW u \in Users, KickIdle(w, u) PROVE InRound(game')
      BY <1>3, <1>4, <1>7, <2>5, TaskMoves DEF InLobby
    <2>6. CASE AfterIdleSkip(w)
      BY <1>3, <1>4, <2>6, TaskMoves DEF InLobby, Judges
    <2> QED
      BY <1>9, <2>1, <2>2, <2>3, <2>4, <2>5, <2>6 DEF TimerStep
  <1>10. CASE UNCHANGED vars
    BY <1>3, <1>10 DEF vars
  <1> QED
    BY <1>8, <1>9, <1>10 DEF Next

LEMMA SpecInRound ==
    ASSUME "skippedPlay" \notin Adversities PROVE Spec => [](Inv /\ InRound(game))
  <1>1. Init => Inv /\ InRound(game)
    BY InitInv DEF Init, InRound, NewGame
  <1>2. Inv /\ InRound(game) /\ [Next]_vars => (Inv /\ InRound(game))'
    BY NextInv, InRoundStep
  <1> QED
    BY <1>1, <1>2, PTL DEF Spec

\* As many have played as are in the round: it was everybody.
LEMMA AllInIsAll ==
    ASSUME NEW g, Sound(g), InRound(g), AllIn(g.played, g.round, g.pick)
    PROVE  g.round \subseteq HavePlayed(g)
  <1>1. g.round \subseteq Users
    BY SoundFacts DEF Games
  <1>2. IsFiniteSet(g.round)
    BY <1>1, UsersAssumption, FS_Subset
  <1>3. HavePlayed(g) \subseteq g.round
    BY DEF HavePlayed, InRound
  <1>4. Cardinality(HavePlayed(g)) = Cardinality(g.round)
    BY DEF AllIn, HavePlayed
  <1> QED
    BY <1>2, <1>3, <1>4, FS_Subset

\* A request that moves the game to judging leaves nobody of the round out, unless the
\* round is being given up because its judge left: as long as nobody plays that the host
\* has skipped (startJudging counts, it does not compare).
THEOREM EveryoneAwaited == "skippedPlay" \notin Adversities => (Spec => AwaitsEveryone)
  <1> SUFFICES ASSUME "skippedPlay" \notin Adversities PROVE Spec => AwaitsEveryone
    OBVIOUS
  <1>1. Inv /\ InRound(game) /\ (Inv /\ InRound(game))' /\ [Next]_vars =>
           [Quiet /\ game.state = "PLAYING" /\ game'.state = "JUDGING"
              => game'.round \subseteq HavePlayed(game') \/ game'.timer = "nextRound"]_vars
    <2> SUFFICES ASSUME Inv, InRound(game), Inv', InRound(game)', Next,
                        Quiet, game.state = "PLAYING", game'.state = "JUDGING"
                 PROVE  game'.round \subseteq HavePlayed(game') \/ game'.timer = "nextRound"
      BY DEF vars
    <2>1. Sound(game) /\ Sound(game') /\ InRound(game')
      BY DEF Inv
    <2>2. AllIn(game'.played, game'.round, game'.pick) => game'.round \subseteq HavePlayed(game')
      BY <2>1, AllInIsAll
    <2>3. ASSUME NEW u \in Members(game), GoesOnWithout(game, u, game')
          PROVE  game'.timer = "nextRound" \/ AllIn(game'.played, game'.round, game'.pick)
      BY <2>3 DEF GoesOnWithout
    <2>4. CASE Request
      <3>1. RequestMove(game, game')
        BY <2>4, RequestMoves
      <3> QED
        BY <2>2, <2>3, <3>1
           DEF RequestMove, InLobby, Unmoved, SameRound, Silences, Opens, NewRound, Joins,
               Plays, Sits, JudgingOrWaits, Decides
    <2>5. ASSUME NEW w \in Workers, TimerStep(w) PROVE FALSE
      <3>1. worker[w].pc = "idle"
        BY DEF Quiet
      <3>2. TakeTask(w)
        BY <2>5, <3>1
           DEF TimerStep, WarnPlayersToPlay, WarnJudgeToJudge, SkipJudgeTask, NextRoundTask,
               WinTask, ScanIdle, KickIdle, AfterIdleSkip
      <3> QED
        BY <3>2, TaskMoves DEF Silences, SameRound
    <2> QED
      BY <2>4, <2>5 DEF Next
  <1> QED
    BY <1>1, SpecInRound, PTL DEF Spec, AwaitsEveryone

-----------------------------------------------------------------------------
(* One thing at a time: what holds when no request and no task comes while *)
(* a worker is busy.                                                       *)

\* What a busy worker relies on.
Doing(a, g) ==
    /\ a.pc \in Tasks => g.timer = "none"
    /\ a.pc \in {"warnPlay", "skipPlay"} => g.state = "PLAYING"
    /\ a.pc = "kick" =>
          /\ g.state # "ROUND_OVER" /\ (g.state # "PLAYING" => a.any)
          /\ a.remove # {} => a.any

Alone(w) == \A v \in Workers : v # w => worker[v].pc = "idle"

Order ==
    /\ game.timer \in {"warnPlay", "skipPlay"} => game.state = "PLAYING"
    /\ \A w \in Workers : worker[w].pc # "idle" => Alone(w) /\ Doing(worker[w], game)

\* What each step of a task does to the worker.
LEMMA WorkerMoves ==
    ASSUME Inv, NEW w \in Workers, TimerStep(w)
    PROVE  /\ \A v \in Workers : v # w => worker'[v] = worker[v]
           /\ TakeTask(w) => /\ worker[w].pc = "idle" /\ game.timer \in Tasks
                             /\ worker'[w].pc = game.timer
           /\ ScanIdle(w) => /\ worker[w].pc = "skipPlay" /\ worker'[w].pc = "kick"
                             /\ worker'[w].any = (worker'[w].remove # {})
           /\ \A u \in Users : KickIdle(w, u) =>
                 /\ worker[w].pc = "kick" /\ worker'[w].pc = "kick"
                 /\ worker[w].remove # {} /\ worker'[w].any = worker[w].any
           /\ \/ TakeTask(w) \/ ScanIdle(w) \/ \E u \in Users : KickIdle(w, u)
              \/ worker[w].pc # "idle" /\ worker'[w].pc = "idle"
  <1> DEFINE Others == \A v \in Workers : v # w => worker'[v] = worker[v]
  <1>1. worker \in [Workers -> Activities] /\ Sound(game)
    BY DEF Inv
  <1>2. worker[w] \in Activities /\ game.timer \in Tasks \cup {"none"}
    BY <1>1, SoundFacts DEF Games
  <1>3. ASSUME TakeTask(w)
        PROVE  /\ Others /\ worker[w].pc = "idle" /\ game.timer \in Tasks
               /\ worker'[w].pc = game.timer
    <2>1. worker' = [worker EXCEPT ![w] = [worker[w] EXCEPT !.pc = game.timer]]
      BY <1>1, <1>3 DEF TakeTask
    <2>2. worker'[w] = [worker[w] EXCEPT !.pc = game.timer]
      BY <1>1, <2>1
    <2>3. worker'[w].pc = game.timer
      BY <1>2, <2>2 DEF Activities
    <2>4. worker[w].pc = "idle" /\ game.timer \in Tasks
      BY <1>2, <1>3 DEF TakeTask
    <2> QED
      BY <1>1, <2>1, <2>3, <2>4
  <1>4. ASSUME ScanIdle(w)
        PROVE  /\ Others /\ worker[w].pc = "skipPlay" /\ worker'[w].pc = "kick"
               /\ worker'[w].any = (worker'[w].remove # {})
    BY <1>1, <1>4 DEF ScanIdle
  <1>5. ASSUME NEW u \in Users, KickIdle(w, u)
        PROVE  /\ Others /\ worker[w].pc = "kick" /\ worker'[w].pc = "kick"
               /\ worker[w].remove # {} /\ worker'[w].any = worker[w].any
    <2> DEFINE r == worker[w].remove \ {u}
    <2>1. worker' = [worker EXCEPT ![w] = [worker[w] EXCEPT !.remove = r]]
      BY <1>1, <1>5 DEF KickIdle
    <2> HIDE DEF r
    <2>2. worker'[w] = [worker[w] EXCEPT !.remove = r]
      BY <1>1, <2>1
    <2>3. worker'[w].pc = worker[w].pc /\ worker'[w].any = worker[w].any
      BY <1>2, <2>2 DEF Activities
    <2> QED
      BY <1>1, <1>5, <2>1, <2>3 DEF KickIdle
  <1>6. ASSUME worker' = [worker EXCEPT ![w] = Idle] PROVE Others /\ worker'[w].pc = "idle"
    BY <1>1, <1>6 DEF Idle
  <1>7. \/ TakeTask(w) \/ ScanIdle(w) \/ \E u \in Users : KickIdle(w, u)
        \/ worker' = [worker EXCEPT ![w] = Idle] /\ worker[w].pc # "idle"
    BY DEF TimerStep, WarnPlayersToPlay, WarnJudgeToJudge, SkipJudgeTask, NextRoundTask,
           WinTask, AfterIdleSkip
  <1>8. Others
    BY <1>3, <1>4, <1>5, <1>6, <1>7
  <1> HIDE DEF Others
  <1>9. \/ TakeTask(w) \/ ScanIdle(w) \/ \E u \in Users : KickIdle(w, u)
        \/ worker[w].pc # "idle" /\ worker'[w].pc = "idle"
    BY <1>6, <1>7
  <1> QED
    BY <1>3, <1>4, <1>5, <1>8, <1>9 DEF Others

\* Whoever takes a step of a task is the only one at work, before and after.
LEMMA OneBusy ==
    ASSUME Inv, Order, "overlap" \notin Adversities, NEW w \in Workers, TimerStep(w)
    PROVE  Alone(w) /\ Alone(w)'
  <1>1. Alone(w)
    <2>1. CASE worker[w].pc = "idle"
      <3>1. TakeTask(w)
        BY <2>1 DEF TimerStep, WarnPlayersToPlay, WarnJudgeToJudge, SkipJudgeTask,
                    NextRoundTask, WinTask, ScanIdle, KickIdle, AfterIdleSkip
      <3> QED
        BY <3>1 DEF TakeTask, Quiet, Alone
    <2> QED
      BY <2>1 DEF Order
  <1>2. \A v \in Workers : v # w => worker'[v] = worker[v]
    BY WorkerMoves
  <1> QED
    BY <1>1, <1>2 DEF Alone

\* A request finds everybody idle and leaves everybody so.
LEMMA RequestQuiet ==
    ASSUME Request, "overlap" \notin Adversities
    PROVE  Quiet /\ worker' = worker
  BY DEF Request, CreateGame, AddPlayer, AddSpectator, LeaveGame, Start, Stop, Play, Judge, Skip,
         Served

LEMMA OrderStep ==
    ASSUME Inv, [Next]_vars, Order, "overlap" \notin Adversities PROVE Order'
  <1> DEFINE Due(h) == h.timer \in {"warnPlay", "skipPlay"} => h.state = "PLAYING"
             Busy(w) == worker[w].pc # "idle" => Alone(w) /\ Doing(worker[w], game)
  <1>1. /\ Order <=> Due(game) /\ \A w \in Workers : Busy(w)
        /\ Order' <=> Due(game') /\ \A w \in Workers : Busy(w)'
    BY DEF Order, Alone
  <1>2. ASSUME NEW u \in Users, GoesOnWithout(game, u, game') PROVE Due(game')
    BY <1>1, <1>2 DEF GoesOnWithout
  <1>3. CASE Request
    <2>1. Quiet /\ worker' = worker
      BY <1>3, RequestQuiet
    <2>2. \A w \in Workers : Busy(w)'
      BY <2>1 DEF Quiet
    <2>3. ASSUME NEW j \in Users, NEW u \in Users, Decides(game, j, u, game') PROVE Due(game')
      BY <1>1, <2>3 DEF Decides, AfterRound, MayJudge
    <2>4. RequestMove(game, game') /\ Members(game) \subseteq Users
      BY <1>3, RequestMoves, SoundFacts, MembersType DEF Inv
    <2>5. Due(game')
      BY <1>1, <1>2, <2>3, <2>4
         DEF RequestMove, InLobby, Unmoved, SameRound, Silences, Opens, NewRound, Joins,
             Plays, Sits, JudgingOrWaits
    <2> QED
      BY <1>1, <2>2, <2>5
  <1>4. ASSUME NEW w \in Workers, TimerStep(w) PROVE Order'
    <2>1. Alone(w)' /\ \A v \in Workers : v # w => worker'[v].pc = "idle"
      BY <1>4, OneBusy DEF Alone
    <2>2. Busy(w)
      BY <1>1
    <2> SUFFICES Due(game') /\ (worker'[w].pc # "idle" => Doing(worker'[w], game'))
      BY <1>1, <2>1
    <2>3. /\ TakeTask(w) => /\ worker[w].pc = "idle" /\ game.timer \in Tasks
                            /\ worker'[w].pc = game.timer
          /\ ScanIdle(w) => /\ worker[w].pc = "skipPlay" /\ worker'[w].pc = "kick"
                            /\ worker'[w].any = (worker'[w].remove # {})
          /\ \A u \in Users : KickIdle(w, u) =>
                /\ worker[w].pc = "kick" /\ worker'[w].pc = "kick"
                /\ worker[w].remove # {} /\ worker'[w].any = worker[w].any
          /\ \/ TakeTask(w) \/ ScanIdle(w) \/ \E u \in Users : KickIdle(w, u)
             \/ worker[w].pc # "idle" /\ worker'[w].pc = "idle"
      BY <1>4, WorkerMoves
    <2>4. CASE TakeTask(w)
      BY <1>1, <2>3, <2>4, TaskMoves DEF Silences, SameRound, Doing, Tasks
    <2>5. CASE WarnPlayersToPlay(w)
      <3>1. worker[w].pc = "warnPlay" /\ worker'[w].pc = "idle"
        BY <2>5 DEF WarnPlayersToPlay, Inv, Idle
      <3> QED
        BY <2>2, <2>5, <3>1, TaskMoves DEF SameRound, Doing
    <2>6. CASE worker'[w].pc = "idle" /\ ~TakeTask(w) /\ ~WarnPlayersToPlay(w)
      <3>1. WarnJudgeToJudge(w) => Due(game')
        BY TaskMoves
      <3>2. ASSUME NEW pick \in Picks, SkipJudgeTask(w, pick) \/ NextRoundTask(w, pick)
            PROVE  Due(game')
        BY <3>2, TaskMoves DEF Silences, NewRound
      <3>3. WinTask(w) => Due(game')
        BY TaskMoves DEF InLobby
      <3>4. AfterIdleSkip(w) => Due(game')
        BY <1>1, TaskMoves DEF InLobby, Judges
      <3>5. ~ScanIdle(w) /\ ~\E u \in Users : KickIdle(w, u)
        BY <2>3, <2>6
      <3> QED
        BY <1>4, <2>6, <3>1, <3>2, <3>3, <3>4, <3>5 DEF TimerStep
    <2>7. CASE ScanIdle(w)
      <3>1. game.state = "PLAYING"
        BY <2>2, <2>3, <2>7 DEF Doing
      <3> QED
        BY <2>3, <2>7, <3>1, TaskMoves DEF Scans, Doing, Tasks
    <2>8. ASSUME NEW u \in Users, KickIdle(w, u)
          PROVE  Due(game') /\ Doing(worker'[w], game')
      <3>1. worker'[w].pc = "kick" /\ worker'[w].any /\ game.state # "ROUND_OVER"
        BY <2>2, <2>3, <2>8 DEF Doing
      <3>2. Due(game') /\ game'.state # "ROUND_OVER"
        BY <1>1, <1>2, <2>8, <3>1, TaskMoves DEF GoesOnWithout, InLobby
      <3> QED
        BY <3>1, <3>2 DEF Doing, Tasks
    <2> QED
      BY <2>3, <2>4, <2>5, <2>6, <2>7, <2>8
  <1>5. CASE UNCHANGED vars
    BY <1>5 DEF vars, Order, Alone
  <1> QED
    BY <1>3, <1>4, <1>5 DEF Next

LEMMA SpecOrder ==
    ASSUME "overlap" \notin Adversities PROVE Spec => [](Inv /\ Order)
  <1>1. Init => Inv /\ Order
    <2>1. ASSUME Init PROVE Order
      BY <2>1 DEF Init, Order, NewGame, Idle
    <2> QED
      BY <2>1, InitInv
  <1>2. Inv /\ Order /\ [Next]_vars => (Inv /\ Order)'
    BY NextInv, OrderStep
  <1> QED
    BY <1>1, <1>2, PTL DEF Spec

\* A round is decided once and by its judge, as long as the requests keep out of the
\* way of the timer's tasks and no spectator picks (judgeCard, skipIdlePlayers).
THEOREM DecidedOnce ==
    Adversities \cap {"overlap", "spectatorPicks"} = {} => (Spec => JudgedOnce)
  <1> SUFFICES ASSUME Adversities \cap {"overlap", "spectatorPicks"} = {} PROVE Spec => JudgedOnce
    OBVIOUS
  <1>1. "overlap" \notin Adversities /\ "spectatorPicks" \notin Adversities
    OBVIOUS
  <1>2. Inv /\ Order /\ [Next]_vars =>
          [/\ game.state = "ROUND_OVER" => game'.state # "JUDGING"
           /\ game.state = "JUDGING" /\ game'.state = "ROUND_OVER" => JudgeOf(game) # NoUser]_vars
    <2> SUFFICES ASSUME Inv, Order, Next
                 PROVE  /\ game.state = "ROUND_OVER" => game'.state # "JUDGING"
                        /\ game.state = "JUDGING" /\ game'.state = "ROUND_OVER"
                              => JudgeOf(game) # NoUser
      BY DEF vars
    <2>1. Members(game) \subseteq Users
      BY SoundFacts, MembersType DEF Inv
    <2>2. ASSUME NEW j \in Members(game), NEW u, Decides(game, j, u, game')
          PROVE  game'.state = "ROUND_OVER" /\ JudgeOf(game) # NoUser
      BY <2>1, <2>2, UsersAssumption DEF Decides, MayJudge, PlayerFor
    <2>3. CASE Request
      <3>1. RequestMove(game, game')
        BY <2>3, RequestMoves
      <3> QED
        BY <1>1, <2>2, <3>1
           DEF RequestMove, InLobby, Unmoved, SameRound, Silences, Opens, NewRound, Joins,
               GoesOnWithout, Plays, MayPlay, Sits, JudgingOrWaits
    <2>4. ASSUME NEW w \in Workers, TimerStep(w)
          PROVE  \/ game'.state = game.state \/ game'.state \in {"LOBBY", "PLAYING"}
                 \/ game.state = "PLAYING" /\ game'.state = "JUDGING"
      <3>1. CASE TakeTask(w) \/ WarnPlayersToPlay(w) \/ WarnJudgeToJudge(w)
        BY <3>1, TaskMoves DEF Silences, SameRound
      <3>2. ASSUME NEW pick \in Picks, SkipJudgeTask(w, pick) \/ NextRoundTask(w, pick)
            PROVE  game'.state = game.state \/ game'.state = "PLAYING"
        BY <3>2, TaskMoves DEF Silences, SameRound, NewRound
      <3>3. CASE WinTask(w) \/ ScanIdle(w)
        BY <3>3, TaskMoves DEF InLobby, Scans
      <3>4. ASSUME NEW u \in Users, KickIdle(w, u)
            PROVE  \/ game'.state = game.state \/ game'.state = "LOBBY"
                   \/ game.state = "PLAYING" /\ game'.state = "JUDGING"
        BY <3>4, TaskMoves DEF InLobby, GoesOnWithout
      <3>5. CASE AfterIdleSkip(w)
        <4>1. worker[w].pc = "kick"
          BY <3>5 DEF AfterIdleSkip
        <4>2. game.state # "PLAYING" => worker[w].any
          BY <4>1 DEF Order, Doing
        <4> QED
          BY <3>5, <4>2, TaskMoves DEF InLobby, Judges
      <3> QED
        BY <2>4, <3>1, <3>2, <3>3, <3>4, <3>5 DEF TimerStep
    <2> QED
      BY <2>3, <2>4 DEF Next
  <1> QED
    BY <1>1, <1>2, SpecOrder, PTL DEF Spec, JudgedOnce

-----------------------------------------------------------------------------
(* Reaching the score goal.                                                *)

NoWinner(g) == \A u \in Users : g.score[u] < ScoreGoal

\* A further round is only ever due for a game that nobody has won.  The last part is
\* for a judge's pick after which the timer is not set: there is nothing to pick from
\* while the next round is due.
Unwon(g) ==
    /\ g.state \in {"PLAYING", "JUDGING"} \/ g.timer = "nextRound" => NoWinner(g)
    /\ g.state = "JUDGING" /\ g.timer = "nextRound" => g.table = {}

GoalInv ==
    /\ Unwon(game)
    /\ \A w \in Workers : worker[w].pc = "nextRound" => NoWinner(game)

LEMMA RequestUnwon ==
    ASSUME Inv, Unwon(game), Request PROVE Unwon(game')
  <1>1. Sound(game) /\ game.score \in [Users -> 0..ScoreGoal] /\ game.timer \in Tasks \cup {"none"}
    BY SoundFacts DEF Inv, Games
  <1>2. ASSUME game'.score = game.score PROVE NoWinner(game) => NoWinner(game')
    BY <1>2 DEF NoWinner
  <1>3. game.state = "LOBBY" => NoWinner(game)
    BY <1>1, SoundFacts, LimitsAssumption DEF NoWinner
  <1>4. ASSUME NEW u \in Members(game), GoesOnWithout(game, u, game') PROVE Unwon(game')
    <2>1. NoWinner(game) => NoWinner(game')
      BY <1>1, <1>4, LimitsAssumption DEF GoesOnWithout, NoWinner
    <2>2. CASE JudgeLeaves(game, u)
      BY <1>4, <2>1, <2>2 DEF GoesOnWithout, Unwon, JudgeLeaves
    <2>3. CASE ~JudgeLeaves(game, u)
      BY <1>4, <2>1, <2>3 DEF GoesOnWithout, Unwon
    <2> QED
      BY <2>2, <2>3
  <1>5. ASSUME NEW j \in Users, NEW u \in Users, Decides(game, j, u, game'), u \in game.table
        PROVE  Unwon(game')
    <2>1. game.state = "JUDGING" /\ game'.state = "ROUND_OVER" /\ game.timer # "nextRound"
      BY <1>5 DEF Decides, MayJudge, Unwon
    <2>2. ASSUME game'.timer = "nextRound" PROVE NoWinner(game')
      <3>1. game'.timer = AfterRound(game', u)
        BY <1>5, <2>1, <2>2 DEF Decides
      <3>2. ~(game'.score[u] >= ScoreGoal)
        BY <2>2, <3>1 DEF AfterRound
      <3>3. game'.score \in [Users -> 0..ScoreGoal]
        <4>1. Sound(game')
          BY NextInv DEF Next, Inv
        <4> QED
          BY <4>1, SoundFacts DEF Games
      <3>4. \A v \in Users : v # u => game'.score[v] = game.score[v]
        BY <1>5 DEF Decides
      <3>5. NoWinner(game)
        BY <2>1 DEF Unwon
      <3> QED
        BY <3>2, <3>3, <3>4, <3>5, LimitsAssumption DEF NoWinner
    <2> QED
      BY <2>1, <2>2 DEF Unwon
  <1>6. RequestMove(game, game')
    BY RequestMoves
  <1>7. CASE InLobby(game')
    BY <1>7 DEF InLobby, Unwon
  <1>8. CASE Unmoved(game, game')
    BY <1>2, <1>8 DEF Unmoved, SameRound, Unwon
  <1>9. CASE \/ Opens(game, game') \/ Silences(game, game')
             \/ game.state \in {"PLAYING", "JUDGING"} /\ NewRound(game, game')
    BY <1>2, <1>3, <1>9 DEF Opens, Silences, SameRound, NewRound, Unwon
  <1>10. ASSUME NEW u \in Users, Joins(game, u, game') PROVE Unwon(game')
    BY <1>2, <1>10 DEF Joins, Unwon
  <1>11. ASSUME NEW u \in Users, Plays(game, u, game') \/ Sits(game, u, game') PROVE Unwon(game')
    BY <1>2, <1>11 DEF Plays, MayPlay, Sits, JudgingOrWaits, Unwon
  <1> QED
    BY <1>4, <1>5, <1>6, <1>7, <1>8, <1>9, <1>10, <1>11 DEF RequestMove

LEMMA GoalStep ==
    ASSUME Inv, Order, GoalInv, [Next]_vars, "overlap" \notin Adversities PROVE GoalInv'
  <1>1. Sound(game) /\ game.score \in [Users -> 0..ScoreGoal] /\ game.timer \in Tasks \cup {"none"}
    BY SoundFacts DEF Inv, Games
  <1>2. ASSUME game'.score = game.score PROVE NoWinner(game) => NoWinner(game')
    BY <1>2 DEF NoWinner
  <1>3. CASE Request
    <2>1. \A w \in Workers : worker'[w].pc # "nextRound"
      BY <1>3, RequestQuiet DEF Quiet
    <2> QED
      BY <1>3, <2>1, RequestUnwon DEF GoalInv
  <1>4. ASSUME NEW w \in Workers, TimerStep(w) PROVE GoalInv'
    <2>1. \A v \in Workers : v # w => worker'[v].pc = "idle"
      BY <1>4, OneBusy DEF Alone
    <2> SUFFICES Unwon(game') /\ (worker'[w].pc = "nextRound" => NoWinner(game'))
      BY <2>1 DEF GoalInv
    <2>2. Unwon(game) /\ (worker[w].pc = "nextRound" => NoWinner(game))
      BY DEF GoalInv
    <2>3. CASE TakeTask(w)
      <3>1. Silences(game, game') /\ worker'[w].pc = game.timer
        BY <1>4, <2>3, TaskMoves, WorkerMoves
      <3> QED
        BY <1>2, <2>2, <3>1 DEF Silences, SameRound, Unwon
    <2>4. ASSUME ~TakeTask(w) PROVE worker'[w].pc # "nextRound"
      BY <1>4, <2>4, WorkerMoves
    <2>5. ASSUME WarnPlayersToPlay(w) \/ WarnJudgeToJudge(w) PROVE Unwon(game')
      BY <1>2, <2>2, <2>5, TaskMoves DEF SameRound, Unwon
    <2>6. ASSUME NEW pick \in Picks, SkipJudgeTask(w, pick) PROVE Unwon(game')
      BY <1>2, <2>2, <2>6, TaskMoves DEF Silences, SameRound, NewRound, Unwon
    <2>7. ASSUME NEW pick \in Picks, NextRoundTask(w, pick) PROVE Unwon(game')
      <3>1. NoWinner(game)
        BY <2>2, <2>7 DEF NextRoundTask
      <3> QED
        BY <1>2, <2>7, <3>1, TaskMoves DEF Silences, SameRound, NewRound, Unwon
    <2>8. ASSUME WinTask(w) PROVE Unwon(game')
      BY <2>8, TaskMoves DEF InLobby, Unwon
    <2>9. ASSUME ScanIdle(w) PROVE Unwon(game')
      BY <1>2, <2>2, <2>9, TaskMoves DEF Scans, Unwon
    <2>10. ASSUME NEW u \in Users, KickIdle(w, u) PROVE Unwon(game')
      <3>1. ASSUME u \in Members(game), GoesOnWithout(game, u, game') PROVE Unwon(game')
        <4>1. NoWinner(game) => NoWinner(game')
          BY <1>1, <3>1, LimitsAssumption DEF GoesOnWithout, NoWinner
        <4> QED
          BY <2>2, <3>1, <4>1 DEF GoesOnWithout, Unwon, JudgeLeaves
      <3> QED
        BY <2>2, <2>10, <3>1, TaskMoves DEF InLobby, Unwon
    <2>11. ASSUME AfterIdleSkip(w) PROVE Unwon(game')
      <3>1. worker[w].pc = "kick"
        BY <2>11 DEF AfterIdleSkip
      <3>2. game.state # "PLAYING" => worker[w].any
        BY <3>1 DEF Order, Doing
      <3> QED
        BY <1>2, <2>2, <2>11, <3>2, TaskMoves DEF InLobby, Judges, Unwon
    <2> QED
      BY <1>4, <2>3, <2>4, <2>5, <2>6, <2>7, <2>8, <2>9, <2>10, <2>11 DEF TimerStep
  <1>5. CASE UNCHANGED vars
    BY <1>5 DEF vars, GoalInv
  <1> QED
    BY <1>3, <1>4, <1>5 DEF Next

\* A player that reaches the score goal ends the game, as long as the requests keep out
\* of the way of the timer's tasks: no further round is played or judged (judgeCard).
THEOREM GoalIsTheEnd == "overlap" \notin Adversities => (Spec => []GoalEndsGame)
  <1> SUFFICES ASSUME "overlap" \notin Adversities PROVE Spec => []GoalEndsGame
    OBVIOUS
  <1>1. Init => GoalInv
    BY DEF Init, GoalInv, Unwon, NewGame, Idle
  <1>2. Inv /\ Order /\ GoalInv /\ [Next]_vars => GoalInv'
    BY GoalStep
  <1>3. GoalInv => GoalEndsGame
    BY DEF GoalInv, Unwon, NoWinner, GoalEndsGame
  <1> QED
    BY <1>1, <1>2, <1>3, SpecOrder, PTL DEF Spec

-----------------------------------------------------------------------------
(* The cards on the table.                                                 *)

\* Who has played has played all that the black card asks for.
Whole(g) == \A u \in Users : g.played[u] > 0 => g.played[u] = g.pick

OnTable(g) ==
    /\ \A u \in Users : g.played[u] <= g.pick
    /\ g.state \in {"PLAYING", "JUDGING"} =>
          /\ g.judgeIndex < Len(g.players)
          /\ \A u \in Users : g.played[u] > 0 => u # JudgeOf(g)
    /\ g.state = "JUDGING" => Whole(g)

CardsInv ==
    /\ InRound(game) /\ OnTable(game)
    /\ \A w \in Workers : worker[w].pc = "kick" /\ game.state = "PLAYING" => Whole(game)

LEMMA PickType == ASSUME NEW g \in Games PROVE g.pick \in Nat
  <1>1. g.pick \in Picks \cup {0}
    BY DEF Games
  <1>2. \A pick \in Picks : pick \in Nat
    BY PicksAssumption
  <1> QED
    BY <1>1, <1>2

LEMMA ClearedOnTable ==
    ASSUME NEW g \in Games, \A u \in Users : g.played[u] = 0,
           g.state \in {"PLAYING", "JUDGING"} => g.judgeIndex < Len(g.players)
    PROVE  OnTable(g)
  <1>1. g.pick \in Nat
    BY PickType
  <1> QED
    BY <1>1 DEF OnTable, Whole

\* The judge stays the judge when another player leaves, also one who sat before.
LEMMA JudgeStays ==
    ASSUME NEW g, Sound(g), AtTable(g), NEW u \in Members(g), NEW h, GoesOnWithout(g, u, h),
           ~JudgeLeaves(g, u), g.state \in {"PLAYING", "JUDGING"},
           g.judgeIndex < Len(g.players)
    PROVE  h.judgeIndex < Len(h.players) /\ JudgeOf(h) = JudgeOf(g)
  <1> DEFINE n == Len(g.players)
             p == g.players
             j == g.judgeIndex
             k == Position(g, u)
             s == Without(g, u)
  <1>1. g \in Games /\ Distinct(g)
    BY SoundFacts
  <1>2. /\ n \in Nat /\ k \in 1..n /\ p[k] = u /\ Len(s) = n - 1
        /\ \A i \in 1 .. n - 1 : s[i] = IF i < k THEN p[i] ELSE p[i + 1]
    BY <1>1, WithoutAt
  <1>3. j \in -1 .. n /\ j < n
    BY DEF AtTable
  <1>4. j # k - 1
    BY <1>1, JudgeSeat DEF JudgeLeaves
  <1>5. h.judgeIndex = (IF k - 1 < j THEN j - 1 ELSE j) /\ h.players = s
    BY DEF GoesOnWithout
  <1>6. JudgeOf(g) = IF j \in 0 .. n - 1 THEN p[j + 1] ELSE NoUser
    BY DEF JudgeOf
  <1>7. JudgeOf(h) = IF h.judgeIndex \in 0 .. n - 2 THEN s[h.judgeIndex + 1] ELSE NoUser
    BY <1>2, <1>5 DEF JudgeOf
  <1> HIDE DEF n, p, j, k, s
  <1>8. CASE k - 1 < j
    <2>1. h.judgeIndex = j - 1 /\ j \in 1 .. n - 1 /\ s[j] = p[j + 1]
      BY <1>2, <1>3, <1>5, <1>8
    <2> QED
      BY <1>2, <1>5, <1>6, <1>7, <2>1
  <1>9. CASE k - 1 > j
    <2>1. h.judgeIndex = j /\ j < n - 1 /\ (j \in 0 .. n - 2 => s[j + 1] = p[j + 1])
      BY <1>2, <1>3, <1>5, <1>9
    <2> QED
      BY <1>2, <1>3, <1>5, <1>6, <1>7, <2>1
  <1> QED
    BY <1>2, <1>3, <1>4, <1>8, <1>9

LEMMA RemovalOnTable ==
    ASSUME NEW g, Sound(g), AtTable(g), OnTable(g), NEW u \in Members(g), NEW h \in Games,
           GoesOnWithout(g, u, h)
    PROVE  OnTable(h) /\ (h.state = "PLAYING" /\ Whole(g) => Whole(h))
  <1>1. /\ g.played \in [Users -> Nat] /\ g.pick \in Nat /\ g.judgeIndex \in Int
        /\ Len(g.players) \in Nat /\ Len(h.players) = Len(g.players) - 1 /\ u \in Users
    <2>1. g \in Games /\ Distinct(g)
      BY SoundFacts
    <2>2. g.pick \in Nat /\ u \in Users
      BY <2>1, PickType, MembersType
    <2>3. Len(g.players) \in Nat /\ Len(h.players) = Len(g.players) - 1
      BY <2>1, WithoutAt DEF GoesOnWithout
    <2> QED
      BY <2>1, <2>2, <2>3 DEF Games
  <1>2. CASE JudgeLeaves(g, u)
    <2>1. /\ h.played = [v \in Users |-> 0] /\ h.judgeIndex = g.judgeIndex - 1
          /\ g.judgeIndex < Len(g.players)
      BY <1>2 DEF GoesOnWithout, JudgeLeaves, OnTable
    <2>2. h.judgeIndex < Len(h.players)
      BY <1>1, <2>1
    <2> QED
      BY <2>1, <2>2, ClearedOnTable DEF Whole
  <1>3. CASE ~JudgeLeaves(g, u)
    <2>1. /\ h.played = [g.played EXCEPT ![u] = 0] /\ h.pick = g.pick
          /\ \/ h.state = g.state
             \/ /\ h.state = "JUDGING" /\ g.state = "PLAYING"
                /\ AllIn(h.played, g.round \ {u}, g.pick)
      BY <1>3 DEF GoesOnWithout
    <2>2. \A v \in Users : h.played[v] = IF v = u THEN 0 ELSE g.played[v]
      BY <1>1, <2>1
    <2>3. (\A v \in Users : h.played[v] <= h.pick) /\ (Whole(g) => Whole(h))
      BY <1>1, <2>1, <2>2 DEF OnTable, Whole
    <2>4. h.state = "JUDGING" => Whole(h)
      BY <2>1, <2>3 DEF OnTable, Whole, AllIn
    <2>5. ASSUME h.state \in {"PLAYING", "JUDGING"}
          PROVE  /\ h.judgeIndex < Len(h.players)
                 /\ \A v \in Users : h.played[v] > 0 => v # JudgeOf(h)
      <3>1. g.state \in {"PLAYING", "JUDGING"}
        BY <2>1, <2>5
      <3>2. /\ g.judgeIndex < Len(g.players)
            /\ \A v \in Users : g.played[v] > 0 => v # JudgeOf(g)
        BY <3>1 DEF OnTable
      <3>3. h.judgeIndex < Len(h.players) /\ JudgeOf(h) = JudgeOf(g)
        BY <1>3, <3>1, <3>2, JudgeStays
      <3> QED
        BY <2>2, <3>2, <3>3
    <2> QED
      BY <2>3, <2>4, <2>5 DEF OnTable
  <1> QED
    BY <1>2, <1>3

LEMMA NewRoundOnTable ==
    ASSUME NEW g, Sound(g), AtTable(g), g.state # "LOBBY", NEW h \in Games, NewRound(g, h)
    PROVE  OnTable(h)
  <1>1. g \in Games /\ Len(g.players) >= MinPlayers
    BY SoundFacts
  <1>2. g.players \in Seq(Users) /\ Len(g.players) \in Nat /\ g.judgeIndex \in Int
        /\ g.judgeIndex >= -1
    BY <1>1 DEF Games, AtTable
  <1>3. NextJudgeIndex(g) \in 0 .. Len(g.players) - 1
    BY <1>1, <1>2, NextJudgeIndexRange
  <1>4. h.judgeIndex < Len(h.players) /\ \A u \in Users : h.played[u] = 0
    BY <1>2, <1>3 DEF NewRound
  <1> QED
    BY <1>4, ClearedOnTable

\* The round is as before, but for cards that went back to u's hand.
LEMMA SameOnTable ==
    ASSUME NEW g, Sound(g), OnTable(g), NEW h,
           h.players = g.players, h.judgeIndex = g.judgeIndex, h.pick = g.pick,
           \A u \in Users : h.played[u] = g.played[u] \/ h.played[u] = 0,
           \/ h.state = g.state
           \/ h.state = "JUDGING" /\ g.state \in {"PLAYING", "JUDGING"} /\ Whole(h)
           \/ h.state = "ROUND_OVER"
    PROVE  OnTable(h)
  <1>1. g.played \in [Users -> Nat] /\ g.pick \in Nat
    <2>1. g \in Games
      BY SoundFacts
    <2>2. g.pick \in Nat
      BY <2>1, PickType
    <2> QED
      BY <2>1, <2>2 DEF Games
  <1>2. JudgeOf(h) = JudgeOf(g)
    BY DEF JudgeOf
  <1> QED
    BY <1>1, <1>2 DEF OnTable, Whole

LEMMA RequestOnTable ==
    ASSUME Inv, AtTable(game), OnTable(game), Request PROVE OnTable(game')
  <1>1. Sound(game) /\ game \in Games /\ Sound(game') /\ game' \in Games
    BY NextInv, SoundFacts DEF Inv, Next
  <1>2. /\ game.played \in [Users -> Nat] /\ game.players \in Seq(Users)
        /\ game.judgeIndex \in Int /\ game.pick \in Nat
    <2>1. game.pick \in Nat
      BY <1>1, PickType
    <2> QED
      BY <1>1, <2>1 DEF Games
  <1>3. ASSUME InLobby(game') PROVE OnTable(game')
    BY <1>1, <1>3, SoundFacts, ClearedOnTable DEF InLobby
  <1>4. ASSUME Unmoved(game, game') \/ Silences(game, game') PROVE OnTable(game')
    BY <1>1, <1>4, SameOnTable DEF Unmoved, Silences, SameRound
  <1>5. ASSUME Opens(game, game') PROVE OnTable(game')
    <2>1. game'.judgeIndex < Len(game'.players) /\ \A u \in Users : game'.played[u] = 0
      BY <1>2, <1>5 DEF Opens
    <2> QED
      BY <1>1, <2>1, ClearedOnTable
  <1>6. ASSUME game.state \in {"PLAYING", "JUDGING"}, NewRound(game, game') PROVE OnTable(game')
    BY <1>1, <1>6, NewRoundOnTable
  <1>7. ASSUME NEW u \in Users, Joins(game, u, game') PROVE OnTable(game')
    <2> DEFINE n == Len(game.players)
               q == game'.players
    <2>1. n \in Nat /\ Len(q) = n + 1 /\ \A i \in 1..n : q[i] = game.players[i]
      BY <1>2, <1>7 DEF Joins
    <2>2. game'.judgeIndex = game.judgeIndex /\ game'.state = game.state
          /\ game'.played = game.played /\ game'.pick = game.pick
      BY <1>7 DEF Joins
    <2> HIDE DEF n, q
    <2>3. ASSUME game.judgeIndex < n
          PROVE  game'.judgeIndex < Len(q) /\ JudgeOf(game') = JudgeOf(game)
      <3>1. JudgeOf(game) = IF game.judgeIndex \in 0 .. n - 1
                            THEN game.players[game.judgeIndex + 1] ELSE NoUser
        BY DEF JudgeOf, n
      <3>2. JudgeOf(game') = IF game'.judgeIndex \in 0 .. Len(q) - 1
                             THEN q[game'.judgeIndex + 1] ELSE NoUser
        BY DEF JudgeOf, q
      <3>3. CASE game.judgeIndex \in 0 .. n - 1
        <4>1. game.judgeIndex + 1 \in 1..n /\ game.judgeIndex \in 0 .. Len(q) - 1
          BY <2>1, <3>3
        <4> QED
          BY <2>1, <2>2, <2>3, <3>1, <3>2, <3>3, <4>1
      <3>4. CASE game.judgeIndex \notin 0 .. n - 1
        BY <1>2, <2>1, <2>2, <2>3, <3>1, <3>2, <3>4
      <3> QED
        BY <3>3, <3>4
    <2>4. /\ game.state \in {"PLAYING", "JUDGING"} => game.judgeIndex < n
          /\ Len(game'.players) = Len(q)
      BY DEF OnTable, n, q
    <2> QED
      BY <1>2, <2>2, <2>3, <2>4 DEF OnTable, Whole
  <1>8. ASSUME NEW u \in Members(game), GoesOnWithout(game, u, game') PROVE OnTable(game')
    BY <1>1, <1>8, RemovalOnTable
  <1>9. ASSUME NEW u \in Users, Plays(game, u, game') PROVE OnTable(game')
    <2>1. /\ game.state = "PLAYING" /\ game.played[u] < game.pick /\ u # JudgeOf(game)
          /\ game'.players = game.players /\ game'.judgeIndex = game.judgeIndex
          /\ game'.pick = game.pick
          /\ \A v \in Users : game'.played[v] =
                IF v = u THEN game.played[u] + 1 ELSE game.played[v]
          /\ \/ game'.state = game.state
             \/ game'.state = "JUDGING" /\ AllIn(game'.played, game'.round, game'.pick)
      BY <1>2, <1>9 DEF Plays, MayPlay, JudgingOrWaits
    <2>2. JudgeOf(game') = JudgeOf(game)
      BY <2>1 DEF JudgeOf
    <2>3. game'.state = "JUDGING" => Whole(game')
      BY <2>1 DEF Whole, AllIn
    <2>4. \A v \in Users : game'.played[v] <= game'.pick
      BY <1>2, <2>1 DEF OnTable
    <2> QED
      BY <2>1, <2>2, <2>3, <2>4 DEF OnTable
  <1>10. ASSUME NEW u \in Users, Sits(game, u, game') PROVE OnTable(game')
    <2>1. /\ game.state = "PLAYING"
          /\ game'.players = game.players /\ game'.judgeIndex = game.judgeIndex
          /\ game'.pick = game.pick
          /\ \A v \in Users : game'.played[v] = game.played[v] \/ game'.played[v] = 0
          /\ \/ game'.state = game.state
             \/ game'.state = "JUDGING" /\ AllIn(game'.played, game'.round, game'.pick)
      BY <1>2, <1>10 DEF Sits, JudgingOrWaits
    <2>2. game'.state = "JUDGING" => Whole(game')
      BY <2>1 DEF Whole, AllIn
    <2> QED
      BY <1>1, <2>1, <2>2, SameOnTable
  <1>11. ASSUME NEW j \in Users, NEW u \in Users, Decides(game, j, u, game')
         PROVE  OnTable(game')
    BY <1>1, <1>11, SameOnTable DEF Decides
  <1>12. RequestMove(game, game')
    BY RequestMoves
  <1> QED
    BY <1>3, <1>4, <1>5, <1>6, <1>7, <1>8, <1>9, <1>10, <1>11, <1>12 DEF RequestMove

LEMMA CardsStep ==
    ASSUME Inv, AtTable(game), Order, CardsInv, [Next]_vars,
           "overlap" \notin Adversities, "skippedPlay" \notin Adversities
    PROVE  CardsInv'
  <1>1. Sound(game) /\ game \in Games /\ Inv' /\ Sound(game') /\ game' \in Games
    BY NextInv, SoundFacts DEF Inv
  <1>2. InRound(game') /\ OnTable(game) /\ InRound(game)
    BY InRoundStep DEF CardsInv
  <1>3. CASE Request
    <2>1. \A w \in Workers : worker'[w].pc # "kick"
      BY <1>3, RequestQuiet DEF Quiet
    <2> QED
      BY <1>2, <1>3, <2>1, RequestOnTable DEF CardsInv
  <1>4. ASSUME NEW w \in Workers, TimerStep(w) PROVE CardsInv'
    <2>1. \A v \in Workers : v # w => worker'[v].pc = "idle"
      BY <1>4, OneBusy DEF Alone
    <2> SUFFICES OnTable(game')
                 /\ (worker'[w].pc = "kick" /\ game'.state = "PLAYING" => Whole(game'))
      BY <1>2, <2>1 DEF CardsInv
    <2>2. game.state = "PLAYING" /\ worker[w].pc = "kick" => Whole(game)
      BY DEF CardsInv
    <2>3. ASSUME ~ScanIdle(w), ~\E u \in Users : KickIdle(w, u) PROVE worker'[w].pc # "kick"
      BY <1>4, <2>3, WorkerMoves DEF Tasks
    <2>4. ASSUME SameRound(game, game') PROVE OnTable(game')
      BY <1>1, <1>2, <2>4, SameOnTable DEF SameRound
    <2>5. ASSUME InLobby(game') PROVE OnTable(game') /\ game'.state # "PLAYING"
      BY <1>1, <2>5, SoundFacts, ClearedOnTable DEF InLobby
    <2>6. ASSUME TakeTask(w) \/ WarnPlayersToPlay(w) \/ WarnJudgeToJudge(w) PROVE OnTable(game')
      BY <2>4, <2>6, TaskMoves DEF Silences
    <2>7. ASSUME NEW pick \in Picks, SkipJudgeTask(w, pick) \/ NextRoundTask(w, pick)
          PROVE  OnTable(game')
      BY <1>1, <2>4, <2>7, TaskMoves, NewRoundOnTable DEF Silences
    <2>8. ASSUME WinTask(w) PROVE OnTable(game')
      BY <2>5, <2>8, TaskMoves
    <2>9. ASSUME ScanIdle(w) PROVE OnTable(game') /\ Whole(game')
      <3>1. Scans(game, game')
        BY <2>9, TaskMoves
      <3>2. \A v \in Users : game'.played[v] = IF v \in IdlePlayers(game) THEN 0 ELSE game.played[v]
        BY <3>1 DEF Scans
      <3>3. OnTable(game')
        BY <1>1, <1>2, <3>1, <3>2, SameOnTable DEF Scans
      <3>4. game.played \in [Users -> Nat] /\ game.pick \in Nat
        <4>1. game.pick \in Nat
          BY <1>1, PickType
        <4> QED
          BY <1>1, <4>1 DEF Games
      <3>5. game'.pick = game.pick
        BY <3>1 DEF Scans
      <3>6. Whole(game')
        BY <1>2, <3>2, <3>4, <3>5 DEF Whole, InRound, IdlePlayers, OnTable
      <3> QED
        BY <3>3, <3>6
    <2>10. ASSUME NEW u \in Users, KickIdle(w, u)
           PROVE  OnTable(game') /\ (game'.state = "PLAYING" => Whole(game'))
      <3>1. worker[w].pc = "kick"
        BY <2>10 DEF KickIdle
      <3>2. ASSUME u \in Members(game), GoesOnWithout(game, u, game')
            PROVE  OnTable(game') /\ (game'.state = "PLAYING" => Whole(game'))
        <4>1. game'.state = "PLAYING" => game.state = "PLAYING"
          BY <3>2 DEF GoesOnWithout
        <4> QED
          BY <1>1, <1>2, <2>2, <3>1, <3>2, <4>1, RemovalOnTable
      <3> QED
        BY <1>2, <2>2, <2>5, <2>10, <3>1, <3>2, TaskMoves
    <2>11. ASSUME AfterIdleSkip(w) PROVE OnTable(game')
      <3>1. worker[w].pc = "kick"
        BY <2>11 DEF AfterIdleSkip
      <3>2. game.state # "PLAYING" => worker[w].any
        BY <3>1 DEF Order, Doing
      <3>3. ASSUME game.state = "PLAYING", Judges(game, game') PROVE OnTable(game')
        <4>1. Whole(game')
          BY <2>2, <3>1, <3>3 DEF Judges, Whole
        <4> QED
          BY <1>1, <1>2, <3>3, <4>1, SameOnTable DEF Judges
      <3> QED
        BY <1>2, <2>5, <2>11, <3>2, <3>3, TaskMoves
    <2>12. OnTable(game')
      BY <1>4, <2>6, <2>7, <2>8, <2>9, <2>10, <2>11 DEF TimerStep
    <2> QED
      BY <2>3, <2>9, <2>10, <2>12
  <1>5. CASE UNCHANGED vars
    BY <1>5 DEF vars, CardsInv
  <1> QED
    BY <1>3, <1>4, <1>5 DEF Next

\* Only players of the round have cards on the table, the judge has none, and while they
\* are judged each set is complete: as long as the requests keep out of the way of the
\* timer's tasks and nobody plays that was skipped.
THEOREM CardsInPlay ==
    Adversities \cap {"overlap", "skippedPlay"} = {} => (Spec => []PlaysInRound)
  <1> SUFFICES ASSUME Adversities \cap {"overlap", "skippedPlay"} = {}
               PROVE  Spec => []PlaysInRound
    OBVIOUS
  <1>1. "overlap" \notin Adversities /\ "skippedPlay" \notin Adversities
    OBVIOUS
  <1>2. Init => CardsInv
    <2>1. ASSUME Init PROVE CardsInv
      BY <2>1 DEF Init, CardsInv, InRound, OnTable, Whole, NewGame, Idle
    <2> QED
      BY <2>1
  <1>3. TableInv /\ Inv /\ Order /\ CardsInv /\ [Next]_vars => CardsInv'
    BY <1>1, CardsStep DEF TableInv
  <1>4. CardsInv => PlaysInRound
    BY DEF CardsInv, InRound, OnTable, Whole, HavePlayed, PlaysInRound
  <1> QED
    BY <1>1, <1>2, <1>3, <1>4, SpecTableInv, SpecOrder, PTL DEF Spec

-----------------------------------------------------------------------------
(* The task that is pending.                                               *)

OnTime ==
    /\ Quiet => game.timer \in Pending(game.state)
    /\ \A w \in Workers :
          /\ worker[w].pc \in Tasks => worker[w].pc \in Pending(game.state)
          /\ worker[w].pc = "kick" /\ game.state # "PLAYING" => game.timer \in Pending(game.state)

LEMMA PendingIs ==
    /\ Pending("LOBBY") = {"none"}
    /\ Pending("PLAYING") = {"warnPlay", "skipPlay", "nextRound"}
    /\ Pending("JUDGING") = {"warnJudge", "skipJudge", "nextRound"}
    /\ Pending("ROUND_OVER") = {"nextRound", "win"}
  BY DEF Pending

\* A removal keeps the timer or sets the one for the state it moves to.
LEMMA RemovalOnTime ==
    ASSUME NEW g, NEW u, NEW h, GoesOnWithout(g, u, h)
    PROVE  /\ g.timer \in Pending(g.state) => h.timer \in Pending(h.state)
           /\ h.state # g.state => h.timer \in Pending(h.state)
  <1>1. CASE JudgeLeaves(g, u)
    <2>1. h.timer = "nextRound" /\ h.state \in {"PLAYING", "JUDGING"}
      BY <1>1 DEF GoesOnWithout, JudgeLeaves
    <2>2. "nextRound" \in Pending("PLAYING") /\ "nextRound" \in Pending("JUDGING")
      BY PendingIs
    <2> QED
      BY <2>1, <2>2
  <1>2. CASE ~JudgeLeaves(g, u)
    <2>1. \/ h.state = g.state /\ h.timer = g.timer
          \/ h.state = "JUDGING" /\ h.timer = "warnJudge"
      BY <1>2 DEF GoesOnWithout
    <2>2. "warnJudge" \in Pending("JUDGING")
      BY PendingIs
    <2> QED
      BY <2>1, <2>2
  <1> QED
    BY <1>1, <1>2

LEMMA RequestOnTime ==
    ASSUME Inv, Request, game.timer \in Pending(game.state),
           "earlySkip" \notin Adversities, "binderPick" \notin Adversities
    PROVE  game'.timer \in Pending(game'.state)
  <1>1. /\ "none" \in Pending("LOBBY") /\ "warnPlay" \in Pending("PLAYING")
        /\ "warnJudge" \in Pending("JUDGING")
        /\ "nextRound" \in Pending("ROUND_OVER") /\ "win" \in Pending("ROUND_OVER")
    BY PendingIs
  <1>2. ASSUME NEW u \in Members(game), GoesOnWithout(game, u, game')
        PROVE  game'.timer \in Pending(game'.state)
    BY <1>2, RemovalOnTime
  <1>3. ASSUME NEW j \in Users, NEW u \in Users, Decides(game, j, u, game'), game.played[u] > 0
        PROVE  game'.timer \in Pending(game'.state)
    BY <1>1, <1>3 DEF Decides, AfterRound
  <1>4. RequestMove(game, game')
    BY RequestMoves
  <1> QED
    BY <1>1, <1>2, <1>3, <1>4
       DEF RequestMove, InLobby, Unmoved, SameRound, Opens, NewRound, Joins, Plays, Sits,
           JudgingOrWaits

LEMMA OnTimeStep ==
    ASSUME Inv, Order, OnTime, [Next]_vars,
           "overlap" \notin Adversities, "earlySkip" \notin Adversities,
           "binderPick" \notin Adversities
    PROVE  OnTime'
  <1>1. Sound(game) /\ game.state \in States /\ game.timer \in Tasks \cup {"none"}
    BY SoundFacts DEF Inv, Games
  <1>2. CASE Request
    <2>1. Quiet /\ worker' = worker
      BY <1>2, RequestQuiet
    <2>2. game'.timer \in Pending(game'.state)
      BY <1>2, <2>1, RequestOnTime DEF OnTime
    <2> QED
      BY <2>1, <2>2 DEF OnTime, Quiet, Tasks
  <1>3. ASSUME NEW w \in Workers, TimerStep(w) PROVE OnTime'
    <2>1. \A v \in Workers : v # w => worker[v].pc = "idle" /\ worker'[v].pc = "idle"
      BY <1>3, OneBusy DEF Alone
    <2>2. /\ TakeTask(w) => /\ worker[w].pc = "idle" /\ game.timer \in Tasks
                            /\ worker'[w].pc = game.timer
          /\ ScanIdle(w) => worker[w].pc = "skipPlay" /\ worker'[w].pc = "kick"
          /\ \A u \in Users : KickIdle(w, u) => worker[w].pc = "kick" /\ worker'[w].pc = "kick"
          /\ \/ TakeTask(w) \/ ScanIdle(w) \/ \E u \in Users : KickIdle(w, u)
             \/ worker[w].pc # "idle" /\ worker'[w].pc = "idle"
      BY <1>3, WorkerMoves
    <2>3. /\ worker[w].pc \in Tasks => worker[w].pc \in Pending(game.state)
          /\ worker[w].pc = "kick" => game.state = "PLAYING" \/ game.timer \in Pending(game.state)
          /\ worker[w].pc = "kick" => game.state # "ROUND_OVER" /\ (game.state # "PLAYING" => worker[w].any)
          /\ worker[w].pc \in {"warnPlay", "skipPlay"} => game.state = "PLAYING"
      BY DEF OnTime, Order, Doing
    <2>4. ASSUME worker'[w].pc = "idle", game'.timer \in Pending(game'.state) PROVE OnTime'
      BY <2>1, <2>4 DEF OnTime, Tasks
    <2>5. ASSUME worker'[w].pc = "kick",
                 game'.state = "PLAYING" \/ game'.timer \in Pending(game'.state)
          PROVE  OnTime'
      BY <2>1, <2>5 DEF OnTime, Quiet, Tasks
    <2>6. /\ "none" \in Pending("LOBBY") /\ "warnPlay" \in Pending("PLAYING")
          /\ "skipPlay" \in Pending("PLAYING") /\ "skipJudge" \in Pending("JUDGING")
          /\ "warnJudge" \in Pending("JUDGING")
      BY PendingIs
    <2>7. CASE TakeTask(w)
      <3>1. Quiet
        BY <2>1, <2>2, <2>7 DEF Quiet
      <3>2. game'.state = game.state /\ worker'[w].pc \in Pending(game'.state) /\ worker'[w].pc \in Tasks
        BY <2>2, <2>7, <3>1, TaskMoves DEF OnTime, Silences, SameRound
      <3> QED
        BY <2>1, <3>2 DEF OnTime, Quiet, Tasks
    <2>8. CASE WarnPlayersToPlay(w)
      <3>1. worker[w].pc = "warnPlay"
        BY <2>8 DEF WarnPlayersToPlay
      <3> QED
        BY <2>2, <2>3, <2>4, <2>6, <2>8, <3>1, TaskMoves DEF SameRound
    <2>9. CASE WarnJudgeToJudge(w)
      <3>1. worker[w].pc = "warnJudge"
        BY <2>9 DEF WarnJudgeToJudge
      <3>2. game.state = "JUDGING"
        BY <1>1, <2>3, <3>1, PendingIs DEF States, Tasks
      <3> QED
        BY <2>2, <2>4, <2>6, <2>9, <3>1, <3>2, TaskMoves DEF SameRound
    <2>10. ASSUME NEW pick \in Picks, SkipJudgeTask(w, pick) PROVE OnTime'
      <3>1. worker[w].pc = "skipJudge"
        BY <2>10 DEF SkipJudgeTask
      <3>2. game.state = "JUDGING"
        BY <1>1, <2>3, <3>1, PendingIs DEF States, Tasks
      <3> QED
        BY <2>2, <2>4, <2>6, <2>10, <3>1, <3>2, TaskMoves DEF NewRound
    <2>11. ASSUME NEW pick \in Picks, NextRoundTask(w, pick) PROVE OnTime'
      <3>1. worker[w].pc = "nextRound"
        BY <2>11 DEF NextRoundTask
      <3>2. game.state # "LOBBY"
        BY <2>3, <3>1, PendingIs DEF Tasks
      <3> QED
        BY <2>2, <2>4, <2>6, <2>11, <3>1, <3>2, TaskMoves DEF NewRound
    <2>12. CASE WinTask(w)
      <3>1. worker[w].pc = "win"
        BY <2>12 DEF WinTask
      <3> QED
        BY <2>2, <2>4, <2>6, <2>12, <3>1, TaskMoves DEF InLobby
    <2>13. CASE ScanIdle(w)
      BY <2>2, <2>3, <2>5, <2>13, TaskMoves DEF Scans
    <2>14. ASSUME NEW u \in Users, KickIdle(w, u) PROVE OnTime'
      <3>1. worker[w].pc = "kick" /\ worker'[w].pc = "kick"
        BY <2>2, <2>14
      <3>2. GoesOnWithout(game, u, game')
              => game'.state = "PLAYING" \/ game'.timer \in Pending(game'.state)
        <4>1. /\ GoesOnWithout(game, u, game') /\ game.timer \in Pending(game.state)
                    => game'.timer \in Pending(game'.state)
              /\ GoesOnWithout(game, u, game') /\ game'.state # game.state
                    => game'.timer \in Pending(game'.state)
          BY RemovalOnTime
        <4> QED
          BY <2>3, <3>1, <4>1
      <3> QED
        BY <2>3, <2>5, <2>6, <2>14, <3>1, <3>2, TaskMoves DEF InLobby
    <2>15. CASE AfterIdleSkip(w)
      <3>1. worker[w].pc = "kick"
        BY <2>15 DEF AfterIdleSkip
      <3>2. worker'[w].pc = "idle"
        BY <2>15 DEF AfterIdleSkip, Inv, Idle
      <3> QED
        BY <2>3, <2>4, <2>6, <2>15, <3>1, <3>2, TaskMoves DEF InLobby, Judges
    <2> QED
      BY <1>3, <2>7, <2>8, <2>9, <2>10, <2>11, <2>12, <2>13, <2>14, <2>15 DEF TimerStep
  <1>4. CASE UNCHANGED vars
    BY <1>4 DEF vars, OnTime, Quiet
  <1> QED
    BY <1>2, <1>3, <1>4 DEF Next

\* A game that waits always has a timer that moves it on, and one made for the state it
\* waits in: as long as the requests keep out of the way of the timer's tasks, no judge is
\* skipped that nobody waits for, and no card of a player that left is picked.
THEOREM TimerAlwaysMatches ==
    Adversities \cap {"overlap", "earlySkip", "binderPick"} = {} => (Spec => []TimerMatches)
  <1> SUFFICES ASSUME Adversities \cap {"overlap", "earlySkip", "binderPick"} = {}
               PROVE  Spec => []TimerMatches
    OBVIOUS
  <1>1. /\ "overlap" \notin Adversities /\ "earlySkip" \notin Adversities
        /\ "binderPick" \notin Adversities
    OBVIOUS
  <1>2. Init => OnTime
    <2>1. ASSUME Init PROVE OnTime
      <3>1. /\ game.timer = "none" /\ game.state = "LOBBY"
            /\ \A w \in Workers : worker[w].pc = "idle"
        BY <2>1 DEF Init, NewGame, Idle
      <3> QED
        BY <3>1, PendingIs DEF OnTime, Tasks
    <2> QED
      BY <2>1
  <1>3. Inv /\ Order /\ OnTime /\ [Next]_vars => OnTime'
    BY <1>1, OnTimeStep
  <1>4. OnTime => TimerMatches
    BY DEF OnTime, TimerMatches
  <1> QED
    BY <1>1, <1>2, <1>3, <1>4, SpecOrder, PTL DEF Spec
=============================================================================
