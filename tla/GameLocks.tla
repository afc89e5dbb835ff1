------------------------------ MODULE GameLocks ------------------------------
(***************************************************************************)
(* The monitors of one game and the order in which its methods take them:  *)
(* data/Game.java and PlayerPlayedCardsTracker, all of whose methods are   *)
(* synchronized, as those of the lists of players, round players and       *)
(* spectators are.                                                         *)
(*                                                                         *)
(* A method is the sequence of what it does with locks, with the state of  *)
(* the game and with the round timer, in the order of the source, calls    *)
(* included.  What depends on cards and scores is a choice: Game has these *)
(* conditions and treats a request as one step, here it is the other way   *)
(* round.  Loops over players are passed once.                             *)
(***************************************************************************)
EXTENDS Naturals, Sequences, SequencesExt, FiniteSets

CONSTANTS
    Requests,  \* threads that serve requests of this game, one each
    Pool,      \* the thread of the timer pool that runs the game's tasks
    MaxBusy    \* bound: threads that are in a method of the game at a time

ASSUME ThreadsAssumption == Pool \notin Requests /\ MaxBusy \in Nat

Threads == Requests \cup {Pool}

VARIABLES
    state,  \* Game.state
    timer,  \* lastScheduledFuture: the task that is pending, or "none"
    held,   \* for each thread, the monitors it has entered, innermost last
    todo    \* for each thread, what is left of what it executes

vars == <<state, timer, held, todo>>

-----------------------------------------------------------------------------
(* What a method is made of.                                               *)

Enter(lock) == <<[do |-> "enter", lock |-> lock]>>
Exit == <<[do |-> "exit"]>>
Sync(lock, body) == Enter(lock) \o body \o Exit

\* A synchronized method that does nothing this module is about.
Touch(lock) == <<[do |-> "touch", lock |-> lock]>>

Becomes(s) == <<[do |-> "become", state |-> s]>>
Pend(task) == <<[do |-> "pend", task |-> task]>>
When(states, yes, no) == <<[do |-> "when", states |-> states, yes |-> yes, no |-> no]>>
Either(one, other) == <<[do |-> "either", one |-> one, other |-> other]>>
Maybe(body) == Either(body, <<>>)

-----------------------------------------------------------------------------
(* The methods of the game.                                                *)

BroadcastToPlayers == Touch("players") \o Touch("spectators")
GetPlayerForUser == Touch("players")
GetJudge == Touch("players")
ReturnCardsToHand == Touch("playedCards")

GetPlayerStatus ==
    When({"LOBBY"}, <<>>,
         When({"PLAYING"},
              GetJudge \o Maybe(Touch("roundPlayers") \o Maybe(Touch("playedCards"))),
              GetJudge))

\* The player may be null.
NotifyPlayerInfoChange == Maybe(GetPlayerStatus) \o BroadcastToPlayers

KillRoundTimer == Sync("roundTimerLock", Pend("none"))
RescheduleTimer(task) == Sync("roundTimerLock", KillRoundTimer \o Pend(task))

JudgingState ==
    KillRoundTimer \o Becomes("JUDGING")
    \o Touch("playedCards") \o When({"JUDGING"}, Touch("playedCards"), <<>>)
    \o BroadcastToPlayers \o GetJudge \o NotifyPlayerInfoChange
    \o RescheduleTimer("warnJudge")

ResetState ==
    KillRoundTimer \o Touch("players") \o Touch("blackCardLock")
    \o Touch("playedCards") \o Touch("roundPlayers") \o Becomes("LOBBY")
    \o GetJudge \o BroadcastToPlayers \o NotifyPlayerInfoChange
    \o Maybe(NotifyPlayerInfoChange)

\* A card is drawn; if the deck is empty everybody is told of the reshuffling.
GetNextCard == Maybe(BroadcastToPlayers)

PlayingState ==
    Becomes("PLAYING") \o Touch("playedCards") \o Sync("blackCardLock", GetNextCard)
    \o Maybe(Sync("players", GetJudge \o GetNextCard))
    \o Touch("blackCardLock") \o BroadcastToPlayers \o RescheduleTimer("warnPlay")

DealState == Touch("players") \o GetNextCard \o PlayingState

\* mutant of NextRound: the played cards are cleared with the players locked
NextRoundClearsInside ==
    Sync("players", Touch("playedCards") \o Touch("roundPlayers") \o GetJudge \o Touch("roundPlayers"))
    \o DealState

NextRound ==
    Touch("playedCards")
    \o Sync("players", Touch("roundPlayers") \o GetJudge \o Touch("roundPlayers"))
    \o DealState

\* A game that is being reset may have lost its decks before its state changes.
StartNextRound == KillRoundTimer \o When({"LOBBY"}, <<>>, Maybe(NextRound))

\* The decks are made first, under the lock of the ids of the card sets.
Start ==
    When({"LOBBY"},
         Touch("cardSetIds")
         \o Maybe(Touch("players") \o Sync("cardSetIds", Touch("players"))
                  \o KillRoundTimer \o NextRound),
         <<>>)

Stop == When({"LOBBY"}, <<>>, ResetState)

StartJudging(yes, no) ==
    When({"PLAYING"},
         Touch("playedCards") \o Touch("roundPlayers")
         \o Either(no, Touch("playedCards") \o Either(yes, no)),
         no)

HandleJudgeOnPlayerRemoval ==
    Touch("roundPlayers") \o Maybe(StartJudging(JudgingState, <<>>)) \o GetJudge
    \o When({"PLAYING", "JUDGING"}, Maybe(BroadcastToPlayers \o ReturnCardsToHand), <<>>)

AddPlayer == Touch("players") \o BroadcastToPlayers

\* A spectator comes or goes.
AddOrRemoveSpectator == Touch("spectators") \o BroadcastToPlayers

RemovePlayer ==
    GetPlayerForUser \o Touch("playedCards") \o HandleJudgeOnPlayerRemoval
    \o Touch("players") \o BroadcastToPlayers
    \o When({"LOBBY"}, <<>>, Either(ResetState, Maybe(RescheduleTimer("nextRound"))))

PlayCard ==
    GetPlayerForUser \o GetJudge
    \o When({"PLAYING"},
            Sync("blackCardLock", Touch("playedCards"))
            \o Maybe(Touch("playedCards") \o NotifyPlayerInfoChange
                     \o StartJudging(JudgingState, <<>>)),
            <<>>)

JudgeCard ==
    Enter("judgeLock") \o GetPlayerForUser \o GetJudge
    \o When({"JUDGING"},
            Touch("playedCards")
            \o Either(Exit,
                      Becomes("ROUND_OVER") \o Exit \o Touch("playedCards")
                      \o BroadcastToPlayers \o NotifyPlayerInfoChange \o NotifyPlayerInfoChange
                      \o Either(RescheduleTimer("win"), RescheduleTimer("nextRound"))
                      \o Touch("playedCards")),
            Exit)

GetCards ==
    GetPlayerForUser \o Touch("blackCardLock")
    \o When({"JUDGING"}, Touch("playedCards"),
            When({"PLAYING"}, GetPlayerForUser \o Touch("playedCards"), <<>>))

GetGameInfo == Touch("players") \o Touch("spectators") \o GetPlayerStatus

SkipIdleJudge ==
    KillRoundTimer
    \o Sync("judgeLock",
            When({"JUDGING"},
                 GetJudge \o BroadcastToPlayers \o ReturnCardsToHand \o StartNextRound,
                 <<>>))

SkipPlayer ==
    GetPlayerForUser \o GetJudge
    \o Either(SkipIdleJudge,
              Enter("roundPlayers")
              \o When({"PLAYING"},
                      Touch("playedCards")
                      \o Either(Exit,
                                BroadcastToPlayers \o Touch("playedCards") \o Exit
                                \o NotifyPlayerInfoChange
                                \o StartJudging(JudgingState,
                                        Touch("roundPlayers")
                                        \o Maybe(ReturnCardsToHand \o StartNextRound))),
                      Exit))

ResetOrJudge == Touch("players") \o Touch("playedCards") \o Either(ResetState, JudgingState)

ResetOrJudgeAfterIdleSkip ==
    Sync("playedCards", When({"PLAYING"}, ResetOrJudge, Maybe(ResetOrJudge)))

SkipIdlePlayers ==
    KillRoundTimer
    \o Sync("roundPlayers",
            Touch("playedCards")
            \o Maybe(Touch("playedCards") \o BroadcastToPlayers \o Touch("playedCards")))
    \o Maybe(RemovePlayer) \o ResetOrJudgeAfterIdleSkip \o Maybe(NotifyPlayerInfoChange)

WarnPlayersToPlay ==
    Sync("roundTimerLock",
         KillRoundTimer \o Sync("roundPlayers", Touch("playedCards"))
         \o RescheduleTimer("skipPlay"))

WarnJudgeToJudge ==
    Sync("roundTimerLock",
         KillRoundTimer \o When({"JUDGING"}, GetJudge, <<>>) \o RescheduleTimer("skipJudge"))

Task ==
    [warnPlay |-> WarnPlayersToPlay, skipPlay |-> SkipIdlePlayers,
     warnJudge |-> WarnJudgeToJudge, skipJudge |-> SkipIdleJudge,
     nextRound |-> StartNextRound, win |-> ResetState]

-----------------------------------------------------------------------------
\* Nobody has done anything yet.
Init ==
    /\ state = "LOBBY" /\ timer = "none"
    /\ held = [t \in Threads |-> <<>>] /\ todo = [t \in Threads |-> <<>>]

Methods ==
    {Start, Stop, AddPlayer, AddOrRemoveSpectator, RemovePlayer, PlayCard, JudgeCard,
     SkipPlayer, GetCards, GetGameInfo}

\* Bound
Room == Cardinality({t \in Threads : todo[t] # <<>>}) < MaxBusy

Request(t) ==
    /\ Room /\ todo[t] = <<>>
    /\ \E method \in Methods : todo' = [todo EXCEPT ![t] = method]
    /\ UNCHANGED <<state, timer, held>>

TimerFires ==
    /\ Room /\ todo[Pool] = <<>> /\ timer # "none"
    /\ todo' = [todo EXCEPT ![Pool] = Task[timer]]
    /\ timer' = "none"
    /\ UNCHANGED <<state, held>>

\* Monitors are reentrant.
Free(lock, t) == \A u \in Threads \ {t} : ~Contains(held[u], lock)

\* What t does next, if it is of that kind.
Does(t, kind) == todo[t] # <<>> /\ Head(todo[t]).do = kind

Now(t) == Head(todo[t])

GoesOn(t, first) == todo' = [todo EXCEPT ![t] = first \o Tail(@)]

EnterMonitor(t) ==
    /\ Does(t, "enter") /\ Free(Now(t).lock, t)
    /\ held' = [held EXCEPT ![t] = Append(@, Now(t).lock)]
    /\ GoesOn(t, <<>>) /\ UNCHANGED <<state, timer>>

ExitMonitor(t) ==
    /\ Does(t, "exit")
    /\ held' = [held EXCEPT ![t] = Front(@)]
    /\ GoesOn(t, <<>>) /\ UNCHANGED <<state, timer>>

TouchMonitor(t) ==
    /\ Does(t, "touch") /\ Free(Now(t).lock, t)
    /\ GoesOn(t, <<>>) /\ UNCHANGED <<state, timer, held>>

ChangeState(t) ==
    /\ Does(t, "become") /\ state' = Now(t).state
    /\ GoesOn(t, <<>>) /\ UNCHANGED <<timer, held>>

ChangeTimer(t) ==
    /\ Does(t, "pend") /\ timer' = Now(t).task
    /\ GoesOn(t, <<>>) /\ UNCHANGED <<state, held>>

Branch(t) ==
    /\ \/ Does(t, "when") /\ GoesOn(t, IF state \in Now(t).states THEN Now(t).yes ELSE Now(t).no)
       \/ Does(t, "either") /\ (GoesOn(t, Now(t).one) \/ GoesOn(t, Now(t).other))
    /\ UNCHANGED <<state, timer, held>>

Step(t) ==
    \/ EnterMonitor(t) \/ ExitMonitor(t) \/ TouchMonitor(t)
    \/ ChangeState(t) \/ ChangeTimer(t) \/ Branch(t)

Next ==
    \/ TimerFires
    \/ \E t \in Requests : Request(t)
    \/ \E t \in Threads : Step(t)

Spec == Init /\ [][Next]_vars

-----------------------------------------------------------------------------
\* t cannot go on before u leaves a monitor.
WaitsFor(t, u) ==
    /\ Does(t, "enter") \/ Does(t, "touch")
    /\ Contains(held[u], Now(t).lock)

\* No threads wait for each other for ever: whatever locks the methods of a game
\* nest ("Good idea to not nest synchronizes if possible", getWhiteCards).  The code does
\* not keep this: TLC shows a counterexample for each of the pairs below.
NoDeadlock ==
    \A stuck \in SUBSET Threads \ {{}} :
        \E t \in stuck : \A u \in stuck \ {t} : ~WaitsFor(t, u)

\* Two threads that wait for each other want two monitors that two methods take in
\* opposite orders.
WaitForEachOther(t, u) == t # u /\ WaitsFor(t, u) /\ WaitsFor(u, t)

\* There are no more than three pairs of monitors of which each of two threads may
\* hold one and wait for the other: startNextRound, playCard, judgeCard, the warnings
\* and the two skips of the judge nest theirs in orders that agree.
ThreePairs ==
    \A t, u \in Threads :
        WaitForEachOther(t, u) =>
            {Now(t).lock, Now(u).lock} \in
                {{"roundPlayers", "players"}, {"blackCardLock", "playedCards"},
                 {"roundPlayers", "playedCards"}}
=============================================================================
