-------------------------- MODULE MembershipProofs --------------------------
(***************************************************************************)
(* Proofs about the module Membership, for any number of users, objects    *)
(* and threads, any limits and whatever races are admitted; the last part  *)
(* needs that one thread at a time acts for a user.                        *)
(***************************************************************************)
EXTENDS Membership, TLAPS, FiniteSetTheorems, NaturalsInduction, WellFoundedInduction

-----------------------------------------------------------------------------
(* The invariant.                                                          *)

Holding == Entering \cup Departing \cup {"unwatch"}

TasksOK ==
    \A t \in Threads :
        /\ Busy(t) => thread[t].user \in Users
        /\ thread[t].pc \in Holding => thread[t].game \in Objects

\* A thread that has tested the size of a list is alone with the list until it
\* has extended it ...
Room(g) == PlayerLimit >= MinPlayers => Len(object[g].players) < PlayerLimit
RoomToWatch(g) == Cardinality(object[g].spectators) < SpectatorLimit

RoomKept ==
    \A t \in Threads :
        /\ thread[t].pc = "seat" => Room(thread[t].game)
        /\ thread[t].pc = "watch" => RoomToWatch(thread[t].game)

OneAdds ==
    \A s, t \in Threads : \A step \in {"seat", "watch"} :
        thread[s].pc = step /\ thread[t].pc = step /\ thread[s].game = thread[t].game => s = t

\* ... and one that creates a game is alone with the game.
FirstAlone ==
    \A t \in Threads : thread[t].pc = "first" =>
        /\ object[thread[t].game].players = <<>>
        /\ \A u \in Users : current[u] # thread[t].game
        /\ \A s \in Threads : s # t => thread[s].game # thread[t].game

Finite == \A g \in Objects : IsFiniteSet(object[g].spectators)

Orderly == TasksOK /\ RoomKept /\ OneAdds /\ FirstAlone /\ Finite /\ WithinLimits

IInv == TypeOK /\ Orderly

-----------------------------------------------------------------------------
(* Ids and serials.                                                        *)

LEMMA Least ==
    ASSUME NEW S \in SUBSET Nat, S # {}
    PROVE  \E n \in S : \A m \in S : n <= m
  <1>1. \E x \in S : \A y \in S : ~(<<y, x>> \in OpToRel(<, Nat))
    BY WFMin, NatLessThanWellFounded
  <1>2. \A x, y \in Nat : y < x => <<y, x>> \in OpToRel(<, Nat)
    BY DEF OpToRel
  <1>3. PICK x \in S : \A y \in S : ~(<<y, x>> \in OpToRel(<, Nat))
    BY <1>1
  <1>4. ASSUME NEW y \in S PROVE ~(y < x)
    BY <1>2, <1>3
  <1>5. ASSUME NEW y \in S PROVE x <= y
    BY <1>4
  <1> QED
    BY <1>5

LEMMA IdsFacts == Ids \subseteq Nat /\ 0 \in Ids /\ IsFiniteSet(Ids) /\ Cardinality(Ids) = MaxGames
  <1>1. /\ IsFiniteSet(0..(MaxGames - 1))
        /\ Cardinality(0..(MaxGames - 1)) =
             IF 0 > MaxGames - 1 THEN 0 ELSE (MaxGames - 1) - 0 + 1
    BY BoundsAssumption, FS_Interval
  <1> QED
    BY <1>1, BoundsAssumption DEF Ids

\* The loop of candidateGameId finds an id that is not used, if there is room.
LEMMA CandidateFacts ==
    ASSUME NEW used \in SUBSET Ids, NEW skip \in Int
    PROVE  /\ Candidate(used, skip) \in (Ids \ used) \cup {-1}
           /\ Cardinality(used) < MaxGames /\ skip \notin Ids =>
                  Candidate(used, skip) \in Ids \ used
  <1> DEFINE open == Ids \ (used \cup {skip})
  <1>1. open \in SUBSET Nat
    BY IdsFacts
  <1>2. CASE Cardinality(used) >= MaxGames \/ open = {}
    <2>1. Candidate(used, skip) = -1
      BY <1>2 DEF Candidate
    <2>2. Cardinality(used) < MaxGames => used # Ids
      BY IdsFacts, BoundsAssumption
    <2>3. Cardinality(used) \in Nat
      BY IdsFacts, FS_Subset, FS_CardinalityType
    <2>4. ASSUME Cardinality(used) < MaxGames, skip \notin Ids PROVE FALSE
      BY <1>2, <2>2, <2>3, <2>4, BoundsAssumption
    <2> QED
      BY <2>1, <2>4
  <1>3. CASE ~(Cardinality(used) >= MaxGames \/ open = {})
    <2>1. \E id \in open : \A other \in open : id <= other
      BY <1>1, <1>3, Least
    <2>2. Candidate(used, skip) = CHOOSE id \in open : \A other \in open : id <= other
      BY <1>3 DEF Candidate
    <2> HIDE DEF open
    <2>3. Candidate(used, skip) \in open
      BY <2>1, <2>2
    <2> QED
      BY <2>3 DEF open
  <1> QED
    BY <1>2, <1>3

LEMMA NewPlayerType ==
    ASSUME NEW u \in Users, FreshSerials(u) # {}
    PROVE  NewPlayer(u) \in Players /\ NewPlayer(u).user = u
  <1>1. FreshSerials(u) \in SUBSET Nat /\ FreshSerials(u) \subseteq Serials
    BY BoundsAssumption DEF FreshSerials
  <1>2. \E s \in FreshSerials(u) : \A r \in FreshSerials(u) : s <= r
    BY <1>1, Least
  <1> DEFINE least == CHOOSE s \in FreshSerials(u) : \A r \in FreshSerials(u) : s <= r
  <1>3. least \in FreshSerials(u)
    BY <1>2
  <1>4. NewPlayer(u) = [user |-> u, serial |-> least]
    BY DEF NewPlayer
  <1> HIDE DEF least
  <1> QED
    BY <1>1, <1>3, <1>4 DEF Players

LEMMA GetIdFacts ==
    ASSUME TypeOK
    PROVE  /\ Known \in SUBSET Ids
           /\ GetId \in (Ids \ Known) \cup {-1}
           /\ Cardinality(Known) < MaxGames => GetId \in Ids \ Known
  <1>1. Known \in SUBSET Ids
    BY DEF Known
  <1>2. -1 \notin Ids
    BY IdsFacts
  <1>3. /\ Candidate(Known, -1) \in (Ids \ Known) \cup {-1}
        /\ Cardinality(Known) < MaxGames => Candidate(Known, -1) \in Ids \ Known
    BY <1>1, <1>2, CandidateFacts
  <1>4. nextId >= 0 => nextId \in Ids
    BY DEF TypeOK
  <1> QED
    BY <1>1, <1>3, <1>4 DEF GetId

-----------------------------------------------------------------------------
(* Types.                                                                  *)

\* What a step does to the records of the threads.
Turns(t, r) == r \in Tasks /\ thread' = [thread EXCEPT ![t] = r]

LEMMA IdleType == Idle \in Tasks
  BY DEF Idle, Tasks, Steps, Reasons

LEMMA DoneTurns ==
    ASSUME NEW t \in Threads, Done(t) PROVE Turns(t, Idle)
  BY IdleType DEF Done, Turns

LEMMA GotoTurns ==
    ASSUME TypeOK, NEW t \in Threads, NEW pc \in Steps, Goto(t, pc)
    PROVE  Turns(t, [thread[t] EXCEPT !.pc = pc])
  BY DEF TypeOK, Tasks, Goto, Turns

LEMMA GotoWithTurns ==
    ASSUME TypeOK, NEW t \in Threads, NEW pc \in Steps,
           NEW p \in Players \cup {NoPlayer}, GotoWith(t, pc, p)
    PROVE  Turns(t, [thread[t] EXCEPT !.pc = pc, !.player = p])
  <1>1. [thread EXCEPT ![t].pc = pc, ![t].player = p]
          = [thread EXCEPT ![t] = [thread[t] EXCEPT !.pc = pc, !.player = p]]
    BY DEF TypeOK, Tasks
  <1>2. [thread[t] EXCEPT !.pc = pc, !.player = p] \in Tasks
    BY DEF TypeOK, Tasks
  <1> QED
    BY <1>1, <1>2 DEF GotoWith, Turns

LEMMA AfterRemovalTurns ==
    ASSUME TypeOK, NEW t \in Threads, AfterRemoval(t)
    PROVE  \/ Turns(t, Idle)
           \/ Turns(t, [thread[t] EXCEPT !.pc = "unwatch", !.player = NoPlayer])
  BY DoneTurns, GotoWithTurns DEF AfterRemoval, Steps, Closing

LEMMA TurnsType ==
    ASSUME TypeOK, NEW t \in Threads, NEW r, Turns(t, r)
    PROVE  /\ thread' \in [Threads -> Tasks]
           /\ thread'[t] = r
           /\ \A s \in Threads : s # t => thread'[s] = thread[s]
  BY DEF TypeOK, Turns

-----------------------------------------------------------------------------
(* Steps that add nobody: every step but those that take a seat and the    *)
(* creation of a game.                                                     *)

\* The lists get no longer, and users at most lose their game.
Shrinks ==
    /\ \A g \in Objects :
          /\ Len(object'[g].players) <= Len(object[g].players)
          /\ IsFiniteSet(object'[g].spectators)
          /\ Cardinality(object'[g].spectators) <= Cardinality(object[g].spectators)
    /\ \A u \in Users : current'[u] \in {current[u], NoGame}

\* The thread goes on in a way that suits the others.
Moves(t, r) ==
    /\ Turns(t, r)
    /\ r.pc # "idle" => r.user \in Users
    /\ r.pc \in Holding => r.game \in Objects
    /\ r.pc # "first"
    /\ r.pc = "seat" => Room(r.game) /\ PlayersFree(r.game)
    /\ r.pc = "watch" => RoomToWatch(r.game) /\ SpectatorsFree(r.game)
    /\ \A s \in Threads \ {t} : thread[s].pc = "first" => r.game # thread[s].game

LEMMA MoveKeeps ==
    ASSUME IInv, TypeOK', Shrinks, NEW t \in Threads, NEW r, Moves(t, r)
    PROVE  Orderly'
  <1>1. /\ TypeOK /\ TasksOK /\ RoomKept /\ OneAdds /\ FirstAlone /\ Finite /\ WithinLimits
    BY DEF IInv, Orderly
  <1>2. /\ r \in Tasks
        /\ thread'[t] = r
        /\ \A s \in Threads : s # t => thread'[s] = thread[s]
    BY <1>1, TurnsType DEF Moves, Turns
  <1>3. TasksOK'
    BY <1>1, <1>2 DEF TasksOK, Busy, Moves
  <1>4. \A g \in Objects :
            /\ Len(object[g].players) \in Nat /\ Len(object'[g].players) \in Nat
            /\ Cardinality(object[g].spectators) \in Nat
            /\ Cardinality(object'[g].spectators) \in Nat
    BY <1>1, FS_CardinalityType DEF TypeOK, GameObjects, Finite, Shrinks
  <1>5. Finite'
    BY DEF Finite, Shrinks
  <1>6. WithinLimits'
    BY <1>1, <1>4, BoundsAssumption DEF WithinLimits, Shrinks
  <1>7. \A s \in Threads : thread[s].pc \in {"seat", "watch", "first"} => thread[s].game \in Objects
    BY <1>1 DEF TasksOK, Holding, Entering
  <1>8. r.pc \in {"seat", "watch"} => r.game \in Objects
    BY DEF Moves, Holding, Entering
  <1> DEFINE RoomThen(g) == PlayerLimit >= MinPlayers => Len(object'[g].players) < PlayerLimit
             RoomToWatchThen(g) == Cardinality(object'[g].spectators) < SpectatorLimit
  <1>9. \A g \in Objects : /\ Room(g) => RoomThen(g)
                           /\ RoomToWatch(g) => RoomToWatchThen(g)
    BY <1>4, BoundsAssumption DEF Room, RoomToWatch, Shrinks
  <1>10. RoomKept'
    <2> SUFFICES ASSUME NEW s \in Threads
                 PROVE  /\ thread'[s].pc = "seat" => RoomThen(thread'[s].game)
                        /\ thread'[s].pc = "watch" => RoomToWatchThen(thread'[s].game)
      BY DEF RoomKept, Room, RoomToWatch
    <2> HIDE DEF RoomThen, RoomToWatchThen
    <2>1. CASE s = t
      BY <1>2, <1>8, <1>9, <2>1 DEF Moves
    <2>2. CASE s # t
      BY <1>1, <1>2, <1>7, <1>9, <2>2 DEF RoomKept
    <2> QED
      BY <2>1, <2>2
  <1>11. OneAdds'
    BY <1>1, <1>2 DEF OneAdds, Moves, PlayersFree, SpectatorsFree
  <1>12. FirstAlone'
    <2> SUFFICES ASSUME NEW s \in Threads, thread'[s].pc = "first"
                 PROVE  /\ object'[thread'[s].game].players = <<>>
                        /\ \A u \in Users : current'[u] # thread'[s].game
                        /\ \A q \in Threads : q # s => thread'[q].game # thread'[s].game
      BY DEF FirstAlone
    <2>1. s # t /\ thread'[s] = thread[s] /\ thread[s].game \in Objects
      BY <1>2, <1>7 DEF Moves
    <2>2. /\ object[thread[s].game].players = <<>>
          /\ \A u \in Users : current[u] # thread[s].game
          /\ \A q \in Threads : q # s => thread[q].game # thread[s].game
      BY <1>1, <2>1 DEF FirstAlone
    <2>3. object'[thread[s].game].players = <<>>
      <3>1. object'[thread[s].game].players \in Seq(Players)
        BY <2>1 DEF TypeOK, GameObjects
      <3>2. Len(object'[thread[s].game].players) <= 0
        BY <2>1, <2>2 DEF Shrinks
      <3> QED
        BY <3>1, <3>2
    <2>4. \A u \in Users : current'[u] # thread[s].game
      BY <2>1, <2>2, NullsAssumption DEF Shrinks
    <2>5. \A q \in Threads : q # s => thread'[q].game # thread[s].game
      BY <1>2, <2>1, <2>2 DEF Moves
    <2> QED
      BY <2>1, <2>3, <2>4, <2>5
  <1> QED
    BY <1>3, <1>5, <1>6, <1>10, <1>11, <1>12 DEF Orderly

LEMMA SameShrinks ==
    ASSUME IInv, UNCHANGED <<object, current>> PROVE Shrinks
  <1>1. \A g \in Objects : /\ IsFiniteSet(object[g].spectators)
                           /\ Cardinality(object[g].spectators) \in Nat
                           /\ Len(object[g].players) \in Nat
    BY FS_CardinalityType DEF IInv, Orderly, Finite, TypeOK, GameObjects
  <1> QED
    BY <1>1 DEF Shrinks

\* A thread that goes idle, or goes on with the game it has, suits the others.
LEMMA IdleMoves ==
    ASSUME IInv, NEW t \in Threads, Turns(t, Idle) PROVE Moves(t, Idle)
  BY NullsAssumption DEF Moves, Idle, IInv, Orderly, FirstAlone, TasksOK, Holding, Entering,
     Departing

LEMMA GoesOn ==
    ASSUME IInv, NEW t \in Threads, NEW r, Turns(t, r),
           thread[t].pc # "idle", r.user = thread[t].user, r.game = thread[t].game,
           r.pc \notin {"first", "seat", "watch"},
           r.pc \in Holding => thread[t].pc \in Holding
    PROVE  Moves(t, r)
  BY DEF Moves, IInv, Orderly, FirstAlone, TasksOK, Busy

\* Nobody enters a game that is being created.
LEMMA NotBeingCreated ==
    ASSUME IInv, NEW u \in Users, NEW t \in Threads, thread[t].pc = "first"
    PROVE  current[u] # thread[t].game
  BY DEF IInv, Orderly, FirstAlone

-----------------------------------------------------------------------------
(* Entering.                                                               *)

LEMMA LookUpStep ==
    ASSUME IInv, NEW t \in Threads, NEW u \in Users, NEW id \in Ids,
           NEW how \in {"join", "spectate"}, LookUp(t, u, id, how)
    PROVE  IInv'
  <1> DEFINE r == [pc |-> how, user |-> u, game |-> games[id], player |-> NoPlayer,
                   why |-> "leave"]
  <1>1. games[id] \in Objects
    BY DEF IInv, TypeOK, LookUp
  <1>2. Turns(t, r)
    BY <1>1 DEF LookUp, StartTask, Turns, Tasks, Steps, Entering, Reasons
  <1>3. Moves(t, r)
    BY <1>1, <1>2 DEF Moves, LookUp, GamesFree
  <1>4. TypeOK'
    BY <1>2, TurnsType DEF IInv, TypeOK, LookUp
  <1> QED
    BY <1>3, <1>4, MoveKeeps, SameShrinks DEF IInv, LookUp

LEMMA JoinGameStep ==
    ASSUME IInv, NEW t \in Threads, JoinGame(t) PROVE IInv'
  <1> DEFINE g == thread[t].game
             r == [thread[t] EXCEPT !.pc = "seat"]
  <1>1. /\ g \in Objects /\ thread[t].user \in Users /\ thread[t] \in Tasks
        /\ thread[t].pc = "join" /\ PlayersFree(g)
    BY DEF JoinGame, IInv, Orderly, TasksOK, Busy, Holding, Entering, TypeOK
  <1>2. CASE Done(t)
    <2>1. Turns(t, Idle) /\ Moves(t, Idle)
      BY <1>2, DoneTurns, IdleMoves
    <2> QED
      BY <2>1, TurnsType, MoveKeeps, SameShrinks DEF IInv, TypeOK, JoinGame
  <1>3. CASE Goto(t, "seat") /\ ~Full(g)
    <2>1. Turns(t, r)
      BY <1>3, GotoTurns DEF IInv, Steps, Entering
    <2>2. r.pc = "seat" /\ r.game = g /\ r.user = thread[t].user
      BY <1>1 DEF Tasks
    <2>3. Room(g)
      <3>1. Len(object[g].players) \in Nat
        BY <1>1 DEF IInv, TypeOK, GameObjects
      <3> QED
        BY <1>3, <3>1, BoundsAssumption DEF Full, Room
    <2>4. \A s \in Threads \ {t} : thread[s].pc = "first" => g # thread[s].game
      BY DEF IInv, Orderly, FirstAlone
    <2>5. Moves(t, r)
      <3> HIDE DEF r, g
      <3> QED
        BY <1>1, <2>1, <2>2, <2>3, <2>4 DEF Moves
    <2> HIDE DEF r
    <2> QED
      BY <2>1, <2>5, TurnsType, MoveKeeps, SameShrinks DEF IInv, TypeOK, JoinGame
  <1> QED
    BY <1>2, <1>3 DEF JoinGame

LEMMA SpectateGameStep ==
    ASSUME IInv, NEW t \in Threads, SpectateGame(t) PROVE IInv'
  <1> DEFINE g == thread[t].game
             r == [thread[t] EXCEPT !.pc = "watch"]
  <1>1. /\ g \in Objects /\ thread[t].user \in Users /\ thread[t] \in Tasks
        /\ thread[t].pc = "spectate" /\ SpectatorsFree(g)
    BY DEF SpectateGame, IInv, Orderly, TasksOK, Busy, Holding, Entering, TypeOK
  <1>2. CASE Done(t)
    <2>1. Turns(t, Idle) /\ Moves(t, Idle)
      BY <1>2, DoneTurns, IdleMoves
    <2> QED
      BY <2>1, TurnsType, MoveKeeps, SameShrinks DEF IInv, TypeOK, SpectateGame
  <1>3. CASE Goto(t, "watch") /\ ~(Cardinality(object[g].spectators) >= SpectatorLimit)
    <2>1. Turns(t, r)
      BY <1>3, GotoTurns DEF IInv, Steps, Entering
    <2>2. r.pc = "watch" /\ r.game = g /\ r.user = thread[t].user
      BY <1>1 DEF Tasks
    <2>3. RoomToWatch(g)
      <3>1. Cardinality(object[g].spectators) \in Nat
        BY <1>1, FS_CardinalityType DEF IInv, Orderly, Finite
      <3> QED
        BY <1>3, <3>1, BoundsAssumption DEF RoomToWatch
    <2>4. \A s \in Threads \ {t} : thread[s].pc = "first" => g # thread[s].game
      BY DEF IInv, Orderly, FirstAlone
    <2>5. Moves(t, r)
      <3> HIDE DEF r, g
      <3> QED
        BY <1>1, <2>1, <2>2, <2>3, <2>4 DEF Moves
    <2> HIDE DEF r
    <2> QED
      BY <2>1, <2>5, TurnsType, MoveKeeps, SameShrinks DEF IInv, TypeOK, SpectateGame
  <1> QED
    BY <1>2, <1>3 DEF SpectateGame

\* Only the thread that was alone with the list extends it, and there was room.
LEMMA SeatPlayerStep ==
    ASSUME IInv, NEW t \in Threads, SeatPlayer(t) PROVE IInv'
  <1> DEFINE g == thread[t].game
             u == thread[t].user
             p == NewPlayer(u)
  <1>1. /\ g \in Objects /\ u \in Users /\ thread[t].pc \in {"seat", "first"}
        /\ FreshSerials(u) # {}
    BY DEF SeatPlayer, IInv, Orderly, TasksOK, Busy, Holding, Entering
  <1>2. p \in Players
    BY <1>1, NewPlayerType
  <1>3. /\ current' = [current EXCEPT ![u] = g]
        /\ object' = [object EXCEPT ![g].players = Append(@, p), ![g].host = FirstHost(g, p)]
        /\ Done(t)
        /\ UNCHANGED <<games, nextId, valid>>
    BY DEF SeatPlayer
  <1>4. /\ object \in [Objects -> GameObjects] /\ current \in [Users -> Objects \cup {NoGame}]
        /\ thread \in [Threads -> Tasks]
    BY DEF IInv, TypeOK
  <1>5. TasksOK /\ RoomKept /\ OneAdds /\ FirstAlone /\ Finite /\ WithinLimits
    BY DEF IInv, Orderly
  <1>6. /\ thread' \in [Threads -> Tasks] /\ thread'[t] = Idle
        /\ \A s \in Threads : s # t => thread'[s] = thread[s]
    BY <1>3, DoneTurns, TurnsType DEF IInv
  <1> HIDE DEF g, u, p
  <1>7. FirstHost(g, p) \in Players \cup {NoPlayer}
    BY <1>1, <1>2, <1>4 DEF FirstHost, GameObjects
  <1>8. /\ object' \in [Objects -> GameObjects]
        /\ object'[g].players = Append(object[g].players, p)
        /\ \A q \in Objects : object'[q].spectators = object[q].spectators
        /\ \A q \in Objects : q # g => object'[q] = object[q]
    <2>1. object[g] \in GameObjects /\ Append(object[g].players, p) \in Seq(Players)
      BY <1>1, <1>2, <1>4 DEF GameObjects
    <2>2. [object[g] EXCEPT !.players = Append(object[g].players, p),
                            !.host = FirstHost(g, p)] \in GameObjects
      BY <1>7, <2>1 DEF GameObjects
    <2>3. object' = [object EXCEPT ![g] = [object[g] EXCEPT
                        !.players = Append(object[g].players, p), !.host = FirstHost(g, p)]]
      BY <1>1, <1>3, <1>4 DEF GameObjects
    <2> QED
      BY <1>1, <1>4, <2>1, <2>2, <2>3 DEF GameObjects
  <1>9. TypeOK'
    BY <1>1, <1>3, <1>4, <1>6, <1>8 DEF IInv, TypeOK
  <1>10. TasksOK'
    BY <1>5, <1>6 DEF TasksOK, Busy, Idle, Holding, Entering, Departing
  <1>11. Finite'
    BY <1>5, <1>8 DEF Finite
  <1>12. Room(g)
    <2>1. CASE thread[t].pc = "seat"
      BY <1>5, <2>1 DEF RoomKept, g
    <2>2. CASE object[g].players = <<>>
      BY <2>2, BoundsAssumption DEF Room, MinPlayers
    <2> QED
      BY <1>1, <1>5, <2>1, <2>2 DEF FirstAlone, g
  <1>13. \A q \in Objects : Len(object[q].players) \in Nat
    BY <1>4 DEF GameObjects
  <1>14. Len(object'[g].players) = Len(object[g].players) + 1
    BY <1>1, <1>2, <1>4, <1>8 DEF GameObjects
  <1>15. WithinLimits'
    BY <1>5, <1>8, <1>12, <1>13, <1>14, BoundsAssumption DEF WithinLimits, Room
  <1>16. \A s \in Threads : s # t /\ thread[s].pc \in {"seat", "first"} => thread[s].game # g
    BY <1>1, <1>5 DEF OneAdds, FirstAlone, g
  <1>17. RoomKept'
    <2> SUFFICES ASSUME NEW s \in Threads, s # t
                 PROVE  /\ thread[s].pc = "seat" =>
                              (PlayerLimit >= MinPlayers =>
                                  Len(object'[thread[s].game].players) < PlayerLimit)
                        /\ thread[s].pc = "watch" =>
                              Cardinality(object'[thread[s].game].spectators) < SpectatorLimit
      BY <1>6 DEF RoomKept, Room, RoomToWatch, Idle
    <2>1. thread[s].pc \in {"seat", "watch"} => thread[s].game \in Objects
      BY <1>5 DEF TasksOK, Holding, Entering
    <2> QED
      BY <1>5, <1>8, <1>16, <2>1 DEF RoomKept, Room, RoomToWatch
  <1>18. OneAdds'
    BY <1>5, <1>6 DEF OneAdds, Idle
  <1>19. FirstAlone'
    <2> SUFFICES ASSUME NEW s \in Threads, s # t, thread[s].pc = "first"
                 PROVE  /\ object'[thread[s].game].players = <<>>
                        /\ \A v \in Users : current'[v] # thread[s].game
                        /\ \A q \in Threads : q # s => thread'[q].game # thread[s].game
      BY <1>6 DEF FirstAlone, Idle
    <2>1. thread[s].game \in Objects /\ thread[s].game # g
      BY <1>5, <1>16 DEF TasksOK, Holding, Entering
    <2>2. \A q \in Threads : q # s => thread'[q].game # thread[s].game
      BY <1>5, <1>6, <2>1, NullsAssumption DEF FirstAlone, Idle
    <2>3. \A v \in Users : current'[v] # thread[s].game
      BY <1>1, <1>3, <1>4, <1>5, <2>1 DEF FirstAlone
    <2>4. object'[thread[s].game].players = <<>>
      BY <1>5, <1>8, <2>1 DEF FirstAlone
    <2> QED
      BY <2>2, <2>3, <2>4
  <1> QED
    BY <1>9, <1>10, <1>11, <1>15, <1>17, <1>18, <1>19 DEF IInv, Orderly

LEMMA SeatSpectatorStep ==
    ASSUME IInv, NEW t \in Threads, SeatSpectator(t) PROVE IInv'
  <1> DEFINE g == thread[t].game
             u == thread[t].user
  <1>1. g \in Objects /\ u \in Users /\ thread[t].pc = "watch"
    BY DEF SeatSpectator, IInv, Orderly, TasksOK, Busy, Holding, Entering
  <1>2. /\ current' = [current EXCEPT ![u] = g]
        /\ object' = [object EXCEPT ![g].spectators = @ \cup {u}]
        /\ Done(t)
        /\ UNCHANGED <<games, nextId, valid>>
    BY DEF SeatSpectator
  <1>3. /\ object \in [Objects -> GameObjects] /\ current \in [Users -> Objects \cup {NoGame}]
        /\ thread \in [Threads -> Tasks]
    BY DEF IInv, TypeOK
  <1>4. TasksOK /\ RoomKept /\ OneAdds /\ FirstAlone /\ Finite /\ WithinLimits
    BY DEF IInv, Orderly
  <1>5. /\ thread' \in [Threads -> Tasks] /\ thread'[t] = Idle
        /\ \A s \in Threads : s # t => thread'[s] = thread[s]
    BY <1>2, DoneTurns, TurnsType DEF IInv
  <1> HIDE DEF g, u
  <1>6. /\ object' \in [Objects -> GameObjects]
        /\ object'[g].spectators = object[g].spectators \cup {u}
        /\ \A q \in Objects : object'[q].players = object[q].players
        /\ \A q \in Objects : q # g => object'[q] = object[q]
    BY <1>1, <1>2, <1>3 DEF GameObjects
  <1>7. TypeOK'
    BY <1>1, <1>2, <1>3, <1>5, <1>6 DEF IInv, TypeOK
  <1>8. TasksOK'
    BY <1>4, <1>5 DEF TasksOK, Busy, Idle, Holding, Entering, Departing
  <1>9. /\ IsFiniteSet(object'[g].spectators)
        /\ Cardinality(object[g].spectators) \in Nat
        /\ Cardinality(object'[g].spectators) <= Cardinality(object[g].spectators) + 1
    <2>1. IsFiniteSet(object[g].spectators)
      BY <1>1, <1>4 DEF Finite
    <2>2. /\ IsFiniteSet(object[g].spectators \cup {u})
          /\ Cardinality(object[g].spectators \cup {u}) =
                IF u \in object[g].spectators THEN Cardinality(object[g].spectators)
                ELSE Cardinality(object[g].spectators) + 1
      BY <2>1, FS_AddElement
    <2>3. Cardinality(object[g].spectators) \in Nat
      BY <2>1, FS_CardinalityType
    <2> QED
      BY <1>6, <2>2, <2>3
  <1>10. Finite'
    BY <1>4, <1>6, <1>9 DEF Finite
  <1>11. RoomToWatch(g)
    BY <1>1, <1>4 DEF RoomKept, g
  <1>12. Cardinality(object'[g].spectators) <= SpectatorLimit
    <2>1. Cardinality(object'[g].spectators) \in Nat
      BY <1>9, FS_CardinalityType
    <2> QED
      BY <1>9, <1>11, <2>1, BoundsAssumption DEF RoomToWatch
  <1>13. WithinLimits'
    BY <1>4, <1>6, <1>12 DEF WithinLimits
  <1>14. \A s \in Threads : s # t /\ thread[s].pc \in {"watch", "first"} => thread[s].game # g
    BY <1>1, <1>4 DEF OneAdds, FirstAlone, g
  <1>15. RoomKept'
    <2> SUFFICES ASSUME NEW s \in Threads, s # t
                 PROVE  /\ thread[s].pc = "seat" =>
                              (PlayerLimit >= MinPlayers =>
                                  Len(object'[thread[s].game].players) < PlayerLimit)
                        /\ thread[s].pc = "watch" =>
                              Cardinality(object'[thread[s].game].spectators) < SpectatorLimit
      BY <1>5 DEF RoomKept, Room, RoomToWatch, Idle
    <2>1. thread[s].pc \in {"seat", "watch"} => thread[s].game \in Objects
      BY <1>4 DEF TasksOK, Holding, Entering
    <2> QED
      BY <1>4, <1>6, <1>14, <2>1 DEF RoomKept, Room, RoomToWatch
  <1>16. OneAdds'
    BY <1>4, <1>5 DEF OneAdds, Idle
  <1>17. FirstAlone'
    <2> SUFFICES ASSUME NEW s \in Threads, s # t, thread[s].pc = "first"
                 PROVE  /\ object'[thread[s].game].players = <<>>
                        /\ \A v \in Users : current'[v] # thread[s].game
                        /\ \A q \in Threads : q # s => thread'[q].game # thread[s].game
      BY <1>5 DEF FirstAlone, Idle
    <2>1. thread[s].game \in Objects /\ thread[s].game # g
      BY <1>4, <1>14 DEF TasksOK, Holding, Entering
    <2>2. \A q \in Threads : q # s => thread'[q].game # thread[s].game
      BY <1>4, <1>5, <2>1, NullsAssumption DEF FirstAlone, Idle
    <2>3. \A v \in Users : current'[v] # thread[s].game
      BY <1>1, <1>2, <1>3, <1>4, <2>1 DEF FirstAlone
    <2>4. object'[thread[s].game].players = <<>>
      BY <1>4, <1>6, <2>1 DEF FirstAlone
    <2> QED
      BY <2>2, <2>3, <2>4
  <1> QED
    BY <1>7, <1>8, <1>10, <1>13, <1>15, <1>16, <1>17 DEF IInv, Orderly

\* A new game is one that nothing refers to, and no other game has its id.
LEMMA CreateGameStep ==
    ASSUME IInv, NEW t \in Threads, NEW u \in Users, NEW g \in Objects, CreateGame(t, u, g)
    PROVE  IInv'
  <1> DEFINE id == GetId
             next == Candidate(Known, id)
             r == [pc |-> "first", user |-> u, game |-> g, player |-> NoPlayer, why |-> "leave"]
  <1>1. /\ object \in [Objects -> GameObjects] /\ current \in [Users -> Objects \cup {NoGame}]
        /\ thread \in [Threads -> Tasks] /\ games \in [Ids -> Objects \cup {NoGame}]
        /\ valid \in [Users -> BOOLEAN] /\ nextId \in Ids \cup {-1}
    BY DEF IInv, TypeOK
  <1>2. id \in Ids /\ next \in Ids \cup {-1}
    <2>1. Known \in SUBSET Ids /\ id \in Ids \cup {-1} /\ id >= 0
      BY GetIdFacts DEF IInv, CreateGame
    <2>2. id \in Ids /\ id \in Int
      BY <2>1, IdsFacts
    <2> QED
      BY <2>1, <2>2, CandidateFacts
  <1>3. g \in Fresh /\ GamesFree
    BY DEF CreateGame
  <1>4. TasksOK /\ RoomKept /\ OneAdds /\ FirstAlone /\ Finite /\ WithinLimits
    BY DEF IInv, Orderly
  <1>5. CASE current[u] # NoGame
    <2>1. /\ nextId' = NextIdAfterDestroy(next, Known, id)
          /\ UNCHANGED <<games, object, thread, current, valid>>
      BY <1>5 DEF CreateGame
    <2>2. nextId' \in Ids \cup {-1}
      BY <1>2, <2>1 DEF NextIdAfterDestroy
    <2>3. TypeOK'
      BY <1>1, <2>1, <2>2 DEF TypeOK
    <2>4. Orderly'
      BY <1>4, <2>1 DEF Orderly, TasksOK, RoomKept, OneAdds, FirstAlone, Finite, WithinLimits,
         Room, RoomToWatch, Busy
    <2> QED
      BY <2>3, <2>4 DEF IInv
  <1>6. CASE current[u] = NoGame
    <2>1. /\ games' = [games EXCEPT ![id] = g]
          /\ nextId' = next
          /\ object' = [object EXCEPT ![g] = [NewObject EXCEPT !.id = id]]
          /\ StartTask(t, "first", u, g, "leave")
          /\ UNCHANGED <<current, valid>>
      BY <1>6 DEF CreateGame
    <2> HIDE DEF id, next
    <2>2. Turns(t, r)
      BY <2>1 DEF StartTask, Turns, Tasks, Steps, Entering, Reasons
    <2>3. /\ thread' \in [Threads -> Tasks] /\ thread'[t] = r
          /\ \A s \in Threads : s # t => thread'[s] = thread[s]
      BY <2>2, TurnsType DEF IInv
    <2>4. /\ object' \in [Objects -> GameObjects]
          /\ object'[g].players = <<>> /\ object'[g].spectators = {}
          /\ \A q \in Objects : q # g => object'[q] = object[q]
      <3>1. NewObject \in GameObjects /\ NewObject.players = <<>> /\ NewObject.spectators = {}
        BY IdsFacts DEF NewObject, GameObjects
      <3> DEFINE new == [NewObject EXCEPT !.id = id]
      <3>2. new \in GameObjects /\ new.players = <<>> /\ new.spectators = {}
        BY <1>2, <3>1 DEF GameObjects
      <3> HIDE DEF new
      <3>3. object' = [object EXCEPT ![g] = new]
        BY <2>1 DEF new
      <3> QED
        BY <1>1, <3>2, <3>3
    <2>5. TypeOK'
      BY <1>1, <1>2, <2>1, <2>3, <2>4 DEF TypeOK
    <2>6. /\ \A v \in Users : current[v] # g
          /\ \A s \in Threads : thread[s].game # g /\ thread[s].pc # "first"
      BY <1>3 DEF Fresh, Referenced, GamesFree
    <2>7. TasksOK'
      BY <1>4, <2>3 DEF TasksOK, Busy
    <2>8. Finite'
      BY <1>4, <2>4, FS_EmptySet DEF Finite
    <2>9. WithinLimits'
      <3>1. Len(object'[g].players) = 0 /\ Cardinality(object'[g].spectators) = 0
        BY <2>4, FS_EmptySet
      <3>2. ASSUME NEW q \in Objects
            PROVE  /\ PlayerLimit >= MinPlayers => Len(object'[q].players) <= PlayerLimit
                   /\ Cardinality(object'[q].spectators) <= SpectatorLimit
        <4>1. CASE q = g
          BY <3>1, <4>1, BoundsAssumption
        <4>2. CASE q # g
          BY <1>4, <2>4, <4>2 DEF WithinLimits
        <4> QED
          BY <4>1, <4>2
      <3> QED
        BY <3>2 DEF WithinLimits
    <2>10. RoomKept'
      <3> SUFFICES ASSUME NEW s \in Threads, s # t
                   PROVE  /\ thread[s].pc = "seat" =>
                                (PlayerLimit >= MinPlayers =>
                                    Len(object'[thread[s].game].players) < PlayerLimit)
                          /\ thread[s].pc = "watch" =>
                                Cardinality(object'[thread[s].game].spectators) < SpectatorLimit
        BY <2>3 DEF RoomKept, Room, RoomToWatch
      <3>1. thread[s].pc \in {"seat", "watch"} => thread[s].game \in Objects
        BY <1>4 DEF TasksOK, Holding, Entering
      <3> QED
        BY <1>4, <2>4, <2>6, <3>1 DEF RoomKept, Room, RoomToWatch
    <2>11. OneAdds'
      BY <1>4, <2>3 DEF OneAdds
    <2>12. FirstAlone'
      BY <2>1, <2>3, <2>4, <2>6 DEF FirstAlone
    <2> QED
      BY <2>5, <2>7, <2>8, <2>9, <2>10, <2>11, <2>12 DEF IInv, Orderly
  <1> QED
    BY <1>5, <1>6

-----------------------------------------------------------------------------
(* Steps that only move a thread.                                          *)

LEMMA ThreadStep ==
    ASSUME IInv, NEW t \in Threads, NEW r, Moves(t, r),
           UNCHANGED <<games, nextId, object, current>>, valid' \in [Users -> BOOLEAN]
    PROVE  IInv'
  <1>1. TypeOK'
    BY TurnsType DEF IInv, TypeOK, Moves
  <1> QED
    BY <1>1, MoveKeeps, SameShrinks DEF IInv

\* A thread that goes on with its game, or goes idle.
LEMMA OnwardStep ==
    ASSUME IInv, NEW t \in Threads, NEW pc \in Steps \ {"first", "seat", "watch"},
           NEW p \in Players \cup {NoPlayer},
           thread[t].pc # "idle", pc \in Holding => thread[t].pc \in Holding,
           Done(t) \/ Goto(t, pc) \/ GotoWith(t, pc, p)
    PROVE  \E r : Moves(t, r)
  <1>1. thread[t] \in Tasks
    BY DEF IInv, TypeOK
  <1>2. CASE Done(t)
    BY <1>2, DoneTurns, IdleMoves
  <1>3. CASE Goto(t, pc)
    <2> DEFINE r == [thread[t] EXCEPT !.pc = pc]
    <2>1. Turns(t, r)
      BY <1>3, GotoTurns DEF IInv
    <2>2. r.pc = pc /\ r.user = thread[t].user /\ r.game = thread[t].game
      BY <1>1 DEF Tasks
    <2> HIDE DEF r
    <2> QED
      BY <2>1, <2>2, GoesOn
  <1>4. CASE GotoWith(t, pc, p)
    <2> DEFINE r == [thread[t] EXCEPT !.pc = pc, !.player = p]
    <2>1. Turns(t, r)
      BY <1>4, GotoWithTurns DEF IInv
    <2>2. r.pc = pc /\ r.user = thread[t].user /\ r.game = thread[t].game
      BY <1>1 DEF Tasks
    <2> HIDE DEF r
    <2> QED
      BY <2>1, <2>2, GoesOn
  <1> QED
    BY <1>2, <1>3, <1>4

LEMMA AfterRemovalMoves ==
    ASSUME IInv, NEW t \in Threads, thread[t].pc \in Holding, AfterRemoval(t)
    PROVE  \E r : Moves(t, r)
  BY OnwardStep DEF AfterRemoval, Steps, Closing, Holding, Entering, Departing

LEMMA PlayerForType ==
    ASSUME TypeOK, NEW g \in Objects, NEW u
    PROVE  PlayerFor(g, u) \in Players \cup {NoPlayer}
  <1>1. \A i \in 1..Len(object[g].players) : object[g].players[i] \in Players
    BY DEF TypeOK, GameObjects
  <1>2. PlayersIn(g) \subseteq Players
    BY <1>1 DEF PlayersIn
  <1>3. CASE u \in UsersIn(g)
    <2>1. \E p \in PlayersIn(g) : p.user = u
      BY <1>3 DEF UsersIn, PlayersIn
    <2>2. PlayerFor(g, u) = CHOOSE p \in PlayersIn(g) : p.user = u
      BY <1>3 DEF PlayerFor
    <2>3. (CHOOSE p \in PlayersIn(g) : p.user = u) \in PlayersIn(g)
      BY <2>1
    <2> QED
      BY <1>2, <2>2, <2>3
  <1>4. CASE u \notin UsersIn(g)
    BY <1>4 DEF PlayerFor
  <1> QED
    BY <1>3, <1>4

\* A request or a task that starts to remove somebody from a game that is not
\* being created.
LEMMA StartStep ==
    ASSUME IInv, NEW t \in Threads, NEW u \in Users, NEW g \in Objects,
           NEW p \in Players \cup {NoPlayer}, NEW pc \in Departing, NEW why \in Reasons,
           thread' = [thread EXCEPT ![t] =
                         [pc |-> pc, user |-> u, game |-> g, player |-> p, why |-> why]],
           \A s \in Threads : thread[s].pc = "first" => g # thread[s].game
    PROVE  \E r : Moves(t, r)
  <1> DEFINE r == [pc |-> pc, user |-> u, game |-> g, player |-> p, why |-> why]
  <1>1. Turns(t, r)
    BY DEF Turns, Tasks, Steps
  <1>2. Moves(t, r)
    BY <1>1 DEF Moves, Departing
  <1> QED
    BY <1>2

LEMMA LeaveGameStep ==
    ASSUME IInv, NEW t \in Threads, NEW u \in Users, LeaveGame(t, u) PROVE IInv'
  <1>1. current[u] \in Objects /\ NoPlayer \in Players \cup {NoPlayer}
    BY DEF IInv, TypeOK, LeaveGame
  <1>2. \A s \in Threads : thread[s].pc = "first" => current[u] # thread[s].game
    BY NotBeingCreated
  <1>3. \E r : Moves(t, r)
    BY <1>1, <1>2, StartStep DEF LeaveGame, StartTask, Departing, Reasons
  <1> QED
    BY <1>3, ThreadStep DEF LeaveGame, IInv, TypeOK

LEMMA KickIdleStep ==
    ASSUME IInv, NEW t \in Threads, NEW u \in Users, NEW g \in Objects, KickIdle(t, u, g)
    PROVE  IInv'
  <1>1. \A s \in Threads : thread[s].pc = "first" => g # thread[s].game
    <2>1. object[g].players # <<>>
      BY DEF KickIdle, UsersIn
    <2> QED
      BY <2>1 DEF IInv, Orderly, FirstAlone
  <1>2. \E r : Moves(t, r)
    BY <1>1, StartStep DEF KickIdle, StartTask, Departing, Reasons
  <1> QED
    BY <1>2, ThreadStep DEF KickIdle, IInv, TypeOK

LEMMA DisconnectStep ==
    ASSUME IInv, NEW t \in Threads, NEW u \in Users, Disconnect(t, u) PROVE IInv'
  <1> DEFINE pc == IF current[u] = NoGame THEN "invalidate" ELSE "reread"
             r == [pc |-> pc, user |-> u, game |-> NoGame, player |-> NoPlayer, why |-> "quit"]
  <1>1. pc \in Closing \ {"unwatch"}
    BY DEF Closing
  <1> HIDE DEF pc
  <1>2. r \in Tasks
    BY <1>1 DEF Tasks, Steps, Reasons, Closing
  <1>3. thread' = [thread EXCEPT ![t] = r]
    BY DEF Disconnect, StartTask, pc
  <1>4. \A s \in Threads : thread[s].pc = "first" => thread[s].game \in Objects
    BY DEF IInv, Orderly, TasksOK, Holding, Entering
  <1>5. Moves(t, r)
    BY <1>1, <1>2, <1>3, <1>4, NullsAssumption DEF Moves, Turns, Closing, Holding, Entering,
       Departing
  <1> QED
    BY <1>5, ThreadStep DEF Disconnect, IInv, TypeOK

LEMMA ReadGameStep ==
    ASSUME IInv, NEW t \in Threads, ReadGame(t) PROVE IInv'
  <1> DEFINE u == thread[t].user
             g == current[u]
             r == [thread[t] EXCEPT !.pc = "find", !.game = g]
  <1>1. u \in Users /\ thread[t] \in Tasks /\ thread[t].pc = "reread"
    BY DEF ReadGame, IInv, Orderly, TasksOK, Busy, TypeOK
  <1>2. CASE Done(t)
    BY <1>2, DoneTurns, IdleMoves, ThreadStep DEF ReadGame, IInv, TypeOK
  <1>3. CASE g # NoGame /\ thread' = [thread EXCEPT ![t].pc = "find", ![t].game = g]
    <2>1. g \in Objects
      BY <1>1, <1>3 DEF IInv, TypeOK
    <2>2. r \in Tasks /\ r.pc = "find" /\ r.user = u /\ r.game = g
      BY <1>1, <2>1 DEF Tasks, Steps, Departing
    <2>3. thread' = [thread EXCEPT ![t] = r]
      BY <1>1, <1>3 DEF IInv, TypeOK, Tasks
    <2>4. \A s \in Threads : thread[s].pc = "first" => g # thread[s].game
      BY <1>1, NotBeingCreated
    <2> HIDE DEF r, u, g
    <2>5. Moves(t, r)
      BY <1>1, <2>1, <2>2, <2>3, <2>4 DEF Moves, Turns
    <2> QED
      BY <2>5, ThreadStep DEF ReadGame, IInv, TypeOK
  <1> QED
    BY <1>2, <1>3 DEF ReadGame

LEMMA FindPlayerStep ==
    ASSUME IInv, NEW t \in Threads, FindPlayer(t) PROVE IInv'
  <1>1. thread[t].game \in Objects /\ thread[t].pc = "find" /\ "find" \in Holding
    BY DEF FindPlayer, IInv, Orderly, TasksOK, Holding, Departing
  <1>2. PlayerFor(thread[t].game, thread[t].user) \in Players \cup {NoPlayer}
    BY <1>1, PlayerForType DEF IInv
  <1>3. \E r : Moves(t, r)
    BY <1>1, <1>2, AfterRemovalMoves, OnwardStep DEF FindPlayer, Steps, Departing, Holding
  <1> QED
    BY <1>3, ThreadStep DEF FindPlayer, IInv, TypeOK

LEMMA HostTestStep ==
    ASSUME IInv, NEW t \in Threads, HostTest(t) PROVE IInv'
  <1>1. thread[t].pc = "hostTest" /\ "hostTest" \in Holding
    BY DEF HostTest, Holding, Departing
  <1>2. \E r : Moves(t, r)
    BY <1>1, OnwardStep DEF HostTest, Steps, Departing, Holding
  <1> QED
    BY <1>2, ThreadStep DEF HostTest, IInv, TypeOK

LEMMA HostPickStep ==
    ASSUME IInv, NEW t \in Threads, HostPick(t) PROVE IInv'
  <1> DEFINE s == object[thread[t].game].players
  <1>1. /\ thread[t].game \in Objects /\ thread[t].pc = "hostPick" /\ "hostPick" \in Holding
        /\ NoPlayer \in Players \cup {NoPlayer}
    BY DEF HostPick, IInv, Orderly, TasksOK, Holding, Departing
  <1>2. s \in Seq(Players)
    BY <1>1 DEF IInv, TypeOK, GameObjects
  <1>3. s # <<>> => Head(s) \in Players \cup {NoPlayer}
    BY <1>2
  <1>4. s = <<>> \/ s # <<>>
    OBVIOUS
  <1>5. CASE Done(t)
    BY <1>5, DoneTurns, IdleMoves, ThreadStep DEF HostPick, IInv, TypeOK
  <1>6. CASE s # <<>> /\ GotoWith(t, "hostSet", Head(s))
    <2>1. \E r : Moves(t, r)
      BY <1>1, <1>3, <1>6, OnwardStep DEF Steps, Departing, Holding
    <2> QED
      BY <2>1, ThreadStep DEF HostPick, IInv, TypeOK
  <1> QED
    BY <1>5, <1>6 DEF HostPick

LEMMA CountPlayersStep ==
    ASSUME IInv, NEW t \in Threads, CountPlayers(t) PROVE IInv'
  <1>1. /\ thread[t].pc = "count" /\ "count" \in Holding
        /\ NoPlayer \in Players \cup {NoPlayer}
    BY DEF CountPlayers, Holding, Departing
  <1>2. \E r : Moves(t, r)
    BY <1>1, AfterRemovalMoves, OnwardStep DEF CountPlayers, Steps, Departing, Holding
  <1> QED
    BY <1>2, ThreadStep DEF CountPlayers, IInv, TypeOK

LEMMA InvalidateStep ==
    ASSUME IInv, NEW t \in Threads, Invalidate(t) PROVE IInv'
  <1>1. valid' \in [Users -> BOOLEAN]
    BY DEF Invalidate, IInv, TypeOK
  <1>2. Moves(t, Idle)
    BY DoneTurns, IdleMoves DEF Invalidate
  <1> QED
    BY <1>1, <1>2, ThreadStep DEF Invalidate

LEMMA HandOverStep ==
    ASSUME IInv, NEW t \in Threads, NEW u \in Users, NEW v \in Users, HandOver(t, u, v)
    PROVE  IInv'
  <1>1. current[u] \in Objects
    BY DEF IInv, TypeOK, HandOver
  <1>2. PlayerFor(current[u], v) \in Players \cup {NoPlayer}
    BY <1>1, PlayerForType DEF IInv
  <1>3. \A s \in Threads : thread[s].pc = "first" => current[u] # thread[s].game
    BY NotBeingCreated
  <1>4. \E r : Moves(t, r)
    BY <1>1, <1>2, <1>3, StartStep DEF HandOver, Departing, Reasons
  <1> QED
    BY <1>4, ThreadStep DEF HandOver, IInv, TypeOK

-----------------------------------------------------------------------------
(* Steps that set the host or shorten the lists.                           *)

LEMMA ShrinkStep ==
    ASSUME IInv, NEW t \in Threads, NEW r, Moves(t, r), Shrinks,
           games' \in [Ids -> Objects \cup {NoGame}], nextId' \in Ids \cup {-1},
           object' \in [Objects -> GameObjects], current' \in [Users -> Objects \cup {NoGame}],
           UNCHANGED valid
    PROVE  IInv'
  <1>1. TypeOK'
    BY TurnsType DEF IInv, TypeOK, Moves
  <1> QED
    BY <1>1, MoveKeeps DEF IInv

LEMMA SetHostStep ==
    ASSUME IInv, NEW t \in Threads, thread[t].pc \in {"hostSet", "hand"},
           object' = [object EXCEPT ![thread[t].game].host = thread[t].player],
           GotoWith(t, "count", NoPlayer) \/ Done(t),
           UNCHANGED <<games, nextId, current, valid>>
    PROVE  IInv'
  <1>1. /\ thread[t].pc \in Holding /\ thread[t].player \in Players \cup {NoPlayer}
        /\ NoPlayer \in Players \cup {NoPlayer}
    BY DEF IInv, TypeOK, Tasks, Holding, Departing
  <1>2. \E r : Moves(t, r)
    BY <1>1, OnwardStep DEF Steps, Departing, Holding
  <1>3. /\ object' \in [Objects -> GameObjects]
        /\ \A g \in Objects : /\ object'[g].players = object[g].players
                              /\ object'[g].spectators = object[g].spectators
    BY <1>1 DEF IInv, TypeOK, GameObjects
  <1>4. Shrinks
    <2>1. \A g \in Objects : /\ IsFiniteSet(object[g].spectators)
                             /\ Cardinality(object[g].spectators) \in Nat
                             /\ Len(object[g].players) \in Nat
      BY FS_CardinalityType DEF IInv, Orderly, Finite, TypeOK, GameObjects
    <2> QED
      BY <1>3, <2>1 DEF Shrinks
  <1> QED
    BY <1>2, <1>3, <1>4, ShrinkStep DEF IInv, TypeOK

LEMMA HostSetStep ==
    ASSUME IInv, NEW t \in Threads, HostSet(t) PROVE IInv'
  BY SetHostStep DEF HostSet

LEMMA ChangeHostStep ==
    ASSUME IInv, NEW t \in Threads, ChangeHost(t) PROVE IInv'
  BY SetHostStep DEF ChangeHost

\* The list without one of its players, where he is in it.
LEMMA RemovedFacts ==
    ASSUME NEW s \in Seq(Players), NEW p
    PROVE  LET q == Removed(s, p)
           IN  /\ q \in Seq(Players)
               /\ Len(q) <= Len(s)
               /\ (\A i \in 1..Len(s) : s[i] # p) => q = s
               /\ \A k \in 1..Len(s) :
                    s[k] = p /\ (\A i \in 1..Len(s) : s[i] = p => i = k) =>
                      /\ Len(q) = Len(s) - 1
                      /\ \A i \in 1..Len(q) : q[i] = IF i < k THEN s[i] ELSE s[i + 1]
  <1> DEFINE places == {i \in 1..Len(s) : s[i] = p}
             k == CHOOSE i \in places : TRUE
             q == Removed(s, p)
             n == Len(s)
  <1>1. n \in Nat
    OBVIOUS
  <1>2. CASE places = {}
    <2>1. q = s
      BY <1>2 DEF Removed
    <2>2. \A i \in 1..n : s[i] # p
      BY <1>2
    <2> QED
      BY <1>1, <2>1, <2>2
  <1>3. CASE places # {}
    <2>1. k \in 1..n /\ s[k] = p
      BY <1>3
    <2>2. q = [i \in 1..(n - 1) |-> IF i < k THEN s[i] ELSE s[i + 1]]
      BY <1>3 DEF Removed
    <2> HIDE DEF q, k
    <2>3. n - 1 \in Nat
      BY <1>1, <2>1
    <2>4. \A i \in 1..(n - 1) : q[i] \in Players
      BY <1>1, <2>1, <2>2
    <2>5. q \in Seq(Players) /\ Len(q) = n - 1
      BY <2>2, <2>3, <2>4
    <2>6. ~\A i \in 1..n : s[i] # p
      BY <2>1
    <2>7. ASSUME NEW m \in 1..n, \A i \in 1..n : s[i] = p => i = m
          PROVE  k = m
      BY <2>1, <2>7
    <2>8. \A i \in 1..(n - 1) : q[i] = IF i < k THEN s[i] ELSE s[i + 1]
      BY <2>2
    <2>9. ASSUME NEW m \in 1..n, \A i \in 1..n : s[i] = p => i = m
          PROVE  \A i \in 1..Len(q) : q[i] = IF i < m THEN s[i] ELSE s[i + 1]
      BY <2>5, <2>7, <2>8, <2>9
    <2>10. Len(q) <= n
      BY <1>1, <2>5
    <2> QED
      BY <2>5, <2>6, <2>9, <2>10 DEF q
  <1> QED
    BY <1>2, <1>3

LEMMA LeftByFacts ==
    ASSUME TypeOK, NEW us, NEW g, current' = LeftBy(us, g)
    PROVE  /\ current' \in [Users -> Objects \cup {NoGame}]
           /\ \A u \in Users : current'[u] \in {current[u], NoGame}
           /\ \A u \in us \cap Users : current'[u] # g \/ g = NoGame
           /\ \A u \in Users \ us : current'[u] = current[u]
           /\ \A u \in Users : current[u] # g => current'[u] = current[u]
           /\ \A u \in us \cap Users : current[u] = g => current'[u] = NoGame
  BY DEF TypeOK, LeftBy

LEMMA DropPlayerEffect ==
    ASSUME IInv, NEW t \in Threads, DropPlayer(t)
    PROVE  LET g == thread[t].game
           IN  /\ g \in Objects /\ thread[t].user \in Users
               /\ object' \in [Objects -> GameObjects]
               /\ object'[g].players = Removed(object[g].players, thread[t].player)
               /\ \A q \in Objects : object'[q].spectators = object[q].spectators
               /\ \A q \in Objects : q # g => object'[q] = object[q]
  <1> DEFINE g == thread[t].game
             s == Removed(object[g].players, thread[t].player)
  <1>1. g \in Objects /\ thread[t].user \in Users
    BY DEF DropPlayer, IInv, Orderly, TasksOK, Busy, Holding, Departing
  <1>2. object[g].players \in Seq(Players)
    BY <1>1 DEF IInv, TypeOK, GameObjects
  <1>3. s \in Seq(Players)
    BY <1>2, RemovedFacts
  <1>4. object' = [object EXCEPT ![g].players = s]
    BY DEF DropPlayer
  <1> HIDE DEF g, s
  <1>5. /\ object' \in [Objects -> GameObjects]
        /\ object'[g].players = s
        /\ \A q \in Objects : object'[q].spectators = object[q].spectators
        /\ \A q \in Objects : q # g => object'[q] = object[q]
    BY <1>1, <1>3, <1>4 DEF IInv, TypeOK, GameObjects
  <1> QED
    BY <1>1, <1>5 DEF g, s

LEMMA DropPlayerStep ==
    ASSUME IInv, NEW t \in Threads, DropPlayer(t) PROVE IInv'
  <1> DEFINE g == thread[t].game
  <1>1. TypeOK /\ thread[t].pc = "drop" /\ "drop" \in Holding /\ NoPlayer \in Players \cup {NoPlayer}
    BY DEF IInv, DropPlayer, Holding, Departing
  <1>2. \E r : Moves(t, r)
    BY <1>1, OnwardStep DEF DropPlayer, Steps, Departing, Holding
  <1>3. /\ g \in Objects
        /\ object' \in [Objects -> GameObjects]
        /\ object'[g].players = Removed(object[g].players, thread[t].player)
        /\ \A q \in Objects : object'[q].spectators = object[q].spectators
        /\ \A q \in Objects : q # g => object'[q] = object[q]
    BY DropPlayerEffect
  <1>4. current' = LeftBy({thread[t].user}, g)
    BY DEF DropPlayer
  <1> HIDE DEF g
  <1>5. /\ current' \in [Users -> Objects \cup {NoGame}]
        /\ \A u \in Users : current'[u] \in {current[u], NoGame}
    BY <1>1, <1>4, LeftByFacts
  <1>6. \A q \in Objects : Len(object'[q].players) <= Len(object[q].players)
    <2>1. object[g].players \in Seq(Players) /\ \A q \in Objects : Len(object[q].players) \in Nat
      BY <1>1, <1>3 DEF TypeOK, GameObjects
    <2>2. Len(object'[g].players) <= Len(object[g].players)
      BY <1>3, <2>1, RemovedFacts
    <2> QED
      BY <1>3, <2>1, <2>2
  <1>7. \A q \in Objects : /\ IsFiniteSet(object[q].spectators)
                           /\ Cardinality(object[q].spectators) \in Nat
    BY FS_CardinalityType DEF IInv, Orderly, Finite
  <1>8. Shrinks
    BY <1>3, <1>5, <1>6, <1>7 DEF Shrinks
  <1> QED
    BY <1>1, <1>2, <1>3, <1>5, <1>8, ShrinkStep DEF DropPlayer, TypeOK

\* destroyGame removes everybody from the lists of one game, or does nothing.
LEMMA DestroyGameEffect ==
    ASSUME IInv, NEW t \in Threads, DestroyGame(t)
    PROVE  LET id == object[thread[t].game].id
               g == games[id]
           IN  /\ thread[t].game \in Objects /\ thread[t].user \in Users /\ id \in Ids
               /\ \/ /\ g = NoGame /\ UNCHANGED <<games, nextId, object, current>>
                  \/ /\ g \in Objects
                     /\ games' = [games EXCEPT ![id] = NoGame]
                     /\ nextId' \in Ids \cup {-1}
                     /\ object' \in [Objects -> GameObjects]
                     /\ object'[g].players = <<>>
                     /\ object'[g].spectators = {}
                     /\ \A q \in Objects : q # g => object'[q] = object[q]
                     /\ current' = LeftBy(Evicted(g), g)
  <1> DEFINE id == object[thread[t].game].id
             g == games[id]
  <1>1. thread[t].game \in Objects /\ thread[t].user \in Users
    BY DEF DestroyGame, IInv, Orderly, TasksOK, Busy, Holding, Departing
  <1>2. id \in Ids
    BY <1>1 DEF IInv, TypeOK, GameObjects
  <1>3. CASE g = NoGame
    BY <1>1, <1>2, <1>3 DEF DestroyGame
  <1>4. CASE g # NoGame
    <2>1. g \in Objects
      BY <1>2, <1>4 DEF IInv, TypeOK
    <2>2. /\ games' = [games EXCEPT ![id] = NoGame]
          /\ nextId' = NextIdAfterDestroy(nextId, Known \ {id}, id)
          /\ current' = LeftBy(Evicted(g), g)
          /\ object' = [object EXCEPT
                 ![g].players = <<>>,
                 ![g].spectators = @ \ Evicted(g),
                 ![g].host = IF @ \in PlayersIn(g) THEN NoPlayer ELSE @]
      BY <1>4 DEF DestroyGame
    <2>3. nextId' \in Ids \cup {-1}
      BY <1>2, <2>2 DEF NextIdAfterDestroy, IInv, TypeOK
    <2> DEFINE host == IF object[g].host \in PlayersIn(g) THEN NoPlayer ELSE object[g].host
               rest == object[g].spectators \ Evicted(g)
               new == [object[g] EXCEPT !.players = <<>>, !.spectators = rest, !.host = host]
    <2>4. object[g] \in GameObjects
      BY <2>1 DEF IInv, TypeOK
    <2>5. host \in Players \cup {NoPlayer}
      BY <2>4 DEF GameObjects
    <2>6. rest = {}
      BY DEF Evicted
    <2>7. object' = [object EXCEPT ![g] = new]
      BY <2>1, <2>2, <2>4 DEF IInv, TypeOK, GameObjects
    <2> HIDE DEF host, rest, g, id
    <2>8. new \in GameObjects /\ new.players = <<>> /\ new.spectators = {}
      <3>1. <<>> \in Seq(Players)
        OBVIOUS
      <3> QED
        BY <2>4, <2>5, <2>6, <3>1 DEF GameObjects
    <2> HIDE DEF new
    <2>9. /\ object' \in [Objects -> GameObjects]
          /\ object'[g].players = <<>>
          /\ object'[g].spectators = {}
          /\ \A q \in Objects : q # g => object'[q] = object[q]
      BY <2>1, <2>7, <2>8 DEF IInv, TypeOK
    <2> QED
      BY <1>1, <1>2, <2>1, <2>2, <2>3, <2>9 DEF g, id
  <1> QED
    BY <1>3, <1>4

LEMMA DestroyGameStep ==
    ASSUME IInv, NEW t \in Threads, DestroyGame(t) PROVE IInv'
  <1> DEFINE id == object[thread[t].game].id
             g == games[id]
  <1>1. \E r : Moves(t, r)
    BY AfterRemovalMoves DEF DestroyGame, Holding, Departing
  <1>2. valid' = valid /\ valid \in [Users -> BOOLEAN]
    BY DEF DestroyGame, IInv, TypeOK
  <1>3. CASE UNCHANGED <<games, nextId, object, current>>
    BY <1>1, <1>2, <1>3, ThreadStep
  <1>4. CASE /\ g \in Objects /\ id \in Ids
             /\ games' = [games EXCEPT ![id] = NoGame]
             /\ nextId' \in Ids \cup {-1}
             /\ object' \in [Objects -> GameObjects]
             /\ object'[g].players = <<>>
             /\ object'[g].spectators = {}
             /\ \A q \in Objects : q # g => object'[q] = object[q]
             /\ current' = LeftBy(Evicted(g), g)
    <2> HIDE DEF g, id
    <2>1. /\ current' \in [Users -> Objects \cup {NoGame}]
          /\ \A u \in Users : current'[u] \in {current[u], NoGame}
      BY <1>4, LeftByFacts DEF IInv
    <2>2. \A q \in Objects : /\ IsFiniteSet(object[q].spectators)
                             /\ Cardinality(object[q].spectators) \in Nat
                             /\ Len(object[q].players) \in Nat
      BY FS_CardinalityType DEF IInv, Orderly, Finite, TypeOK, GameObjects
    <2>3. /\ Len(object'[g].players) = 0
          /\ IsFiniteSet(object'[g].spectators) /\ Cardinality(object'[g].spectators) = 0
      BY <1>4, FS_EmptySet
    <2>4. Shrinks
      <3>1. ASSUME NEW q \in Objects
            PROVE  /\ Len(object'[q].players) <= Len(object[q].players)
                   /\ IsFiniteSet(object'[q].spectators)
                   /\ Cardinality(object'[q].spectators) <= Cardinality(object[q].spectators)
        <4>1. CASE q = g
          BY <2>2, <2>3, <4>1
        <4>2. CASE q # g
          BY <1>4, <2>2, <4>2
        <4> QED
          BY <4>1, <4>2
      <3> QED
        BY <2>1, <3>1 DEF Shrinks
    <2>5. games' \in [Ids -> Objects \cup {NoGame}]
      BY <1>4 DEF IInv, TypeOK
    <2> QED
      BY <1>1, <1>2, <1>4, <2>1, <2>4, <2>5, ShrinkStep
  <1> QED
    BY <1>3, <1>4, DestroyGameEffect

LEMMA RemoveSpectatorEffect ==
    ASSUME IInv, NEW t \in Threads, RemoveSpectator(t)
    PROVE  LET g == thread[t].game
               u == thread[t].user
           IN  /\ g \in Objects /\ u \in Users
               /\ object' \in [Objects -> GameObjects]
               /\ object'[g].spectators = object[g].spectators \ {u}
               /\ \A q \in Objects : object'[q].players = object[q].players
               /\ \A q \in Objects : q # g => object'[q] = object[q]
               /\ current' \in [Users -> Objects \cup {NoGame}]
               /\ \A v \in Users : current'[v] \in {current[v], NoGame}
  <1> DEFINE g == thread[t].game
             u == thread[t].user
  <1>1. g \in Objects /\ u \in Users
    BY DEF RemoveSpectator, IInv, Orderly, TasksOK, Busy, Holding
  <1>2. /\ object' = [object EXCEPT ![g].spectators = @ \ {u}]
        /\ current' = IF u \in object[g].spectators THEN LeftBy({u}, g) ELSE current
    BY DEF RemoveSpectator
  <1> HIDE DEF g, u
  <1>3. /\ object' \in [Objects -> GameObjects]
        /\ object'[g].spectators = object[g].spectators \ {u}
        /\ \A q \in Objects : object'[q].players = object[q].players
        /\ \A q \in Objects : q # g => object'[q] = object[q]
    BY <1>1, <1>2 DEF IInv, TypeOK, GameObjects
  <1>4. /\ current' \in [Users -> Objects \cup {NoGame}]
        /\ \A v \in Users : current'[v] \in {current[v], NoGame}
    BY <1>2, LeftByFacts DEF IInv, TypeOK
  <1> QED
    BY <1>1, <1>3, <1>4 DEF g, u

LEMMA RemoveSpectatorStep ==
    ASSUME IInv, NEW t \in Threads, RemoveSpectator(t) PROVE IInv'
  <1> DEFINE g == thread[t].game
             u == thread[t].user
  <1>1. thread[t].pc = "unwatch" /\ "unwatch" \in Holding /\ NoPlayer \in Players \cup {NoPlayer}
    BY DEF RemoveSpectator, Holding
  <1>2. \E r : Moves(t, r)
    BY <1>1, OnwardStep DEF RemoveSpectator, Steps, Closing, Holding, Entering, Departing
  <1>3. /\ g \in Objects
        /\ object' \in [Objects -> GameObjects]
        /\ object'[g].spectators = object[g].spectators \ {u}
        /\ \A q \in Objects : object'[q].players = object[q].players
        /\ \A q \in Objects : q # g => object'[q] = object[q]
        /\ current' \in [Users -> Objects \cup {NoGame}]
        /\ \A v \in Users : current'[v] \in {current[v], NoGame}
    BY RemoveSpectatorEffect
  <1> HIDE DEF g, u
  <1>4. \A q \in Objects : /\ IsFiniteSet(object[q].spectators)
                           /\ Cardinality(object[q].spectators) \in Nat
                           /\ Len(object[q].players) \in Nat
    BY FS_CardinalityType DEF IInv, Orderly, Finite, TypeOK, GameObjects
  <1>5. /\ IsFiniteSet(object'[g].spectators)
        /\ Cardinality(object'[g].spectators) <= Cardinality(object[g].spectators)
    <2>1. /\ IsFiniteSet(object[g].spectators \ {u})
          /\ Cardinality(object[g].spectators \ {u}) =
                IF u \in object[g].spectators THEN Cardinality(object[g].spectators) - 1
                ELSE Cardinality(object[g].spectators)
      BY <1>3, <1>4, FS_RemoveElement
    <2> QED
      BY <1>3, <1>4, <2>1
  <1>6. Shrinks
    <2>1. ASSUME NEW q \in Objects
          PROVE  /\ Len(object'[q].players) <= Len(object[q].players)
                 /\ IsFiniteSet(object'[q].spectators)
                 /\ Cardinality(object'[q].spectators) <= Cardinality(object[q].spectators)
      <3>1. CASE q = g
        <4>1. Len(object'[q].players) <= Len(object[q].players)
          BY <1>3, <1>4
        <4> QED
          BY <1>5, <3>1, <4>1
      <3>2. CASE q # g
        BY <1>3, <1>4, <3>2
      <3> QED
        BY <3>1, <3>2
    <2> QED
      BY <1>3, <2>1 DEF Shrinks
  <1> QED
    BY <1>2, <1>3, <1>6, ShrinkStep DEF RemoveSpectator, IInv, TypeOK

-----------------------------------------------------------------------------
(* The theorems that need no assumption about the races.                   *)

LEMMA InitIInv == Init => IInv
  <1> SUFFICES ASSUME Init PROVE IInv
    OBVIOUS
  <1>1. TypeOK
    BY IdsFacts, IdleType DEF Init, TypeOK, NewObject, GameObjects
  <1>2. TasksOK /\ RoomKept /\ OneAdds /\ FirstAlone
    BY DEF Init, TasksOK, RoomKept, OneAdds, FirstAlone, Idle, Busy, Holding, Entering, Departing
  <1>3. /\ \A g \in Objects : object[g].spectators = {} /\ Len(object[g].players) = 0
    BY DEF Init, NewObject
  <1>4. Finite
    BY <1>3, FS_EmptySet DEF Finite
  <1>5. WithinLimits
    <2>1. \A g \in Objects : Cardinality(object[g].spectators) = 0
      BY <1>3, FS_EmptySet
    <2> QED
      BY <1>3, <2>1, BoundsAssumption DEF WithinLimits
  <1> QED
    BY <1>1, <1>2, <1>4, <1>5 DEF IInv, Orderly

LEMMA StutterIInv ==
    ASSUME IInv, UNCHANGED vars PROVE IInv'
  BY DEF vars, IInv, TypeOK, Orderly, TasksOK, RoomKept, OneAdds, FirstAlone, Finite,
     WithinLimits, Room, RoomToWatch, Busy

LEMMA NextIInv == IInv /\ [Next]_vars => IInv'
  <1> SUFFICES ASSUME IInv, [Next]_vars PROVE IInv'
    OBVIOUS
  <1>1. CASE UNCHANGED vars
    BY <1>1, StutterIInv
  <1>2. ASSUME NEW t \in Threads, Enter(t) PROVE IInv'
    BY <1>2, LookUpStep, JoinGameStep, SeatPlayerStep, SpectateGameStep, SeatSpectatorStep,
       CreateGameStep DEF Enter
  <1>3. ASSUME NEW t \in Threads, Depart(t) PROVE IInv'
    BY <1>3, LeaveGameStep, KickIdleStep, DisconnectStep, ReadGameStep, FindPlayerStep,
       DropPlayerStep, HostTestStep, HostPickStep, HostSetStep, CountPlayersStep,
       DestroyGameStep, RemoveSpectatorStep, InvalidateStep DEF Depart
  <1>4. ASSUME NEW t \in Threads, Host(t) PROVE IInv'
    BY <1>4, HandOverStep, ChangeHostStep DEF Host
  <1> QED
    BY <1>1, <1>2, <1>3, <1>4 DEF Next

LEMMA IInvHolds == Spec => []IInv
  BY InitIInv, NextIInv, PTL DEF Spec

\* The fields keep their types: in particular the index of games only ever
\* holds ids below the maximum, and nextId is one of them or -1.
THEOREM TypesKept == Spec => []TypeOK
  <1>1. IInv => TypeOK
    BY DEF IInv
  <1> QED
    BY <1>1, IInvHolds, PTL

\* However many threads join at once, addPlayer and addSpectator never exceed
\* the limits of the options: the thread that has tested the size holds the
\* list until it has added to it.
THEOREM LimitsKept == Spec => []WithinLimits
  <1>1. IInv => WithinLimits
    BY DEF IInv, Orderly
  <1> QED
    BY <1>1, IInvHolds, PTL

\* GameManager.get always finds a free id while there is room for a game.
THEOREM IdsSuffice == Spec => []FreeIdOffered
  <1>1. IInv => FreeIdOffered
    BY GetIdFacts DEF IInv, FreeIdOffered
  <1> QED
    BY <1>1, IInvHolds, PTL

\* No step puts a game in the place of another: createGame takes an id that is
\* free, and the other steps only ever destroy the game of an id.
THEOREM IdsKept == Spec => NotReplaced
  <1> DEFINE Kept == \A id \in Ids : games[id] # NoGame => games'[id] \in {games[id], NoGame}
  <1>1. IInv /\ [Next]_vars => [Kept]_vars
    <2> SUFFICES ASSUME IInv, Next PROVE Kept
      BY DEF vars
    <2>1. CASE games' = games
      BY <2>1
    <2>2. ASSUME NEW t \in Threads, NEW u \in Users, NEW g \in Objects, CreateGame(t, u, g)
          PROVE  Kept
      <3>1. GetId \in Ids \ Known
        BY <2>2, GetIdFacts DEF IInv, CreateGame
      <3>2. games' = games \/ games' = [games EXCEPT ![GetId] = g]
        BY <2>2 DEF CreateGame
      <3>3. \A id \in Ids : games[id] # NoGame => id # GetId
        BY <3>1 DEF Known
      <3> QED
        BY <3>1, <3>2, <3>3 DEF IInv, TypeOK
    <2>3. ASSUME NEW t \in Threads, DestroyGame(t) PROVE Kept
      BY <2>3, DestroyGameEffect DEF IInv, TypeOK
    <2>4. CASE \E t \in Threads : Enter(t)
      BY <2>1, <2>2, <2>4 DEF Enter, LookUp, JoinGame, SeatPlayer, SpectateGame, SeatSpectator
    <2>5. CASE \E t \in Threads : Depart(t) \/ Host(t)
      BY <2>1, <2>3, <2>5 DEF Depart, LeaveGame, KickIdle, Disconnect, ReadGame, FindPlayer,
         DropPlayer, HostTest, HostPick, HostSet, CountPlayers, RemoveSpectator, Invalidate,
         Host, HandOver, ChangeHost
    <2> QED
      BY <2>4, <2>5 DEF Next
  <1> QED
    BY <1>1, IInvHolds, PTL DEF Spec, NotReplaced

-----------------------------------------------------------------------------
(* One thread at a time acts for a user: the lists agree with currentGame, *)
(* and a user that has gone is in no game.                                 *)

UsersOf(list) == {list[i].user : i \in 1..Len(list)}
PlayersOf(list) == {list[i] : i \in 1..Len(list)}

OnePerUser ==
    \A s, t \in Threads : Busy(s) /\ Busy(t) /\ thread[s].user = thread[t].user => s = t

OneSeat ==
    \A g \in Objects : \A i, j \in 1..Len(object[g].players) :
        object[g].players[i].user = object[g].players[j].user => i = j

EitherOr == \A g \in Objects : UsersOf(object[g].players) \cap object[g].spectators = {}

Agree ==
    \A u \in Users, g \in Objects :
        u \in UsersOf(object[g].players) \cup object[g].spectators <=> current[u] = g

GoneIsOut == \A u \in Users : ~valid[u] => current[u] = NoGame

\* What the lists obj, the fields cur and val must be for a thread to act as
\* the source does: an entering user is valid and, once tested, in no game; a
\* user that has been removed from a list is in no game any more.
OnItsWay(r, obj, cur, val) ==
    /\ r.pc \in {"seat", "first", "watch", "invalidate"} => cur[r.user] = NoGame
    /\ r.pc \in Departing \ {"find", "drop", "hand"} => cur[r.user] = NoGame
    /\ r.pc \in Entering => val[r.user]
    /\ r.pc \in {"find", "drop", "unwatch"} => cur[r.user] \in {r.game, NoGame}
    /\ r.pc = "drop" =>
          /\ r.player \in Players /\ r.player.user = r.user
          /\ r.user \notin obj[r.game].spectators
          /\ \/ r.player \in PlayersOf(obj[r.game].players)
             \/ r.user \notin UsersOf(obj[r.game].players)
    /\ r.pc = "unwatch" => r.user \notin UsersOf(obj[r.game].players)

EachOnItsWay == \A t \in Threads : OnItsWay(thread[t], object, current, valid)

Lists == OneSeat /\ EitherOr /\ Agree /\ GoneIsOut

UInv == OnePerUser /\ Lists /\ EachOnItsWay

\* A thread turns to a task of its user, or of a user nobody acts for.
OwnUser(t, r) ==
    \/ r.pc = "idle"
    \/ Busy(t) /\ r.user = thread[t].user
    \/ \A s \in Threads : Busy(s) => thread[s].user # r.user

LEMMA TurnKeeps ==
    ASSUME TypeOK, UInv, NEW t \in Threads, NEW r, Turns(t, r), OwnUser(t, r), Lists',
           OnItsWay(r, object', current', valid'),
           \A s \in Threads \ {t} : OnItsWay(thread[s], object', current', valid')
    PROVE  UInv'
  <1>1. /\ thread'[t] = r
        /\ \A s \in Threads : s # t => thread'[s] = thread[s]
    BY TurnsType
  <1>2. OnePerUser'
    BY <1>1 DEF UInv, OnePerUser, Busy, OwnUser
  <1>3. EachOnItsWay'
    BY <1>1 DEF EachOnItsWay
  <1> QED
    BY <1>2, <1>3 DEF UInv

\* A step that leaves the lists, currentGame and valid alone.
LEMMA SameListsTurn ==
    ASSUME TypeOK, TypeOK', TasksOK, UInv, NEW t \in Threads, NEW r, Turns(t, r), OwnUser(t, r),
           \A g \in Objects : /\ object'[g].players = object[g].players
                              /\ object'[g].spectators = object[g].spectators,
           UNCHANGED <<current, valid>>,
           r.pc \in Holding => r.game \in Objects,
           OnItsWay(r, object, current, valid)
    PROVE  UInv'
  <1>1. Lists'
    BY DEF UInv, Lists, OneSeat, EitherOr, Agree, GoneIsOut
  <1>2. OnItsWay(r, object', current', valid')
    BY DEF OnItsWay, Holding, Departing
  <1>3. ASSUME NEW s \in Threads PROVE OnItsWay(thread[s], object', current', valid')
    <2>1. OnItsWay(thread[s], object, current, valid)
      BY DEF UInv, EachOnItsWay
    <2>2. thread[s].pc \in {"drop", "unwatch"} => thread[s].game \in Objects
      BY DEF TasksOK, Holding, Departing
    <2> QED
      BY <2>1, <2>2 DEF OnItsWay
  <1> QED
    BY <1>1, <1>2, <1>3, TurnKeeps

\* The thread as it goes on with its game, or goes idle.
LEMMA OnwardTurn ==
    ASSUME IInv, IInv', UInv, NEW t \in Threads, NEW pc \in Steps \ {"idle"},
           NEW p \in Players \cup {NoPlayer}, Busy(t), pc \in Holding => thread[t].pc \in Holding,
           \A g \in Objects : /\ object'[g].players = object[g].players
                              /\ object'[g].spectators = object[g].spectators,
           UNCHANGED <<current, valid>>,
           \/ Done(t)
           \/ /\ Goto(t, pc)
              /\ OnItsWay([thread[t] EXCEPT !.pc = pc], object, current, valid)
           \/ /\ GotoWith(t, pc, p)
              /\ OnItsWay([thread[t] EXCEPT !.pc = pc, !.player = p], object, current, valid)
    PROVE  UInv'
  <1>1. TypeOK /\ TypeOK' /\ TasksOK /\ thread[t] \in Tasks
    BY DEF IInv, Orderly, TypeOK
  <1>2. CASE Done(t)
    <2>1. Turns(t, Idle) /\ OwnUser(t, Idle) /\ OnItsWay(Idle, object, current, valid)
      BY <1>2, DoneTurns DEF OwnUser, Idle, OnItsWay, Departing, Entering
    <2>2. Idle.pc \notin Holding
      BY DEF Idle, Holding, Entering, Departing
    <2> QED
      BY <1>1, <2>1, <2>2, SameListsTurn
  <1>3. thread[t].pc \in Holding => thread[t].game \in Objects
    BY <1>1 DEF TasksOK
  <1>4. CASE /\ Goto(t, pc)
             /\ OnItsWay([thread[t] EXCEPT !.pc = pc], object, current, valid)
    <2> DEFINE r == [thread[t] EXCEPT !.pc = pc]
    <2>1. Turns(t, r)
      BY <1>1, <1>4, GotoTurns
    <2>2. r.pc = pc /\ r.user = thread[t].user /\ r.game = thread[t].game
      BY <1>1 DEF Tasks
    <2>3. OnItsWay(r, object, current, valid)
      BY <1>4
    <2> HIDE DEF r
    <2> QED
      BY <1>1, <1>3, <2>1, <2>2, <2>3, SameListsTurn DEF OwnUser
  <1>5. CASE /\ GotoWith(t, pc, p)
             /\ OnItsWay([thread[t] EXCEPT !.pc = pc, !.player = p], object, current, valid)
    <2> DEFINE r == [thread[t] EXCEPT !.pc = pc, !.player = p]
    <2>1. Turns(t, r)
      BY <1>1, <1>5, GotoWithTurns
    <2>2. r.pc = pc /\ r.user = thread[t].user /\ r.game = thread[t].game
      BY <1>1 DEF Tasks
    <2>3. OnItsWay(r, object, current, valid)
      BY <1>5
    <2> HIDE DEF r
    <2> QED
      BY <1>1, <1>3, <2>1, <2>2, <2>3, SameListsTurn DEF OwnUser
  <1> QED
    BY <1>2, <1>4, <1>5

LEMMA LookUpUser ==
    ASSUME IInv, IInv', UInv, "sameUser" \notin Races, NEW t \in Threads, NEW u \in Users,
           NEW id \in Ids, NEW how \in {"join", "spectate"}, LookUp(t, u, id, how)
    PROVE  UInv'
  <1> DEFINE r == [pc |-> how, user |-> u, game |-> games[id], player |-> NoPlayer,
                   why |-> "leave"]
  <1>1. games[id] \in Objects /\ TypeOK /\ TypeOK' /\ TasksOK
    BY DEF IInv, Orderly, TypeOK, LookUp
  <1>2. Turns(t, r)
    BY <1>1 DEF LookUp, StartTask, Turns, Tasks, Steps, Entering, Reasons
  <1>3. valid[u] /\ OwnUser(t, r)
    BY DEF LookUp, Request, Alone, OwnUser
  <1>4. OnItsWay(r, object, current, valid)
    BY <1>3 DEF OnItsWay, Departing
  <1> QED
    BY <1>1, <1>2, <1>3, <1>4, SameListsTurn DEF LookUp

LEMMA JoinGameUser ==
    ASSUME IInv, IInv', UInv, NEW t \in Threads, JoinGame(t) \/ SpectateGame(t) PROVE UInv'
  <1> DEFINE pc == IF JoinGame(t) THEN "seat" ELSE "watch"
  <1>1. /\ thread[t] \in Tasks /\ thread[t].pc \in {"join", "spectate"}
        /\ valid[thread[t].user]
    BY DEF JoinGame, SpectateGame, IInv, TypeOK, UInv, EachOnItsWay, OnItsWay, Entering
  <1>2. ASSUME NEW pc1 \in {"seat", "watch"}, current[thread[t].user] = NoGame
        PROVE  OnItsWay([thread[t] EXCEPT !.pc = pc1], object, current, valid)
    BY <1>1, <1>2 DEF OnItsWay, Tasks, Departing
  <1>3. CASE JoinGame(t)
    <2>1. Done(t) \/ (Goto(t, "seat") /\ current[thread[t].user] = NoGame)
      BY <1>3 DEF JoinGame
    <2> QED
      BY <1>1, <1>2, <1>3, <2>1, OnwardTurn
         DEF JoinGame, Steps, Entering, Holding, Busy
  <1>4. CASE SpectateGame(t)
    <2>1. Done(t) \/ (Goto(t, "watch") /\ current[thread[t].user] = NoGame)
      BY <1>4 DEF SpectateGame
    <2> QED
      BY <1>1, <1>2, <1>4, <2>1, OnwardTurn
         DEF SpectateGame, Steps, Entering, Holding, Busy
  <1> QED
    BY <1>3, <1>4

\* A request or a task that starts to remove its user from the game it is in.
LEMMA StartUser ==
    ASSUME IInv, IInv', UInv, NEW t \in Threads, NEW u \in Users, NEW g \in Objects,
           NEW p \in Players \cup {NoPlayer}, NEW pc \in {"find", "hand"}, NEW why \in Reasons,
           thread' = [thread EXCEPT ![t] =
                         [pc |-> pc, user |-> u, game |-> g, player |-> p, why |-> why]],
           \A s \in Threads : Busy(s) => thread[s].user # u,
           current[u] = g,
           UNCHANGED <<object, current, valid>>
    PROVE  UInv'
  <1> DEFINE r == [pc |-> pc, user |-> u, game |-> g, player |-> p, why |-> why]
  <1>1. TypeOK /\ TypeOK' /\ TasksOK
    BY DEF IInv, Orderly
  <1>2. Turns(t, r) /\ OwnUser(t, r)
    BY DEF Turns, Tasks, Steps, Departing, OwnUser
  <1>3. OnItsWay(r, object, current, valid)
    BY DEF OnItsWay, Departing, Entering
  <1> QED
    BY <1>1, <1>2, <1>3, SameListsTurn

LEMMA LeaveGameUser ==
    ASSUME IInv, IInv', UInv, "sameUser" \notin Races, NEW t \in Threads, NEW u \in Users,
           LeaveGame(t, u)
    PROVE  UInv'
  <1>1. current[u] \in Objects /\ NoPlayer \in Players \cup {NoPlayer}
    BY DEF IInv, TypeOK, LeaveGame
  <1> QED
    BY <1>1, StartUser DEF LeaveGame, Request, Alone, StartTask, Reasons

LEMMA KickIdleUser ==
    ASSUME IInv, IInv', UInv, "sameUser" \notin Races, NEW t \in Threads, NEW u \in Users,
           NEW g \in Objects, KickIdle(t, u, g)
    PROVE  UInv'
  <1>1. current[u] = g
    BY DEF KickIdle, UsersIn, UsersOf, UInv, Lists, Agree
  <1> QED
    BY <1>1, StartUser DEF KickIdle, Alone, StartTask, Reasons

LEMMA HandOverUser ==
    ASSUME IInv, IInv', UInv, "sameUser" \notin Races, NEW t \in Threads, NEW u \in Users,
           NEW v \in Users, HandOver(t, u, v)
    PROVE  UInv'
  <1>1. current[u] \in Objects
    BY DEF IInv, TypeOK, HandOver
  <1>2. PlayerFor(current[u], v) \in Players \cup {NoPlayer}
    BY <1>1, PlayerForType DEF IInv
  <1> QED
    BY <1>1, <1>2, StartUser DEF HandOver, Request, Alone, Reasons

LEMMA DisconnectUser ==
    ASSUME IInv, IInv', UInv, "sameUser" \notin Races, NEW t \in Threads, NEW u \in Users,
           Disconnect(t, u)
    PROVE  UInv'
  <1> DEFINE pc == IF current[u] = NoGame THEN "invalidate" ELSE "reread"
             r == [pc |-> pc, user |-> u, game |-> NoGame, player |-> NoPlayer, why |-> "quit"]
  <1>1. pc \in {"invalidate", "reread"} /\ (pc = "invalidate" => current[u] = NoGame)
    OBVIOUS
  <1>2. TypeOK /\ TypeOK' /\ TasksOK
    BY DEF IInv, Orderly
  <1> HIDE DEF pc
  <1>3. r \in Tasks /\ thread' = [thread EXCEPT ![t] = r]
    BY <1>1 DEF Tasks, Steps, Reasons, Closing, Disconnect, StartTask, pc
  <1>4. OwnUser(t, r) /\ OnItsWay(r, object, current, valid)
    BY <1>1 DEF OwnUser, Disconnect, Alone, OnItsWay, Departing, Entering
  <1>5. r.pc \notin Holding
    BY <1>1 DEF Holding, Entering, Departing
  <1> QED
    BY <1>2, <1>3, <1>4, <1>5, SameListsTurn DEF Disconnect, Turns

LEMMA ReadGameUser ==
    ASSUME IInv, IInv', UInv, NEW t \in Threads, ReadGame(t) PROVE UInv'
  <1> DEFINE u == thread[t].user
             g == current[u]
             r == [thread[t] EXCEPT !.pc = "find", !.game = g]
  <1>1. /\ u \in Users /\ thread[t] \in Tasks /\ thread[t].pc = "reread" /\ Busy(t)
        /\ TypeOK /\ TypeOK' /\ TasksOK
    BY DEF ReadGame, IInv, Orderly, TasksOK, Busy, TypeOK
  <1>2. CASE Done(t)
    BY <1>1, <1>2, OnwardTurn DEF ReadGame, Steps, Closing, Holding
  <1>3. CASE g # NoGame /\ thread' = [thread EXCEPT ![t].pc = "find", ![t].game = g]
    <2>1. g \in Objects
      BY <1>1, <1>3 DEF TypeOK
    <2>2. r \in Tasks /\ r.pc = "find" /\ r.user = u /\ r.game = g
      BY <1>1, <2>1 DEF Tasks, Steps, Departing
    <2>3. thread' = [thread EXCEPT ![t] = r]
      BY <1>1, <1>3 DEF TypeOK, Tasks
    <2>4. current[u] = g
      OBVIOUS
    <2> HIDE DEF r, u, g
    <2>5. OnItsWay(r, object, current, valid)
      BY <2>2, <2>4 DEF OnItsWay, Entering, Departing
    <2>6. Turns(t, r) /\ OwnUser(t, r)
      BY <1>1, <2>2, <2>3 DEF Turns, OwnUser, u
    <2> QED
      BY <1>1, <2>1, <2>2, <2>5, <2>6, SameListsTurn DEF ReadGame
  <1> QED
    BY <1>2, <1>3 DEF ReadGame

\* After the loop over the players the user is in the list no more.
LEMMA AfterRemovalUser ==
    ASSUME IInv, IInv', UInv, NEW t \in Threads, thread[t].pc \in Departing, AfterRemoval(t),
           thread[t].user \notin UsersOf(object[thread[t].game].players),
           current[thread[t].user] \in {thread[t].game, NoGame},
           \A g \in Objects : /\ object'[g].players = object[g].players
                              /\ object'[g].spectators = object[g].spectators,
           UNCHANGED <<current, valid>>
    PROVE  UInv'
  <1>1. Busy(t) /\ thread[t].pc \in Holding /\ thread[t] \in Tasks
    BY DEF Busy, Holding, Departing, IInv, TypeOK
  <1>2. OnItsWay([thread[t] EXCEPT !.pc = "unwatch", !.player = NoPlayer], object, current, valid)
    BY <1>1 DEF OnItsWay, Tasks, Entering, Departing
  <1>3. "unwatch" \in Steps \ {"idle"} /\ NoPlayer \in Players \cup {NoPlayer}
    BY DEF Steps, Closing
  <1> QED
    BY <1>1, <1>2, <1>3, OnwardTurn DEF AfterRemoval

LEMMA FindPlayerUser ==
    ASSUME IInv, IInv', UInv, NEW t \in Threads, FindPlayer(t) PROVE UInv'
  <1> DEFINE g == thread[t].game
             u == thread[t].user
             p == PlayerFor(g, u)
             r == [thread[t] EXCEPT !.pc = "drop", !.player = p]
  <1>1. /\ g \in Objects /\ u \in Users /\ thread[t].pc = "find" /\ thread[t] \in Tasks
        /\ object[g].players \in Seq(Players)
    BY DEF FindPlayer, IInv, Orderly, TasksOK, Busy, Holding, Departing, TypeOK, GameObjects
  <1>2. current[u] \in {g, NoGame}
    BY <1>1 DEF UInv, EachOnItsWay, OnItsWay
  <1>3. CASE u \notin UsersOf(object[g].players)
    <2>1. p = NoPlayer
      BY <1>3 DEF PlayerFor, UsersIn, UsersOf
    <2> QED
      BY <1>1, <1>2, <1>3, <2>1, AfterRemovalUser DEF FindPlayer, Departing
  <1>4. CASE u \in UsersOf(object[g].players)
    <2>1. u \in UsersIn(g) /\ \E q \in PlayersIn(g) : q.user = u
      BY <1>4 DEF UsersIn, UsersOf, PlayersIn
    <2>2. p = CHOOSE q \in PlayersIn(g) : q.user = u
      BY <2>1 DEF PlayerFor
    <2>3. p \in PlayersIn(g) /\ p.user = u
      BY <2>1, <2>2
    <2>4. p \in Players /\ p \in PlayersOf(object[g].players)
      <3>1. \A i \in 1..Len(object[g].players) : object[g].players[i] \in Players
        BY <1>1
      <3> QED
        BY <2>3, <3>1 DEF PlayersIn, PlayersOf
    <2>5. u \notin object[g].spectators
      BY <1>1, <1>4 DEF UInv, Lists, EitherOr
    <2>6. p # NoPlayer
      BY <2>4, NoPlayerAssumption
    <2>7. GotoWith(t, "drop", p)
      BY <2>6 DEF FindPlayer
    <2> HIDE DEF p
    <2>8. r.pc = "drop" /\ r.user = u /\ r.game = g /\ r.player = p
      BY <1>1 DEF Tasks
    <2> HIDE DEF r, g, u
    <2>9. OnItsWay(r, object, current, valid)
      BY <1>2, <2>3, <2>4, <2>5, <2>8 DEF OnItsWay, Entering, Departing
    <2> QED
      BY <1>1, <2>4, <2>7, <2>9, OnwardTurn
         DEF FindPlayer, Steps, Departing, Holding, Busy, r
  <1> QED
    BY <1>3, <1>4

\* The steps between players.remove and the return of removePlayer.
LEMMA DroppedFacts ==
    ASSUME IInv, UInv, NEW t \in Threads,
           thread[t].pc \in {"hostTest", "hostPick", "hostSet", "count", "destroy"}
    PROVE  /\ thread[t] \in Tasks /\ Busy(t) /\ thread[t].pc \in Holding
           /\ thread[t].game \in Objects /\ thread[t].user \in Users
           /\ current[thread[t].user] = NoGame
           /\ thread[t].user \notin UsersOf(object[thread[t].game].players)
           /\ \A pc \in {"hostPick", "hostSet", "count", "destroy"} :
                 /\ OnItsWay([thread[t] EXCEPT !.pc = pc], object, current, valid)
                 /\ \A p \in Players \cup {NoPlayer} :
                      OnItsWay([thread[t] EXCEPT !.pc = pc, !.player = p], object, current, valid)
  <1>1. /\ thread[t] \in Tasks /\ Busy(t) /\ thread[t].pc \in Holding
        /\ thread[t].game \in Objects /\ thread[t].user \in Users
    BY DEF IInv, Orderly, TypeOK, TasksOK, Busy, Holding, Departing
  <1>2. current[thread[t].user] = NoGame
    BY DEF UInv, EachOnItsWay, OnItsWay, Departing
  <1>3. thread[t].user \notin UsersOf(object[thread[t].game].players)
    BY <1>1, <1>2, NullsAssumption DEF UInv, Lists, Agree
  <1>4. \A pc \in {"hostPick", "hostSet", "count", "destroy"} :
           OnItsWay([thread[t] EXCEPT !.pc = pc], object, current, valid)
    BY <1>1, <1>2 DEF OnItsWay, Tasks, Entering
  <1>5. \A pc \in {"hostPick", "hostSet", "count", "destroy"}, p \in Players \cup {NoPlayer} :
           OnItsWay([thread[t] EXCEPT !.pc = pc, !.player = p], object, current, valid)
    BY <1>1, <1>2 DEF OnItsWay, Tasks, Entering
  <1> QED
    BY <1>1, <1>2, <1>3, <1>4, <1>5

LEMMA HostTestUser ==
    ASSUME IInv, IInv', UInv, NEW t \in Threads, HostTest(t) PROVE UInv'
  <1>1. thread[t].pc = "hostTest" /\ NoPlayer \in Players \cup {NoPlayer}
    BY DEF HostTest
  <1> QED
    BY <1>1, DroppedFacts, OnwardTurn DEF HostTest, Steps, Departing

LEMMA HostPickUser ==
    ASSUME IInv, IInv', UInv, NEW t \in Threads, HostPick(t) PROVE UInv'
  <1> DEFINE s == object[thread[t].game].players
  <1>1. thread[t].pc = "hostPick" /\ thread[t].game \in Objects
    BY DroppedFacts DEF HostPick
  <1>2. s \in Seq(Players)
    BY <1>1 DEF IInv, TypeOK, GameObjects
  <1>3. s # <<>> => Head(s) \in Players \cup {NoPlayer}
    BY <1>2
  <1>4. CASE Done(t)
    BY <1>1, <1>4, DroppedFacts, OnwardTurn DEF HostPick, Steps, Departing
  <1>5. CASE s # <<>> /\ GotoWith(t, "hostSet", Head(s))
    <2> DEFINE p == Head(s)
    <2>1. p \in Players \cup {NoPlayer}
      BY <1>3, <1>5
    <2> HIDE DEF p
    <2>2. GotoWith(t, "hostSet", p)
      BY <1>5 DEF p
    <2>3. /\ Busy(t) /\ thread[t].pc \in Holding
          /\ OnItsWay([thread[t] EXCEPT !.pc = "hostSet", !.player = p], object, current, valid)
      BY <1>1, <2>1, DroppedFacts
    <2> QED
      BY <2>1, <2>2, <2>3, OnwardTurn DEF HostPick, Steps, Departing
  <1> QED
    BY <1>4, <1>5 DEF HostPick

LEMMA SetHostUser ==
    ASSUME IInv, IInv', UInv, NEW t \in Threads, HostSet(t) \/ ChangeHost(t) PROVE UInv'
  <1>1. \A g \in Objects : /\ object'[g].players = object[g].players
                           /\ object'[g].spectators = object[g].spectators
    <2>1. object' = [object EXCEPT ![thread[t].game].host = thread[t].player]
      BY DEF HostSet, ChangeHost
    <2> QED
      BY <2>1 DEF IInv, TypeOK, GameObjects
  <1>2. CASE HostSet(t)
    <2>1. thread[t].pc = "hostSet" /\ NoPlayer \in Players \cup {NoPlayer}
      BY <1>2 DEF HostSet
    <2> QED
      BY <1>1, <1>2, <2>1, DroppedFacts, OnwardTurn DEF HostSet, Steps, Departing
  <1>3. CASE ChangeHost(t)
    <2>1. Busy(t) /\ thread[t].pc \in Holding
      BY <1>3 DEF ChangeHost, Busy, Holding, Departing
    <2> QED
      BY <1>1, <1>3, <2>1, OnwardTurn DEF ChangeHost, Steps, Departing
  <1> QED
    BY <1>2, <1>3

LEMMA CountPlayersUser ==
    ASSUME IInv, IInv', UInv, NEW t \in Threads, CountPlayers(t) PROVE UInv'
  <1>1. thread[t].pc = "count"
    BY DEF CountPlayers
  <1>2. CASE Goto(t, "destroy")
    BY <1>1, <1>2, DroppedFacts, OnwardTurn DEF CountPlayers, Steps, Departing
  <1>3. CASE AfterRemoval(t)
    BY <1>1, <1>3, DroppedFacts, AfterRemovalUser DEF CountPlayers, Departing
  <1> QED
    BY <1>2, <1>3 DEF CountPlayers

LEMMA InvalidateUser ==
    ASSUME IInv, IInv', UInv, NEW t \in Threads, Invalidate(t) PROVE UInv'
  <1> DEFINE u == thread[t].user
  <1>1. TypeOK /\ u \in Users /\ Busy(t) /\ current[u] = NoGame
    BY DEF Invalidate, IInv, Orderly, TasksOK, Busy, UInv, EachOnItsWay, OnItsWay
  <1>2. Turns(t, Idle) /\ OwnUser(t, Idle)
    BY DoneTurns DEF Invalidate, OwnUser, Idle
  <1>3. /\ valid' = [valid EXCEPT ![u] = FALSE] /\ UNCHANGED <<object, current>>
    BY DEF Invalidate
  <1> HIDE DEF u
  <1>4. Lists'
    BY <1>1, <1>3 DEF UInv, Lists, OneSeat, EitherOr, Agree, GoneIsOut, TypeOK
  <1>5. OnItsWay(Idle, object', current', valid')
    BY DEF OnItsWay, Idle, Entering, Departing
  <1>6. ASSUME NEW s \in Threads, s # t PROVE OnItsWay(thread[s], object', current', valid')
    <2>1. OnItsWay(thread[s], object, current, valid)
      BY DEF UInv, EachOnItsWay
    <2>2. thread[s].pc \in Entering => thread[s].user # u
      BY <1>1, <1>6 DEF UInv, OnePerUser, Busy, Entering, u
    <2>3. thread[s].pc \in Entering => valid'[thread[s].user]
      BY <1>1, <1>3, <2>1, <2>2 DEF OnItsWay, TypeOK
    <2> QED
      BY <1>3, <2>1, <2>3 DEF OnItsWay
  <1> QED
    BY <1>1, <1>2, <1>4, <1>5, <1>6, TurnKeeps

-----------------------------------------------------------------------------
(* Steps that change the lists, for one user at a time.                    *)

Single(list) == \A i, j \in 1..Len(list) : list[i].user = list[j].user => i = j

LEMMA AppendFacts ==
    ASSUME NEW s \in Seq(Players), NEW p \in Players, Single(s), p.user \notin UsersOf(s)
    PROVE  /\ UsersOf(Append(s, p)) = UsersOf(s) \cup {p.user}
           /\ PlayersOf(Append(s, p)) = PlayersOf(s) \cup {p}
           /\ Single(Append(s, p))
  <1> DEFINE q == Append(s, p)
             n == Len(s)
  <1>1. /\ n \in Nat /\ Len(q) = n + 1 /\ q[n + 1] = p
        /\ \A i \in 1..n : q[i] = s[i]
    OBVIOUS
  <1> HIDE DEF q
  <1>2. 1..(n + 1) = (1..n) \cup {n + 1}
    BY <1>1
  <1>3. UsersOf(q) = UsersOf(s) \cup {p.user}
    BY <1>1, <1>2 DEF UsersOf
  <1>4. PlayersOf(q) = PlayersOf(s) \cup {p}
    BY <1>1, <1>2 DEF PlayersOf
  <1>5. Single(q)
    BY <1>1 DEF Single, UsersOf
  <1> QED
    BY <1>3, <1>4, <1>5 DEF q

LEMMA RemovedUsers ==
    ASSUME NEW s \in Seq(Players), NEW p \in Players, Single(s),
           p \in PlayersOf(s) \/ p.user \notin UsersOf(s)
    PROVE  LET q == Removed(s, p)
           IN  /\ UsersOf(q) = UsersOf(s) \ {p.user}
               /\ \A x \in PlayersOf(s) : x.user # p.user => x \in PlayersOf(q)
               /\ Single(q)
  <1> DEFINE q == Removed(s, p)
             n == Len(s)
  <1>1. q \in Seq(Players) /\ n \in Nat
    BY RemovedFacts
  <1>2. CASE p.user \notin UsersOf(s)
    <2>1. \A i \in 1..n : s[i] # p
      BY <1>2 DEF UsersOf
    <2>2. q = s
      BY <2>1, RemovedFacts
    <2> QED
      BY <1>2, <2>2
  <1>3. CASE p \in PlayersOf(s)
    <2>1. PICK k \in 1..n : s[k] = p
      BY <1>3 DEF PlayersOf
    <2>2. \A i \in 1..n : s[i].user = p.user => i = k
      BY <2>1 DEF Single
    <2>3. \A i \in 1..n : s[i] = p => i = k
      BY <2>2
    <2>4. /\ Len(q) = n - 1
          /\ \A i \in 1..Len(q) : q[i] = IF i < k THEN s[i] ELSE s[i + 1]
      BY <2>1, <2>3, RemovedFacts
    <2> HIDE DEF q
    <2>5. ASSUME NEW i \in 1..Len(q)
          PROVE  \E j \in 1..n : j # k /\ q[i] = s[j]
      <3>1. CASE i < k
        BY <1>1, <2>1, <2>4, <3>1
      <3>2. CASE ~(i < k)
        <4>1. i + 1 \in 1..n /\ i + 1 # k /\ q[i] = s[i + 1]
          BY <1>1, <2>1, <2>4, <3>2
        <4> QED
          BY <4>1
      <3> QED
        BY <3>1, <3>2
    <2>6. ASSUME NEW j \in 1..n, j # k
          PROVE  \E i \in 1..Len(q) : q[i] = s[j]
      <3>1. CASE j < k
        BY <1>1, <2>1, <2>4, <3>1
      <3>2. CASE j > k
        <4>1. j - 1 \in 1..Len(q) /\ ~(j - 1 < k) /\ (j - 1) + 1 = j
          BY <1>1, <2>1, <2>4, <3>2
        <4>2. q[j - 1] = s[(j - 1) + 1]
          BY <2>4, <4>1
        <4> QED
          BY <4>1, <4>2
      <3> QED
        BY <1>1, <2>1, <2>6, <3>1, <3>2
    <2>7. UsersOf(q) \subseteq UsersOf(s) \ {p.user}
      BY <2>2, <2>5 DEF UsersOf
    <2>8. UsersOf(s) \ {p.user} \subseteq UsersOf(q)
      BY <2>1, <2>6 DEF UsersOf
    <2>9. \A x \in PlayersOf(s) : x.user # p.user => x \in PlayersOf(q)
      BY <2>1, <2>6 DEF PlayersOf
    <2>10. Single(q)
      BY <1>1, <2>1, <2>4 DEF Single
    <2> QED
      BY <2>7, <2>8, <2>9, <2>10 DEF q
  <1> QED
    BY <1>2, <1>3

\* Whatever happens to one user leaves the others, and the threads that act
\* for them, as they are.
OthersKept(u) ==
    /\ \A g \in Objects, v \in Users \ {u} :
          /\ v \in UsersOf(object'[g].players) <=> v \in UsersOf(object[g].players)
          /\ v \in object'[g].spectators <=> v \in object[g].spectators
          /\ \A p \in PlayersOf(object[g].players) :
                p.user = v => p \in PlayersOf(object'[g].players)
    /\ \A v \in Users \ {u} : current'[v] = current[v]
    /\ UNCHANGED valid

LEMMA OthersOnTheirWay ==
    ASSUME IInv, UInv, NEW t \in Threads, Busy(t), OthersKept(thread[t].user)
    PROVE  \A s \in Threads \ {t} : OnItsWay(thread[s], object', current', valid')
  <1> SUFFICES ASSUME NEW s \in Threads, s # t
               PROVE  OnItsWay(thread[s], object', current', valid')
    OBVIOUS
  <1>1. OnItsWay(thread[s], object, current, valid)
    BY DEF UInv, EachOnItsWay
  <1>2. CASE ~Busy(s)
    BY <1>2 DEF Busy, OnItsWay, Entering, Departing
  <1>3. CASE Busy(s)
    <2>1. thread[s].user \in Users \ {thread[t].user}
      BY <1>3 DEF UInv, OnePerUser, IInv, Orderly, TasksOK
    <2>2. thread[s].pc \in {"drop", "unwatch"} => thread[s].game \in Objects
      BY DEF IInv, Orderly, TasksOK, Holding, Departing
    <2>3. /\ current'[thread[s].user] = current[thread[s].user]
          /\ valid'[thread[s].user] = valid[thread[s].user]
      BY <2>1 DEF OthersKept
    <2>4. ASSUME thread[s].pc \in {"drop", "unwatch"}
          PROVE  LET g == thread[s].game
                     v == thread[s].user
                 IN  /\ v \in UsersOf(object'[g].players) <=> v \in UsersOf(object[g].players)
                     /\ v \in object'[g].spectators <=> v \in object[g].spectators
                     /\ \A p \in PlayersOf(object[g].players) :
                           p.user = v => p \in PlayersOf(object'[g].players)
      BY <2>1, <2>2, <2>4 DEF OthersKept
    <2> QED
      BY <1>1, <2>3, <2>4 DEF OnItsWay
  <1> QED
    BY <1>2, <1>3

\* The step of one user: his lists and fields are right afterwards, and those
\* of the others as they were.
LEMMA OneUserTurn ==
    ASSUME IInv, UInv, NEW t \in Threads, Busy(t), NEW r, Turns(t, r), OwnUser(t, r),
           OthersKept(thread[t].user), OnItsWay(r, object', current', valid'),
           \A g \in Objects : Single(object'[g].players),
           LET u == thread[t].user
           IN  /\ \A g \in Objects :
                     /\ u \in UsersOf(object'[g].players) \cup object'[g].spectators
                          <=> current'[u] = g
                     /\ ~(u \in UsersOf(object'[g].players) /\ u \in object'[g].spectators)
               /\ ~valid'[u] => current'[u] = NoGame,
           IInv'
    PROVE  UInv'
  <1> DEFINE u == thread[t].user
  <1>1. TypeOK /\ u \in Users
    BY DEF IInv, Orderly, TasksOK
  <1>2. \A g \in Objects : /\ UsersOf(object'[g].players) \subseteq Users
                           /\ object'[g].spectators \subseteq Users
    <2> SUFFICES ASSUME NEW g \in Objects
                 PROVE  UsersOf(object'[g].players) \subseteq Users
                        /\ object'[g].spectators \subseteq Users
      OBVIOUS
    <2>1. object'[g].players \in Seq(Players) /\ object'[g].spectators \subseteq Users
      BY DEF IInv, TypeOK, GameObjects
    <2>2. \A i \in 1..Len(object'[g].players) : object'[g].players[i] \in Players
      BY <2>1
    <2> QED
      BY <2>1, <2>2 DEF UsersOf, Players
  <1>3. OneSeat'
    BY DEF OneSeat, Single
  <1>4. EitherOr'
    <2> SUFFICES ASSUME NEW g \in Objects, NEW v \in Users,
                        v \in UsersOf(object'[g].players), v \in object'[g].spectators
                 PROVE  FALSE
      BY <1>2 DEF EitherOr
    <2>1. v # u
      OBVIOUS
    <2>2. v \in UsersOf(object[g].players) /\ v \in object[g].spectators
      BY <2>1 DEF OthersKept
    <2> QED
      BY <2>2 DEF UInv, Lists, EitherOr
  <1>5. Agree'
    BY DEF UInv, Lists, Agree, OthersKept
  <1>6. GoneIsOut'
    BY DEF UInv, Lists, GoneIsOut, OthersKept
  <1> QED
    BY <1>1, <1>3, <1>4, <1>5, <1>6, OthersOnTheirWay, TurnKeeps DEF Lists

LEMMA SeatPlayerUser ==
    ASSUME IInv, IInv', UInv, NEW t \in Threads, SeatPlayer(t) PROVE UInv'
  <1> DEFINE g == thread[t].game
             u == thread[t].user
             p == NewPlayer(u)
  <1>1. /\ g \in Objects /\ u \in Users /\ thread[t].pc \in {"seat", "first"} /\ Busy(t)
        /\ FreshSerials(u) # {}
    BY DEF SeatPlayer, IInv, Orderly, TasksOK, Busy, Holding, Entering
  <1>2. current[u] = NoGame /\ valid[u]
    BY <1>1 DEF UInv, EachOnItsWay, OnItsWay, Entering
  <1>3. p \in Players /\ p.user = u
    BY <1>1, NewPlayerType
  <1>4. /\ current' = [current EXCEPT ![u] = g]
        /\ object' = [object EXCEPT ![g].players = Append(@, p), ![g].host = FirstHost(g, p)]
        /\ Turns(t, Idle)
        /\ UNCHANGED valid
    BY DoneTurns DEF SeatPlayer
  <1> HIDE DEF g, u, p
  <1>5. object[g].players \in Seq(Players) /\ Single(object[g].players)
    BY <1>1 DEF IInv, TypeOK, GameObjects, UInv, Lists, OneSeat, Single
  <1>6. /\ object'[g].players = Append(object[g].players, p)
        /\ \A q \in Objects : object'[q].spectators = object[q].spectators
        /\ \A q \in Objects : q # g => object'[q].players = object[q].players
    BY <1>1, <1>4 DEF IInv, TypeOK, GameObjects
  <1>7. \A q \in Objects : /\ u \notin UsersOf(object[q].players)
                           /\ u \notin object[q].spectators
    BY <1>1, <1>2, NullsAssumption DEF UInv, Lists, Agree
  <1>8. /\ UsersOf(object'[g].players) = UsersOf(object[g].players) \cup {u}
        /\ PlayersOf(object'[g].players) = PlayersOf(object[g].players) \cup {p}
        /\ Single(object'[g].players)
    BY <1>1, <1>3, <1>5, <1>6, <1>7, AppendFacts
  <1>9. current'[u] = g /\ \A v \in Users \ {u} : current'[v] = current[v]
    BY <1>1, <1>4 DEF IInv, TypeOK
  <1>10. OthersKept(u)
    <2>1. ASSUME NEW q \in Objects, NEW v \in Users \ {u}
          PROVE  /\ v \in UsersOf(object'[q].players) <=> v \in UsersOf(object[q].players)
                 /\ v \in object'[q].spectators <=> v \in object[q].spectators
                 /\ \A x \in PlayersOf(object[q].players) :
                       x.user = v => x \in PlayersOf(object'[q].players)
      <3>1. CASE q = g
        BY <1>6, <1>8, <3>1
      <3>2. CASE q # g
        BY <1>6, <3>2
      <3> QED
        BY <3>1, <3>2
    <2> QED
      BY <1>4, <1>9, <2>1 DEF OthersKept
  <1>11. \A q \in Objects : Single(object'[q].players)
    BY <1>6, <1>8 DEF UInv, Lists, OneSeat, Single
  <1>12. ASSUME NEW q \in Objects
         PROVE  /\ u \in UsersOf(object'[q].players) \cup object'[q].spectators
                     <=> current'[u] = q
                /\ ~(u \in UsersOf(object'[q].players) /\ u \in object'[q].spectators)
    <2>1. CASE q = g
      BY <1>6, <1>7, <1>8, <1>9, <2>1
    <2>2. CASE q # g
      BY <1>6, <1>7, <1>9, <2>2
    <2> QED
      BY <2>1, <2>2
  <1>13. OwnUser(t, Idle) /\ OnItsWay(Idle, object', current', valid')
    BY DEF OwnUser, OnItsWay, Idle, Entering, Departing
  <1>14. valid'[u]
    BY <1>2, <1>4
  <1> QED
    BY <1>1, <1>4, <1>10, <1>11, <1>12, <1>13, <1>14, OneUserTurn DEF u

LEMMA SeatSpectatorUser ==
    ASSUME IInv, IInv', UInv, NEW t \in Threads, SeatSpectator(t) PROVE UInv'
  <1> DEFINE g == thread[t].game
             u == thread[t].user
  <1>1. g \in Objects /\ u \in Users /\ thread[t].pc = "watch" /\ Busy(t)
    BY DEF SeatSpectator, IInv, Orderly, TasksOK, Busy, Holding, Entering
  <1>2. current[u] = NoGame /\ valid[u]
    BY <1>1 DEF UInv, EachOnItsWay, OnItsWay, Entering
  <1>3. /\ current' = [current EXCEPT ![u] = g]
        /\ object' = [object EXCEPT ![g].spectators = @ \cup {u}]
        /\ Turns(t, Idle)
        /\ UNCHANGED valid
    BY DoneTurns DEF SeatSpectator
  <1> HIDE DEF g, u
  <1>4. /\ object'[g].spectators = object[g].spectators \cup {u}
        /\ \A q \in Objects : object'[q].players = object[q].players
        /\ \A q \in Objects : q # g => object'[q].spectators = object[q].spectators
    BY <1>1, <1>3 DEF IInv, TypeOK, GameObjects
  <1>5. \A q \in Objects : /\ u \notin UsersOf(object[q].players)
                           /\ u \notin object[q].spectators
    BY <1>1, <1>2, NullsAssumption DEF UInv, Lists, Agree
  <1>6. current'[u] = g /\ \A v \in Users \ {u} : current'[v] = current[v]
    BY <1>1, <1>3 DEF IInv, TypeOK
  <1>7. OthersKept(u)
    <2>1. \A q \in Objects, v \in Users \ {u} :
             v \in object'[q].spectators <=> v \in object[q].spectators
      BY <1>4
    <2> QED
      BY <1>3, <1>4, <1>6, <2>1 DEF OthersKept
  <1>8. \A q \in Objects : Single(object'[q].players)
    BY <1>4 DEF UInv, Lists, OneSeat, Single
  <1>9. ASSUME NEW q \in Objects
        PROVE  /\ u \in UsersOf(object'[q].players) \cup object'[q].spectators
                    <=> current'[u] = q
               /\ ~(u \in UsersOf(object'[q].players) /\ u \in object'[q].spectators)
    <2>1. CASE q = g
      BY <1>4, <1>5, <1>6, <2>1
    <2>2. CASE q # g
      BY <1>4, <1>5, <1>6, <2>2
    <2> QED
      BY <2>1, <2>2
  <1>10. OwnUser(t, Idle) /\ OnItsWay(Idle, object', current', valid')
    BY DEF OwnUser, OnItsWay, Idle, Entering, Departing
  <1>11. valid'[u]
    BY <1>2, <1>3
  <1> QED
    BY <1>1, <1>3, <1>7, <1>8, <1>9, <1>10, <1>11, OneUserTurn DEF u

LEMMA DropPlayerUser ==
    ASSUME IInv, IInv', UInv, NEW t \in Threads, DropPlayer(t) PROVE UInv'
  <1> DEFINE g == thread[t].game
             u == thread[t].user
             p == thread[t].player
             r == [thread[t] EXCEPT !.pc = "hostTest"]
  <1>1. /\ g \in Objects /\ u \in Users
        /\ object'[g].players = Removed(object[g].players, p)
        /\ \A q \in Objects : object'[q].spectators = object[q].spectators
        /\ \A q \in Objects : q # g => object'[q] = object[q]
    BY DropPlayerEffect
  <1>2. /\ thread[t].pc = "drop" /\ Busy(t) /\ thread[t] \in Tasks
        /\ current' = LeftBy({u}, g) /\ UNCHANGED valid /\ Goto(t, "hostTest")
    BY DEF DropPlayer, Busy, IInv, TypeOK
  <1>3. /\ current[u] \in {g, NoGame}
        /\ p \in Players /\ p.user = u /\ u \notin object[g].spectators
        /\ p \in PlayersOf(object[g].players) \/ u \notin UsersOf(object[g].players)
    BY <1>2 DEF UInv, EachOnItsWay, OnItsWay
  <1>4. Turns(t, r)
    BY <1>2, GotoTurns DEF IInv, Steps, Departing
  <1>5. r.pc = "hostTest" /\ r.user = u
    BY <1>2 DEF Tasks
  <1> HIDE DEF g, u, p, r
  <1>6. object[g].players \in Seq(Players) /\ Single(object[g].players)
    BY <1>1 DEF IInv, TypeOK, GameObjects, UInv, Lists, OneSeat, Single
  <1>7. /\ UsersOf(object'[g].players) = UsersOf(object[g].players) \ {u}
        /\ \A x \in PlayersOf(object[g].players) :
              x.user # u => x \in PlayersOf(object'[g].players)
        /\ Single(object'[g].players)
    BY <1>1, <1>3, <1>6, RemovedUsers
  <1>8. current'[u] = NoGame /\ \A v \in Users \ {u} : current'[v] = current[v]
    <2>1. u \in {u} \cap Users
      BY <1>1
    <2>2. current[u] = g => current'[u] = NoGame
      BY <1>2, <2>1, LeftByFacts DEF IInv
    <2>3. /\ current'[u] \in {current[u], NoGame}
          /\ \A v \in Users \ {u} : current'[v] = current[v]
      BY <1>1, <1>2, LeftByFacts DEF IInv
    <2> QED
      BY <1>3, <2>2, <2>3
  <1>9. OthersKept(u)
    <2>1. ASSUME NEW q \in Objects, NEW v \in Users \ {u}
          PROVE  /\ v \in UsersOf(object'[q].players) <=> v \in UsersOf(object[q].players)
                 /\ v \in object'[q].spectators <=> v \in object[q].spectators
                 /\ \A x \in PlayersOf(object[q].players) :
                       x.user = v => x \in PlayersOf(object'[q].players)
      <3>1. CASE q = g
        BY <1>1, <1>7, <3>1
      <3>2. CASE q # g
        BY <1>1, <3>2
      <3> QED
        BY <3>1, <3>2
    <2> QED
      BY <1>2, <1>8, <2>1 DEF OthersKept
  <1>10. \A q \in Objects : Single(object'[q].players)
    BY <1>1, <1>7 DEF UInv, Lists, OneSeat, Single
  <1>11. ASSUME NEW q \in Objects
         PROVE  u \notin UsersOf(object'[q].players) /\ u \notin object'[q].spectators
    <2>1. CASE q = g
      BY <1>1, <1>3, <1>7, <2>1
    <2>2. CASE q # g
      <3>1. current[u] # q
        BY <1>3, <2>2, NullsAssumption
      <3> QED
        BY <1>1, <2>2, <3>1 DEF UInv, Lists, Agree
    <2> QED
      BY <2>1, <2>2
  <1>12. \A q \in Objects : current'[u] # q
    BY <1>8, NullsAssumption
  <1>13. OwnUser(t, r) /\ OnItsWay(r, object', current', valid')
    BY <1>2, <1>5, <1>8 DEF OwnUser, OnItsWay, Entering, u
  <1> QED
    BY <1>2, <1>4, <1>8, <1>9, <1>10, <1>11, <1>12, <1>13, OneUserTurn DEF u

LEMMA RemoveSpectatorUser ==
    ASSUME IInv, IInv', UInv, NEW t \in Threads, RemoveSpectator(t) PROVE UInv'
  <1> DEFINE g == thread[t].game
             u == thread[t].user
             r == [thread[t] EXCEPT !.pc = "invalidate"]
  <1>1. /\ g \in Objects /\ u \in Users
        /\ object'[g].spectators = object[g].spectators \ {u}
        /\ \A q \in Objects : object'[q].players = object[q].players
        /\ \A q \in Objects : q # g => object'[q] = object[q]
    BY RemoveSpectatorEffect
  <1>2. /\ thread[t].pc = "unwatch" /\ Busy(t) /\ thread[t] \in Tasks
        /\ current' = IF u \in object[g].spectators THEN LeftBy({u}, g) ELSE current
        /\ Goto(t, "invalidate") \/ Done(t)
        /\ UNCHANGED valid
    BY DEF RemoveSpectator, Busy, IInv, TypeOK
  <1>3. current[u] \in {g, NoGame} /\ u \notin UsersOf(object[g].players)
    BY <1>2 DEF UInv, EachOnItsWay, OnItsWay
  <1>4. r.pc = "invalidate" /\ r.user = u
    BY <1>2 DEF Tasks
  <1>5. Turns(t, r) \/ Turns(t, Idle)
    BY <1>2, GotoTurns, DoneTurns DEF IInv, Steps, Closing
  <1> HIDE DEF g, u, r
  <1>6. current'[u] = NoGame /\ \A v \in Users \ {u} : current'[v] = current[v]
    <2>1. CASE u \in object[g].spectators
      <3>1. current' = LeftBy({u}, g) /\ u \in {u} \cap Users
        BY <1>1, <1>2, <2>1
      <3>2. current[u] = g => current'[u] = NoGame
        BY <3>1, LeftByFacts DEF IInv
      <3>3. /\ current'[u] \in {current[u], NoGame}
            /\ \A v \in Users \ {u} : current'[v] = current[v]
        BY <1>1, <3>1, LeftByFacts DEF IInv
      <3> QED
        BY <1>3, <3>2, <3>3
    <2>2. CASE u \notin object[g].spectators
      <3>1. current[u] # g
        BY <1>1, <1>3, <2>2 DEF UInv, Lists, Agree
      <3> QED
        BY <1>2, <1>3, <2>2, <3>1
    <2> QED
      BY <2>1, <2>2
  <1>7. OthersKept(u)
    <2>1. \A q \in Objects, v \in Users \ {u} :
             v \in object'[q].spectators <=> v \in object[q].spectators
      BY <1>1
    <2> QED
      BY <1>1, <1>2, <1>6, <2>1 DEF OthersKept
  <1>8. \A q \in Objects : Single(object'[q].players)
    BY <1>1 DEF UInv, Lists, OneSeat, Single
  <1>9. ASSUME NEW q \in Objects
        PROVE  u \notin UsersOf(object'[q].players) /\ u \notin object'[q].spectators
    <2>1. CASE q = g
      BY <1>1, <1>3, <2>1
    <2>2. CASE q # g
      <3>1. current[u] # q
        BY <1>3, <2>2, NullsAssumption
      <3> QED
        BY <1>1, <2>2, <3>1 DEF UInv, Lists, Agree
    <2> QED
      BY <2>1, <2>2
  <1>10. \A q \in Objects : current'[u] # q
    BY <1>6, NullsAssumption
  <1>11. OwnUser(t, r) /\ OnItsWay(r, object', current', valid')
    BY <1>2, <1>4, <1>6 DEF OwnUser, OnItsWay, Entering, Departing, u
  <1>12. OwnUser(t, Idle) /\ OnItsWay(Idle, object', current', valid')
    BY DEF OwnUser, OnItsWay, Idle, Entering, Departing
  <1>13. CASE Turns(t, r)
    BY <1>2, <1>6, <1>7, <1>8, <1>9, <1>10, <1>11, <1>13, OneUserTurn DEF u
  <1>14. CASE Turns(t, Idle)
    BY <1>2, <1>6, <1>7, <1>8, <1>9, <1>10, <1>12, <1>14, OneUserTurn DEF u
  <1> QED
    BY <1>5, <1>13, <1>14

LEMMA CreateGameUser ==
    ASSUME IInv, IInv', UInv, "sameUser" \notin Races, NEW t \in Threads, NEW u \in Users,
           NEW g \in Objects, CreateGame(t, u, g)
    PROVE  UInv'
  <1> DEFINE r == [pc |-> "first", user |-> u, game |-> g, player |-> NoPlayer, why |-> "leave"]
  <1>1. TypeOK /\ TypeOK' /\ TasksOK /\ UNCHANGED <<current, valid>>
    BY DEF IInv, Orderly, CreateGame
  <1>2. CASE current[u] # NoGame
    <2>1. UNCHANGED <<object, current, valid, thread>>
      BY <1>2 DEF CreateGame
    <2> QED
      BY <2>1 DEF UInv, OnePerUser, Busy, Lists, OneSeat, EitherOr, Agree, GoneIsOut,
         EachOnItsWay
  <1>3. CASE current[u] = NoGame
    <2>1. StartTask(t, "first", u, g, "leave")
      BY <1>3 DEF CreateGame
    <2>2. Turns(t, r)
      BY <2>1 DEF StartTask, Turns, Tasks, Steps, Entering, Reasons
    <2>3. valid[u] /\ OwnUser(t, r)
      BY DEF CreateGame, Request, Alone, OwnUser
    <2>4. OnItsWay(r, object, current, valid)
      BY <1>3, <2>3 DEF OnItsWay, Departing
    <2>5. object[g].players = <<>> /\ object[g].spectators = {}
      BY DEF CreateGame, Fresh, Referenced
    <2>6. \A q \in Objects : /\ object'[q].players = object[q].players
                             /\ object'[q].spectators = object[q].spectators
      <3> DEFINE new == [NewObject EXCEPT !.id = GetId]
      <3>1. object' = [object EXCEPT ![g] = new]
        BY <1>3 DEF CreateGame
      <3>2. new.players = <<>> /\ new.spectators = {}
        BY DEF NewObject
      <3> HIDE DEF new
      <3> QED
        BY <1>1, <2>5, <3>1, <3>2 DEF TypeOK
    <2> QED
      BY <1>1, <2>2, <2>3, <2>4, <2>6, SameListsTurn
  <1> QED
    BY <1>2, <1>3

\* destroyGame: everybody leaves the game at once.
LEMMA DestroyGameUser ==
    ASSUME IInv, IInv', UInv, NEW t \in Threads, DestroyGame(t) PROVE UInv'
  <1> DEFINE id == object[thread[t].game].id
             g == games[id]
             r == [thread[t] EXCEPT !.pc = "unwatch", !.player = NoPlayer]
  <1>1. /\ thread[t].pc = "destroy" /\ AfterRemoval(t) /\ UNCHANGED valid
        /\ thread[t].pc \in Departing
    BY DEF DestroyGame, Departing
  <1>2. /\ thread[t] \in Tasks /\ Busy(t) /\ thread[t].pc \in Holding
        /\ thread[t].game \in Objects /\ thread[t].user \in Users
        /\ current[thread[t].user] = NoGame
        /\ thread[t].user \notin UsersOf(object[thread[t].game].players)
    BY <1>1, DroppedFacts
  <1>3. CASE UNCHANGED <<games, nextId, object, current>>
    BY <1>1, <1>2, <1>3, AfterRemovalUser
  <1>4. CASE /\ g \in Objects
             /\ object'[g].players = <<>>
             /\ object'[g].spectators = {}
             /\ \A q \in Objects : q # g => object'[q] = object[q]
             /\ current' = LeftBy(Evicted(g), g)
    <2>1. Evicted(g) = UsersOf(object[g].players) \cup object[g].spectators
      BY DEF Evicted, UsersIn, UsersOf
    <2>2. r.pc = "unwatch" /\ r.user = thread[t].user /\ r.game = thread[t].game
      BY <1>2 DEF Tasks
    <2>3. Turns(t, Idle) \/ Turns(t, r)
      BY <1>1, AfterRemovalTurns DEF IInv
    <2> HIDE DEF g, id, r
    <2>4. /\ \A v \in Users : current'[v] \in {current[v], NoGame}
          /\ \A v \in Users : current[v] # g => current'[v] = current[v]
      BY <1>4, LeftByFacts DEF IInv
    <2>5. \A v \in Users : current[v] = g => current'[v] = NoGame
      <3> SUFFICES ASSUME NEW v \in Users, current[v] = g PROVE current'[v] = NoGame
        OBVIOUS
      <3>1. v \in Evicted(g) \cap Users
        BY <1>4, <2>1 DEF UInv, Lists, Agree
      <3> QED
        BY <1>4, <3>1, LeftByFacts DEF IInv
    <2>6. /\ UsersOf(object'[g].players) = {} /\ PlayersOf(object'[g].players) = {}
          /\ Single(object'[g].players)
      BY <1>4 DEF UsersOf, PlayersOf, Single
    <2>7. OneSeat'
      BY <1>4, <2>6 DEF UInv, Lists, OneSeat, Single
    <2>8. EitherOr'
      BY <1>4, <2>6 DEF UInv, Lists, EitherOr
    <2>9. Agree'
      <3> SUFFICES ASSUME NEW v \in Users, NEW q \in Objects
                   PROVE  v \in UsersOf(object'[q].players) \cup object'[q].spectators
                            <=> current'[v] = q
        BY DEF Agree
      <3>1. CASE q = g
        BY <1>4, <2>4, <2>5, <2>6, <3>1, NullsAssumption
      <3>2. CASE q # g
        <4>1. v \in UsersOf(object'[q].players) \cup object'[q].spectators <=> current[v] = q
          BY <1>4, <3>2 DEF UInv, Lists, Agree
        <4>2. current'[v] = q <=> current[v] = q
          BY <2>4, <2>5, <3>2, NullsAssumption
        <4> QED
          BY <4>1, <4>2
      <3> QED
        BY <3>1, <3>2
    <2>10. GoneIsOut'
      BY <1>1, <2>4 DEF UInv, Lists, GoneIsOut
    <2>11. ASSUME NEW x, OnItsWay(x, object, current, valid),
                  x.pc # "idle" => x.user \in Users,
                  x.pc \in Holding => x.game \in Objects
           PROVE  OnItsWay(x, object', current', valid')
      <3>1. x.pc # "idle" => current'[x.user] \in {current[x.user], NoGame}
        BY <2>4, <2>11
      <3>2. ASSUME x.pc \in {"drop", "unwatch"}
            PROVE  \/ object'[x.game] = object[x.game]
                   \/ /\ UsersOf(object'[x.game].players) = {}
                      /\ object'[x.game].spectators = {}
        BY <1>4, <2>6, <2>11, <3>2 DEF Holding, Departing
      <3> QED
        BY <1>1, <2>11, <3>1, <3>2 DEF OnItsWay, Entering, Departing
    <2>12. ASSUME NEW s \in Threads PROVE OnItsWay(thread[s], object', current', valid')
      <3>1. /\ OnItsWay(thread[s], object, current, valid)
            /\ thread[s].pc # "idle" => thread[s].user \in Users
            /\ thread[s].pc \in Holding => thread[s].game \in Objects
        BY DEF UInv, EachOnItsWay, IInv, Orderly, TasksOK, Busy
      <3> QED
        BY <2>11, <3>1
    <2>13. OnItsWay(r, object', current', valid') /\ OwnUser(t, r)
      <3>1. OnItsWay(r, object, current, valid)
        BY <1>2, <2>2 DEF OnItsWay, Entering, Departing
      <3> QED
        BY <1>2, <2>2, <2>11, <3>1 DEF OwnUser
    <2>14. OnItsWay(Idle, object', current', valid') /\ OwnUser(t, Idle)
      BY DEF OwnUser, OnItsWay, Idle, Entering, Departing
    <2>15. Lists'
      BY <2>7, <2>8, <2>9, <2>10 DEF Lists
    <2> QED
      BY <2>3, <2>12, <2>13, <2>14, <2>15, TurnKeeps DEF IInv
  <1> QED
    BY <1>3, <1>4, DestroyGameEffect

-----------------------------------------------------------------------------

LEMMA InitUInv == Init => UInv
  <1> SUFFICES ASSUME Init PROVE UInv
    OBVIOUS
  <1>1. OnePerUser /\ EachOnItsWay
    BY DEF Init, OnePerUser, Busy, EachOnItsWay, OnItsWay, Idle, Entering, Departing
  <1>2. \A g \in Objects : UsersOf(object[g].players) = {} /\ object[g].spectators = {}
    BY DEF Init, NewObject, UsersOf
  <1>3. OneSeat
    BY DEF Init, NewObject, OneSeat
  <1>4. EitherOr /\ Agree /\ GoneIsOut
    BY <1>2, NullsAssumption DEF Init, EitherOr, Agree, GoneIsOut
  <1> QED
    BY <1>1, <1>3, <1>4 DEF UInv, Lists

LEMMA NextUInv ==
    ASSUME "sameUser" \notin Races
    PROVE  IInv /\ IInv' /\ UInv /\ [Next]_vars => UInv'
  <1> SUFFICES ASSUME IInv, IInv', UInv, [Next]_vars PROVE UInv'
    OBVIOUS
  <1>1. CASE UNCHANGED vars
    BY <1>1 DEF vars, UInv, OnePerUser, Busy, Lists, OneSeat, EitherOr, Agree, GoneIsOut,
       EachOnItsWay
  <1>2. ASSUME NEW t \in Threads, Enter(t) PROVE UInv'
    BY <1>2, LookUpUser, JoinGameUser, SeatPlayerUser, SeatSpectatorUser, CreateGameUser
       DEF Enter
  <1>3. ASSUME NEW t \in Threads, Depart(t) PROVE UInv'
    BY <1>3, LeaveGameUser, KickIdleUser, DisconnectUser, ReadGameUser, FindPlayerUser,
       DropPlayerUser, HostTestUser, HostPickUser, SetHostUser, CountPlayersUser,
       DestroyGameUser, RemoveSpectatorUser, InvalidateUser DEF Depart
  <1>4. ASSUME NEW t \in Threads, Host(t) PROVE UInv'
    BY <1>4, HandOverUser, SetHostUser DEF Host
  <1> QED
    BY <1>1, <1>2, <1>3, <1>4 DEF Next

LEMMA UInvHolds ==
    ASSUME "sameUser" \notin Races PROVE Spec => []UInv
  <1>1. IInv /\ IInv' /\ UInv /\ [Next]_vars => UInv'
    BY NextUInv
  <1> QED
    BY InitUInv, IInvHolds, <1>1, PTL DEF Spec

\* As long as one thread at a time acts for a user, the lists of players and
\* of spectators agree with User.currentGame, whatever else goes on in the
\* games meanwhile: joinGame and leaveGame follow the lists.
THEOREM ListsAgree ==
    ASSUME "sameUser" \notin Races PROVE Spec => []Consistent
  <1>1. UInv => Consistent
    BY DEF UInv, Lists, Agree, Consistent, Evicted, UsersIn, UsersOf
  <1> QED
    BY <1>1, UInvHolds, PTL

\* ... and a user that noLongerValid has let go of is in none of them.
THEOREM GoneForGood ==
    ASSUME "sameUser" \notin Races PROVE Spec => []GoneUsersAreOut
  <1>1. UInv => GoneUsersAreOut
    <2> SUFFICES ASSUME UInv, NEW u \in Users, ~valid[u], NEW g \in Objects
                 PROVE  u \notin Evicted(g)
      BY DEF GoneUsersAreOut
    <2>1. current[u] # g
      BY NullsAssumption DEF UInv, Lists, GoneIsOut
    <2> QED
      BY <2>1 DEF UInv, Lists, Agree, Evicted, UsersIn, UsersOf
  <1> QED
    BY <1>1, UInvHolds, PTL

-----------------------------------------------------------------------------
(* Which games are in the registry, and who is their host.  Here a user    *)
(* may act in several threads, but nobody enters a game that somebody      *)
(* leaves, and one thread at a time leaves it or hands it over.            *)

Active == Entering \cup Departing

\* The steps at which the list of players of a registered game may be empty,
\* and those at which its host may be a player that has left.
Emptied == {"first", "hostTest", "hostSet", "count", "destroy"}
Replacing == {"hostTest", "hostPick", "hostSet"}

Calm ==
    \A s, t \in Threads :
        s # t /\ thread[s].pc \in Departing /\ thread[t].game = thread[s].game
            => thread[t].pc \notin Active

AtTheirIds == \A id \in Ids : games[id] # NoGame => object[games[id]].id = id

\* What a thread at its step relies on in its game o: that the host it has
\* found is still one of the players, that the list is still empty, ...
Fits(r, o) ==
    /\ r.pc = "first" => o.host = NoPlayer
    /\ r.pc = "drop" => r.player.user = r.user
    /\ r.pc = "hostTest" => o.players = <<>> \/ o.host \in {r.player} \cup PlayersOf(o.players)
    /\ r.pc = "hostPick" => o.players # <<>>
    /\ r.pc = "hostSet" => o.players = <<>> \/ r.player \in PlayersOf(o.players)
    /\ r.pc = "hand" => r.player \in PlayersOf(o.players)
    /\ r.pc = "destroy" => o.players = <<>>

People(o) == UsersOf(o.players) \cup o.spectators

\* Whoever is in a game is in one that is listed, and in the game that is his
\* current one; a listed game has players and a host, or a thread sees to it.
Tended(g) ==
    /\ People(object[g]) # {} => Listed(g)
    /\ \A u \in Users : current[u] = g => u \in People(object[g])
    /\ Listed(g) => object[g].players # <<>> \/ \E t \in Threads : InGame(t, Emptied, g)
    /\ object[g].players # <<>> =>
          \/ object[g].host \in PlayersOf(object[g].players)
          \/ \E t \in Threads : InGame(t, Replacing, g)
    /\ \A t \in Threads : InGame(t, Active, g) => Listed(g) /\ Fits(thread[t], object[g])

HInv == Calm /\ AtTheirIds /\ \A g \in Objects : Tended(g)

LEMMA StepKinds ==
    /\ Emptied \subseteq Active /\ Replacing \subseteq Departing /\ Active \subseteq Holding
    /\ Departing \subseteq Active /\ Entering \subseteq Active
    /\ Entering \cap Departing = {} /\ Entering \cap Emptied = {"first"}
    /\ "idle" \notin Active /\ "unwatch" \notin Active /\ "reread" \notin Active
    /\ "invalidate" \notin Active
  BY DEF Active, Holding, Emptied, Replacing, Entering, Departing

\* The thread has nothing to do with the game q, before and after the step.
AwayFrom(t, r, q) ==
    /\ ~InGame(t, Active, q)
    /\ ~(r.pc \in Active /\ r.game = q)

\* The game q as it is in the registry, in its lists and for its users, but for
\* users that leave it.
Untouched(q) ==
    /\ object'[q] = object[q]
    /\ Listed(q)' <=> Listed(q)
    /\ \A u \in Users : current'[u] = q => current[u] = q

LEMMA AwayKeepsTended ==
    ASSUME TypeOK, NEW t \in Threads, NEW r, Turns(t, r), NEW q \in Objects,
           Tended(q), AwayFrom(t, r, q), Untouched(q)
    PROVE  Tended(q)'
  <1>1. /\ thread'[t] = r
        /\ \A s \in Threads : s # t => thread'[s] = thread[s]
    BY TurnsType
  <1>2. ASSUME NEW s \in Threads PROVE /\ InGame(s, Active, q)' => s # t /\ InGame(s, Active, q)
                                       /\ InGame(s, Emptied, q) => InGame(s, Emptied, q)'
                                       /\ InGame(s, Replacing, q) => InGame(s, Replacing, q)'
    BY <1>1, StepKinds DEF InGame, AwayFrom
  <1>3. object'[q] = object[q] /\ (Listed(q)' <=> Listed(q))
    BY DEF Untouched
  <1>4. (People(object[q]) # {} => Listed(q))'
    BY <1>3 DEF Tended
  <1>5. (\A u \in Users : current[u] = q => u \in People(object[q]))'
    BY <1>3 DEF Tended, Untouched
  <1>6. (Listed(q) => object[q].players # <<>> \/ \E s \in Threads : InGame(s, Emptied, q))'
    BY <1>2, <1>3 DEF Tended
  <1>7. (object[q].players # <<>> =>
          \/ object[q].host \in PlayersOf(object[q].players)
          \/ \E s \in Threads : InGame(s, Replacing, q))'
    BY <1>2, <1>3 DEF Tended
  <1>8. (\A s \in Threads : InGame(s, Active, q) => Listed(q) /\ Fits(thread[s], object[q]))'
    BY <1>1, <1>2, <1>3 DEF Tended
  <1> QED
    BY <1>4, <1>5, <1>6, <1>7, <1>8 DEF Tended

\* The others that are in the game of the thread's task let it be there.
Clear(t, r) ==
    \A s \in Threads \ {t} : thread[s].game = r.game =>
        /\ r.pc \in Departing => thread[s].pc \notin Active
        /\ r.pc \in Active => thread[s].pc \notin Departing

\* A step of a thread that has to do with one game only.
LEMMA OneGameStep ==
    ASSUME IInv, HInv, NEW t \in Threads, NEW r, Turns(t, r), Clear(t, r), NEW g \in Objects,
           thread[t].pc \in Active => thread[t].game = g,
           r.pc \in Active => r.game = g,
           \A q \in Objects \ {g} : Untouched(q),
           Tended(g)', AtTheirIds'
    PROVE  HInv'
  <1>1. /\ thread'[t] = r /\ TypeOK
        /\ \A s \in Threads : s # t => thread'[s] = thread[s]
    BY TurnsType DEF IInv
  <1>2. Calm'
    BY <1>1, StepKinds DEF HInv, Calm, Clear
  <1>3. ASSUME NEW q \in Objects, q # g PROVE Tended(q)'
    BY <1>1, <1>3, AwayKeepsTended DEF HInv, AwayFrom, InGame
  <1> QED
    BY <1>2, <1>3 DEF HInv

\* The thread is alone with its game.
AloneIn(t, g) == \A s \in Threads \ {t} : thread[s].game = g => thread[s].pc \notin Active

\* A thread that is alone with its game leaves it in order if its own next step
\* accounts for what is not in order.
LEMMA AloneKeepsTended ==
    ASSUME TypeOK, NEW t \in Threads, NEW r, Turns(t, r), NEW g \in Objects, AloneIn(t, g),
           r.pc \in Active => r.game = g,
           People(object'[g]) # {} => Listed(g)',
           \A u \in Users : current'[u] = g => u \in People(object'[g]),
           Listed(g)' => object'[g].players # <<>> \/ r.pc \in Emptied,
           object'[g].players # <<>> =>
              object'[g].host \in PlayersOf(object'[g].players) \/ r.pc \in Replacing,
           r.pc \in Active => Listed(g)' /\ Fits(r, object'[g])
    PROVE  Tended(g)'
  <1>1. /\ thread'[t] = r
        /\ \A s \in Threads : s # t => thread'[s] = thread[s]
    BY TurnsType
  <1>2. \A s \in Threads : InGame(s, Active, g)' => s = t
    BY <1>1 DEF InGame, AloneIn
  <1>3. /\ r.pc \in Emptied => InGame(t, Emptied, g)'
        /\ r.pc \in Replacing => InGame(t, Replacing, g)'
        /\ InGame(t, Active, g)' => r.pc \in Active
    BY <1>1, StepKinds DEF InGame
  <1>4. (\A s \in Threads : InGame(s, Active, g) => Listed(g) /\ Fits(thread[s], object[g]))'
    BY <1>1, <1>2, <1>3
  <1>5. (Listed(g) => object[g].players # <<>> \/ \E s \in Threads : InGame(s, Emptied, g))'
    BY <1>3
  <1>6. (object[g].players # <<>> =>
          \/ object[g].host \in PlayersOf(object[g].players)
          \/ \E s \in Threads : InGame(s, Replacing, g))'
    BY <1>3
  <1> QED
    BY <1>4, <1>5, <1>6 DEF Tended

\* A thread on its way into a game, as those beside it may be.
LEMMA EnteringKeepsTended ==
    ASSUME TypeOK, NEW t \in Threads, NEW r, Turns(t, r), NEW g \in Objects, Tended(g),
           thread[t].pc \in Active => thread[t].pc \in Entering,
           r.pc \in Active => r.pc \in Entering \ {"first"} /\ r.game = g,
           \A s \in Threads \ {t} : thread[s].game = g => thread[s].pc \notin Departing \cup {"first"},
           Listed(g)',
           \A u \in Users : current'[u] = g => u \in People(object'[g]),
           object'[g].players # <<>>,
           object'[g].host \in PlayersOf(object'[g].players)
    PROVE  Tended(g)'
  <1>1. /\ thread'[t] = r
        /\ \A s \in Threads : s # t => thread'[s] = thread[s]
    BY TurnsType
  <1>2. ASSUME NEW s \in Threads, InGame(s, Active, g)' PROVE thread'[s].pc \in Entering \ {"first"}
    BY <1>1, <1>2 DEF InGame, Active
  <1>3. ASSUME NEW x, x.pc \in Entering \ {"first"} PROVE Fits(x, object'[g])
    BY <1>3 DEF Fits, Entering
  <1>4. (\A s \in Threads : InGame(s, Active, g) => Listed(g) /\ Fits(thread[s], object[g]))'
    BY <1>2, <1>3
  <1> QED
    BY <1>4 DEF Tended

\* A thread that is in no game's way, though it may take a spectator out of one.
LEMMA AsideStep ==
    ASSUME IInv, HInv, NEW t \in Threads, NEW r, Turns(t, r),
           thread[t].pc \notin Active, r.pc \notin Active, UNCHANGED games,
           \A q \in Objects : /\ object'[q].id = object[q].id
                              /\ object'[q].players = object[q].players
                              /\ object'[q].host = object[q].host
                              /\ object'[q].spectators \subseteq object[q].spectators,
           \A q \in Objects, u \in Users : current'[u] = q =>
              current[u] = q /\ u \notin object[q].spectators \ object'[q].spectators
    PROVE  HInv'
  <1>1. /\ thread'[t] = r /\ TypeOK
        /\ \A s \in Threads : s # t => thread'[s] = thread[s]
    BY TurnsType DEF IInv
  <1>2. Calm'
    BY <1>1, StepKinds DEF HInv, Calm
  <1>3. AtTheirIds'
    BY <1>1, NullsAssumption DEF HInv, AtTheirIds, TypeOK
  <1>4. ASSUME NEW q \in Objects PROVE Tended(q)'
    <2>1. ASSUME NEW s \in Threads PROVE /\ InGame(s, Active, q)' => s # t /\ InGame(s, Active, q)
                                         /\ InGame(s, Emptied, q) => InGame(s, Emptied, q)'
                                         /\ InGame(s, Replacing, q) => InGame(s, Replacing, q)'
      BY <1>1, StepKinds DEF InGame
    <2>2. Listed(q)' <=> Listed(q)
      BY DEF Listed
    <2>3. \A x : Fits(x, object[q]) => Fits(x, object'[q])
      BY DEF Fits
    <2>4. Tended(q)
      BY DEF HInv
    <2>5. (People(object[q]) # {} => Listed(q))'
      BY <2>2, <2>4 DEF Tended, People
    <2>6. (\A u \in Users : current[u] = q => u \in People(object[q]))'
      BY <2>4 DEF Tended, People
    <2>7. (Listed(q) => object[q].players # <<>> \/ \E s \in Threads : InGame(s, Emptied, q))'
      BY <2>1, <2>2, <2>4 DEF Tended
    <2>8. (object[q].players # <<>> =>
            \/ object[q].host \in PlayersOf(object[q].players)
            \/ \E s \in Threads : InGame(s, Replacing, q))'
      BY <2>1, <2>4 DEF Tended
    <2>9. (\A s \in Threads : InGame(s, Active, q) => Listed(q) /\ Fits(thread[s], object[q]))'
      BY <1>1, <2>1, <2>2, <2>3, <2>4 DEF Tended
    <2> QED
      BY <2>5, <2>6, <2>7, <2>8, <2>9 DEF Tended
  <1> QED
    BY <1>2, <1>3, <1>4 DEF HInv

LEMMA ThreadFacts ==
    ASSUME IInv, NEW t \in Threads
    PROVE  /\ thread[t] \in Tasks
           /\ Busy(t) => thread[t].user \in Users
           /\ thread[t].pc \in Active \cup {"unwatch"} => thread[t].game \in Objects
  BY DEF IInv, Orderly, TypeOK, TasksOK, Active, Holding

\* The lists, the registry and currentGame stay as they are.
LEMMA NothingTouched ==
    ASSUME HInv, UNCHANGED <<games, object, current>>
    PROVE  AtTheirIds' /\ \A q \in Objects : Untouched(q)
  BY DEF HInv, AtTheirIds, Untouched, Listed

\* A thread that goes on alone with its game, or leaves it, and touches nothing.
LEMMA AloneStep ==
    ASSUME IInv, HInv, NEW t \in Threads, NEW r, Turns(t, r), NEW g \in Objects, AloneIn(t, g),
           thread[t].pc \in Active => thread[t].game = g,
           r.pc \in Active => r.game = g,
           UNCHANGED <<games, object, current>>,
           Listed(g) => object[g].players # <<>> \/ r.pc \in Emptied,
           object[g].players # <<>> =>
              object[g].host \in PlayersOf(object[g].players) \/ r.pc \in Replacing,
           r.pc \in Active => Listed(g) /\ Fits(r, object[g])
    PROVE  HInv'
  <1>1. AtTheirIds' /\ \A q \in Objects : Untouched(q)
    BY NothingTouched
  <1>2. Listed(g)' <=> Listed(g)
    BY <1>1 DEF Untouched
  <1>3. Clear(t, r)
    BY StepKinds DEF Clear, AloneIn
  <1>4. /\ People(object'[g]) # {} => Listed(g)'
        /\ \A u \in Users : current'[u] = g => u \in People(object'[g])
    BY <1>2 DEF HInv, Tended
  <1>5. Tended(g)'
    BY <1>2, <1>4, AloneKeepsTended DEF IInv
  <1> QED
    BY <1>1, <1>3, <1>5, OneGameStep

\* In a game that somebody leaves nobody else does anything.
LEMMA DepartsAlone ==
    ASSUME HInv, NEW t \in Threads, thread[t].pc \in Departing
    PROVE  AloneIn(t, thread[t].game)
  BY DEF HInv, Calm, AloneIn

LEMMA DepartsFirst ==
    ASSUME NEW t \in Threads, NEW g, MayDepart(g), Races \cap {"lateJoin", "departures"} = {}
    PROVE  AloneIn(t, g)
  BY DEF MayDepart, AloneIn, InGame, Active

\* A game that nobody is about to leave has players and a host.
LEMMA InOrder ==
    ASSUME HInv, NEW g \in Objects, Listed(g),
           \A s \in Threads : ~InGame(s, Emptied \cup Replacing, g)
    PROVE  object[g].players # <<>> /\ object[g].host \in PlayersOf(object[g].players)
  BY DEF HInv, Tended, InGame

\* The record of the thread after a step, without its EXCEPTs.
LEMMA GotoRecord ==
    ASSUME IInv, NEW t \in Threads, NEW pc \in Steps, Goto(t, pc)
    PROVE  \E r : /\ Turns(t, r) /\ r.pc = pc /\ r.user = thread[t].user
                  /\ r.game = thread[t].game /\ r.player = thread[t].player
  <1>1. Turns(t, [thread[t] EXCEPT !.pc = pc])
    BY GotoTurns DEF IInv
  <1>2. thread[t] \in Tasks
    BY ThreadFacts
  <1> QED
    BY <1>1, <1>2 DEF Tasks

LEMMA GotoWithRecord ==
    ASSUME IInv, NEW t \in Threads, NEW pc \in Steps, NEW p \in Players \cup {NoPlayer},
           GotoWith(t, pc, p)
    PROVE  \E r : /\ Turns(t, r) /\ r.pc = pc /\ r.user = thread[t].user
                  /\ r.game = thread[t].game /\ r.player = p
  <1> DEFINE r == [thread[t] EXCEPT !.pc = pc, !.player = p]
  <1>1. TypeOK /\ thread[t] \in Tasks
    BY ThreadFacts DEF IInv
  <1>2. Turns(t, r)
    BY <1>1, GotoWithTurns, Zenon
  <1>3. r.pc = pc /\ r.user = thread[t].user /\ r.game = thread[t].game /\ r.player = p
    BY <1>1 DEF Tasks
  <1> HIDE DEF r
  <1> QED
    BY <1>2, <1>3

LEMMA DoneRecord ==
    ASSUME NEW t \in Threads, Done(t) PROVE \E r : Turns(t, r) /\ r.pc \notin Active
  BY DoneTurns, StepKinds DEF Idle

LEMMA AfterRemovalRecord ==
    ASSUME IInv, NEW t \in Threads, AfterRemoval(t)
    PROVE  \E r : Turns(t, r) /\ r.pc \notin Active
  BY DoneRecord, GotoWithRecord, StepKinds DEF AfterRemoval, Steps, Closing

LEMMA NobodyTurns == HInv /\ UNCHANGED <<games, object, current, thread>> => HInv'
  BY DEF HInv, Calm, AtTheirIds, Tended, Listed, InGame

-----------------------------------------------------------------------------
(* Entering.                                                               *)

\* A thread on its way into a listed game, that touches nothing.
LEMMA OnTheWayIn ==
    ASSUME IInv, HInv, NEW t \in Threads, NEW r, Turns(t, r), NEW g \in Objects, Listed(g),
           thread[t].pc \in Active => thread[t].pc \in Entering \ {"first"} /\ thread[t].game = g,
           r.pc \in Active => r.pc \in Entering \ {"first"} /\ r.game = g,
           \A s \in Threads \ {t} : thread[s].game = g => thread[s].pc \notin Departing \cup {"first"},
           UNCHANGED <<games, object, current>>
    PROVE  HInv'
  <1>1. AtTheirIds' /\ \A q \in Objects : Untouched(q)
    BY NothingTouched
  <1>2. Listed(g)'
    BY <1>1 DEF Untouched
  <1>3. Clear(t, r)
    BY StepKinds DEF Clear
  <1>4. \A s \in Threads : ~InGame(s, Emptied \cup Replacing, g)
    BY StepKinds DEF InGame, Active
  <1>5. object[g].players # <<>> /\ object[g].host \in PlayersOf(object[g].players)
    BY <1>4, InOrder
  <1>6. Tended(g)
    BY DEF HInv
  <1>7. \A u \in Users : current'[u] = g => u \in People(object'[g])
    BY <1>6 DEF Tended
  <1>8. Tended(g)'
    BY <1>2, <1>5, <1>6, <1>7, EnteringKeepsTended DEF IInv
  <1> QED
    BY <1>1, <1>3, <1>8, OneGameStep

LEMMA LookUpHost ==
    ASSUME IInv, HInv, "lateJoin" \notin Races, NEW t \in Threads, NEW u \in Users, NEW id \in Ids,
           NEW how \in {"join", "spectate"}, LookUp(t, u, id, how)
    PROVE  HInv'
  <1> DEFINE g == games[id]
             r == [pc |-> how, user |-> u, game |-> g, player |-> NoPlayer, why |-> "leave"]
  <1>1. g \in Objects /\ Listed(g)
    BY DEF IInv, TypeOK, LookUp, Listed
  <1>2. Turns(t, r)
    BY <1>1 DEF LookUp, StartTask, Turns, Tasks, Steps, Entering, Reasons
  <1>3. /\ r.pc \in Entering \ {"first"} /\ r.game = g
        /\ thread[t].pc \notin Active
    BY StepKinds DEF Entering, LookUp, Request, Busy
  <1>4. \A s \in Threads : thread[s].game = g => thread[s].pc \notin Departing \cup {"first"}
    BY DEF LookUp, GamesFree, MayEnter, InGame
  <1> HIDE DEF g, r
  <1> QED
    BY <1>1, <1>2, <1>3, <1>4, OnTheWayIn DEF LookUp

\* Who enters a game that is there does so beside others that enter it.
LEMMA EntersBeside ==
    ASSUME IInv, HInv, NEW t \in Threads, thread[t].pc \in Entering
    PROVE  /\ thread[t].game \in Objects /\ Listed(thread[t].game)
           /\ \A s \in Threads \ {t} : thread[s].game = thread[t].game =>
                 thread[s].pc \notin Departing \cup {"first"}
  <1>1. thread[t].pc \in Active /\ thread[t].game \in Objects
    BY ThreadFacts DEF Active
  <1>2. Listed(thread[t].game)
    BY <1>1 DEF HInv, Tended, InGame
  <1>3. \A s \in Threads \ {t} : thread[s].game = thread[t].game => thread[s].pc \notin Departing
    BY <1>1 DEF HInv, Calm
  <1>4. \A s \in Threads \ {t} : thread[s].game = thread[t].game => thread[s].pc # "first"
    BY DEF IInv, Orderly, FirstAlone
  <1> QED
    BY <1>1, <1>2, <1>3, <1>4

LEMMA JoinGameHost ==
    ASSUME IInv, HInv, NEW t \in Threads, JoinGame(t) \/ SpectateGame(t) PROVE HInv'
  <1>1. thread[t].pc \in Entering \ {"first"} /\ UNCHANGED <<games, object, current>>
    BY DEF JoinGame, SpectateGame, Entering
  <1>2. \E r : Turns(t, r) /\ (r.pc \in Active =>
                                  r.pc \in Entering \ {"first"} /\ r.game = thread[t].game)
    <2>1. CASE Done(t)
      BY <2>1, DoneRecord
    <2>2. CASE Goto(t, "seat") \/ Goto(t, "watch")
      <3>1. {"seat", "watch"} \subseteq Steps /\ {"seat", "watch"} \subseteq Entering \ {"first"}
        BY DEF Steps, Entering
      <3> QED
        BY <2>2, <3>1, GotoRecord
    <2> QED
      BY <2>1, <2>2 DEF JoinGame, SpectateGame
  <1>3. /\ thread[t].game \in Objects /\ Listed(thread[t].game)
        /\ \A s \in Threads \ {t} : thread[s].game = thread[t].game =>
              thread[s].pc \notin Departing \cup {"first"}
    BY <1>1, EntersBeside
  <1> QED
    BY <1>1, <1>2, <1>3, OnTheWayIn

\* The list with one more player.
LEMMA AppendedFacts ==
    ASSUME NEW s \in Seq(Players), NEW p \in Players
    PROVE  /\ Append(s, p) # <<>>
           /\ UsersOf(Append(s, p)) = UsersOf(s) \cup {p.user}
           /\ PlayersOf(Append(s, p)) = PlayersOf(s) \cup {p}
  <1> DEFINE q == Append(s, p)
             n == Len(s)
  <1>1. /\ n \in Nat /\ Len(q) = n + 1 /\ q[n + 1] = p
        /\ \A i \in 1..n : q[i] = s[i]
    OBVIOUS
  <1> HIDE DEF q
  <1>2. 1..(n + 1) = (1..n) \cup {n + 1}
    BY <1>1
  <1>3. q # <<>>
    BY <1>1
  <1>4. UsersOf(q) = UsersOf(s) \cup {p.user}
    BY <1>1, <1>2 DEF UsersOf
  <1>5. PlayersOf(q) = PlayersOf(s) \cup {p}
    BY <1>1, <1>2 DEF PlayersOf
  <1> QED
    BY <1>3, <1>4, <1>5 DEF q

\* What SeatPlayer makes of the game and of the users.
LEMMA SeatPlayerEffect ==
    ASSUME IInv, NEW t \in Threads, SeatPlayer(t)
    PROVE  LET g == thread[t].game
               u == thread[t].user
               p == NewPlayer(u)
           IN  /\ g \in Objects /\ u \in Users /\ p \in Players /\ p.user = u
               /\ object'[g].id = object[g].id
               /\ object'[g].players = Append(object[g].players, p)
               /\ object'[g].spectators = object[g].spectators
               /\ object'[g].host = FirstHost(g, p)
               /\ \A q \in Objects : q # g => object'[q] = object[q]
               /\ current'[u] = g
               /\ \A v \in Users : v # u => current'[v] = current[v]
  <1> DEFINE g == thread[t].game
             u == thread[t].user
             p == NewPlayer(u)
             h == FirstHost(g, p)
             s == Append(object[g].players, p)
  <1>1. /\ g \in Objects /\ u \in Users /\ FreshSerials(u) # {}
    BY DEF SeatPlayer, IInv, Orderly, TasksOK, Busy, Holding, Entering
  <1>2. p \in Players /\ p.user = u
    BY <1>1, NewPlayerType
  <1>3. /\ current' = [current EXCEPT ![u] = g]
        /\ object' = [object EXCEPT ![g].players = s, ![g].host = h]
    BY DEF SeatPlayer
  <1> HIDE DEF g, u, p, h, s
  <1>4. /\ object'[g].id = object[g].id
        /\ object'[g].players = s
        /\ object'[g].spectators = object[g].spectators
        /\ object'[g].host = h
        /\ \A q \in Objects : q # g => object'[q] = object[q]
    BY <1>1, <1>3 DEF IInv, TypeOK, GameObjects
  <1>5. current'[u] = g /\ \A v \in Users : v # u => current'[v] = current[v]
    BY <1>1, <1>3 DEF IInv, TypeOK
  <1> QED
    BY <1>1, <1>2, <1>4, <1>5 DEF g, u, p, h, s

LEMMA SeatPlayerHost ==
    ASSUME IInv, HInv, NEW t \in Threads, SeatPlayer(t) PROVE HInv'
  <1> PICK g : g = thread[t].game
    OBVIOUS
  <1> DEFINE u == thread[t].user
             p == NewPlayer(u)
             s == object[g].players
  <1>1. thread[t].pc \in {"seat", "first"} /\ thread[t].pc \in Entering /\ UNCHANGED games
    BY DEF SeatPlayer, Entering
  <1>2. /\ g \in Objects /\ u \in Users /\ p \in Players /\ p.user = u
        /\ object'[g].id = object[g].id
        /\ object'[g].players = Append(s, p)
        /\ object'[g].spectators = object[g].spectators
        /\ object'[g].host = FirstHost(g, p)
        /\ \A q \in Objects : q # g => object'[q] = object[q]
        /\ current'[u] = g
        /\ \A v \in Users : v # u => current'[v] = current[v]
    BY SeatPlayerEffect
  <1>3. /\ Listed(g)
        /\ \A x \in Threads \ {t} : thread[x].game = g => thread[x].pc \notin Departing \cup {"first"}
    BY <1>1, EntersBeside
  <1>4. s \in Seq(Players)
    BY <1>2 DEF IInv, TypeOK, GameObjects
  <1>5. PICK r : Turns(t, r) /\ r.pc \notin Active
    BY DoneRecord DEF SeatPlayer
  <1>6. Tended(g)
    BY <1>2 DEF HInv
  <1>7. FirstHost(g, p) \in PlayersOf(s) \cup {p}
    <2>1. CASE thread[t].pc = "first"
      <3>1. InGame(t, Active, g) /\ Fits(thread[t], object[g])
        BY <1>1, <1>6, <2>1 DEF Tended, InGame, Active
      <3> QED
        BY <2>1, <3>1 DEF Fits, FirstHost
    <2>2. CASE thread[t].pc = "seat"
      <3>1. \A x \in Threads : ~InGame(x, Emptied \cup Replacing, g)
        BY <1>3, <2>2, StepKinds DEF InGame, Active, Emptied, Replacing
      <3> QED
        BY <1>2, <1>3, <3>1, InOrder DEF FirstHost
    <2> QED
      BY <1>1, <2>1, <2>2
  <1> HIDE DEF u, p, s
  <1>8. /\ object'[g].players # <<>>
        /\ UsersOf(object'[g].players) = UsersOf(s) \cup {u}
        /\ PlayersOf(object'[g].players) = PlayersOf(s) \cup {p}
    BY <1>2, <1>4, AppendedFacts
  <1>9. \A q \in Objects : Listed(q)' <=> Listed(q)
    BY <1>1 DEF Listed
  <1>10. \A v \in Users : current'[v] = g => v \in People(object'[g])
    BY <1>2, <1>6, <1>8 DEF Tended, People, s
  <1>11. thread[t].pc \in Active => thread[t].pc \in Entering
    BY <1>1
  <1>12. Tended(g)'
    BY <1>2, <1>3, <1>5, <1>6, <1>7, <1>8, <1>9, <1>10, <1>11, EnteringKeepsTended DEF IInv
  <1>13. ASSUME NEW q \in Objects, q # g PROVE Untouched(q)
    BY <1>2, <1>9, <1>13 DEF Untouched
  <1>14. AtTheirIds'
    BY <1>1, <1>2 DEF HInv, AtTheirIds, IInv, TypeOK
  <1>15. Clear(t, r)
    BY <1>5, StepKinds DEF Clear
  <1> QED
    BY <1>2, <1>5, <1>12, <1>13, <1>14, <1>15, OneGameStep

LEMMA SeatSpectatorHost ==
    ASSUME IInv, HInv, NEW t \in Threads, SeatSpectator(t) PROVE HInv'
  <1> PICK g : g = thread[t].game
    OBVIOUS
  <1> PICK u : u = thread[t].user
    OBVIOUS
  <1>1. /\ thread[t].pc \in Entering \ {"first"} /\ Busy(t) /\ UNCHANGED games
        /\ current' = [current EXCEPT ![u] = g]
        /\ object' = [object EXCEPT ![g].spectators = @ \cup {u}]
        /\ Done(t)
    BY DEF SeatSpectator, Entering, Busy
  <1>2. /\ g \in Objects /\ Listed(g)
        /\ \A x \in Threads \ {t} : thread[x].game = g => thread[x].pc \notin Departing \cup {"first"}
    BY <1>1, EntersBeside
  <1>3. u \in Users
    BY <1>1, ThreadFacts
  <1>4. /\ object'[g].id = object[g].id
        /\ object'[g].players = object[g].players
        /\ object'[g].host = object[g].host
        /\ object'[g].spectators = object[g].spectators \cup {u}
        /\ \A q \in Objects : q # g => object'[q] = object[q]
    BY <1>1, <1>2 DEF IInv, TypeOK, GameObjects
  <1>5. current'[u] = g /\ \A v \in Users : v # u => current'[v] = current[v]
    BY <1>1, <1>3 DEF IInv, TypeOK
  <1>6. PICK r : Turns(t, r) /\ r.pc \notin Active
    BY <1>1, DoneRecord
  <1>7. \A s \in Threads : ~InGame(s, Emptied \cup Replacing, g)
    BY <1>1, <1>2, StepKinds DEF InGame, Active
  <1>8. object[g].players # <<>> /\ object[g].host \in PlayersOf(object[g].players)
    BY <1>2, <1>7, InOrder
  <1>9. \A q \in Objects : Listed(q)' <=> Listed(q)
    BY <1>1 DEF Listed
  <1>10. Tended(g)
    BY <1>2 DEF HInv
  <1>11. \A v \in Users : current'[v] = g => v \in People(object'[g])
    BY <1>4, <1>5, <1>10 DEF Tended, People
  <1>12. Tended(g)'
    BY <1>1, <1>2, <1>4, <1>6, <1>8, <1>9, <1>10, <1>11, EnteringKeepsTended DEF IInv
  <1>13. ASSUME NEW q \in Objects, q # g PROVE Untouched(q)
    BY <1>4, <1>5, <1>9, <1>13 DEF Untouched
  <1>14. AtTheirIds'
    BY <1>1, <1>4 DEF HInv, AtTheirIds, IInv, TypeOK
  <1>15. Clear(t, r)
    BY <1>6, StepKinds DEF Clear
  <1> QED
    BY <1>2, <1>6, <1>12, <1>13, <1>14, <1>15, OneGameStep

LEMMA CreateGameHost ==
    ASSUME IInv, HInv, NEW t \in Threads, NEW u \in Users, NEW g \in Objects, CreateGame(t, u, g)
    PROVE  HInv'
  <1> PICK id : id = GetId
    OBVIOUS
  <1>1. id \in Ids /\ games[id] = NoGame
    BY GetIdFacts DEF CreateGame, IInv, Known
  <1>2. CASE current[u] # NoGame
    BY <1>2, NobodyTurns DEF CreateGame
  <1>3. CASE current[u] = NoGame
    <2> DEFINE r == [pc |-> "first", user |-> u, game |-> g, player |-> NoPlayer, why |-> "leave"]
               new == [NewObject EXCEPT !.id = id]
    <2>1. /\ games' = [games EXCEPT ![id] = g]
          /\ object' = [object EXCEPT ![g] = new]
          /\ UNCHANGED current /\ StartTask(t, "first", u, g, "leave")
      BY <1>3 DEF CreateGame
    <2>2. Turns(t, r)
      BY <2>1 DEF StartTask, Turns, Tasks, Steps, Entering, Reasons
    <2>3. /\ ~Listed(g) /\ \A s \in Threads : thread[s].game # g
          /\ \A v \in Users : current[v] # g
      BY DEF CreateGame, Fresh, Referenced
    <2>4. thread[t].pc \notin Active
      BY StepKinds DEF CreateGame, Request, Busy
    <2>5. new.id = id /\ new.players = <<>> /\ new.spectators = {} /\ new.host = NoPlayer
      BY DEF NewObject
    <2>6. r.pc = "first" /\ r.game = g
      OBVIOUS
    <2> HIDE DEF r, new
    <2>7. object'[g] = new /\ \A q \in Objects : q # g => object'[q] = object[q]
      BY <2>1 DEF IInv, TypeOK
    <2>8. Listed(g)' /\ \A q \in Objects : q # g => (Listed(q)' <=> Listed(q))
      BY <1>1, <2>1, NullsAssumption DEF Listed, IInv, TypeOK
    <2>9. \A q \in Objects \ {g} : Untouched(q)
      BY <2>1, <2>7, <2>8 DEF Untouched
    <2>10. AtTheirIds'
      BY <1>1, <2>1, <2>3, <2>5, <2>7 DEF HInv, AtTheirIds, Listed, IInv, TypeOK
    <2>11. People(object'[g]) = {}
      BY <2>5, <2>7 DEF People, UsersOf
    <2>12. Fits(r, object'[g])
      BY <2>5, <2>6, <2>7 DEF Fits
    <2>13. Tended(g)'
      BY <2>1, <2>2, <2>3, <2>5, <2>6, <2>7, <2>8, <2>11, <2>12, AloneKeepsTended
         DEF AloneIn, Emptied, IInv
    <2>14. Clear(t, r)
      BY <2>3, <2>6 DEF Clear
    <2> QED
      BY <2>2, <2>4, <2>6, <2>9, <2>10, <2>13, <2>14, OneGameStep
  <1> QED
    BY <1>2, <1>3

-----------------------------------------------------------------------------
(* Leaving, and handing the game over.                                     *)

\* A request or a task that starts to remove somebody, or to hand the game over.
LEMMA DepartHost ==
    ASSUME IInv, HInv, Races \cap {"lateJoin", "departures"} = {}, NEW t \in Threads,
           thread[t].pc \notin Active, NEW g \in Objects, MayDepart(g), Listed(g),
           NEW r, Turns(t, r), r.pc \in Departing, r.game = g,
           r.pc = "find" \/ (r.pc = "hand" /\ r.player \in PlayersOf(object[g].players)),
           UNCHANGED <<games, object, current>>
    PROVE  HInv'
  <1>1. AloneIn(t, g)
    BY DepartsFirst
  <1>2. \A s \in Threads : ~InGame(s, Emptied \cup Replacing, g)
    BY <1>1, StepKinds DEF AloneIn, InGame
  <1>3. object[g].players # <<>> /\ object[g].host \in PlayersOf(object[g].players)
    BY <1>2, InOrder
  <1>4. Fits(r, object[g])
    BY DEF Fits
  <1>5. UNCHANGED <<games, object, current>>
    OBVIOUS
  <1>6. r.pc \in Active => r.game = g
    OBVIOUS
  <1>7. thread[t].pc \in Active => thread[t].game = g
    OBVIOUS
  <1>8. Listed(g) => object[g].players # <<>> \/ r.pc \in Emptied
    BY <1>3
  <1>9. object[g].players # <<>> =>
           object[g].host \in PlayersOf(object[g].players) \/ r.pc \in Replacing
    BY <1>3
  <1>10. r.pc \in Active => Listed(g) /\ Fits(r, object[g])
    BY <1>4
  <1> QED
    BY <1>1, <1>5, <1>6, <1>7, <1>8, <1>9, <1>10, AloneStep, Zenon

LEMMA LeaveGameHost ==
    ASSUME IInv, HInv, Races \cap {"lateJoin", "departures"} = {}, NEW t \in Threads,
           NEW u \in Users, LeaveGame(t, u)
    PROVE  HInv'
  <1> PICK g : g = current[u]
    OBVIOUS
  <1> DEFINE r == [pc |-> "find", user |-> u, game |-> g, player |-> NoPlayer, why |-> "leave"]
  <1>1. g \in Objects /\ Listed(g) /\ MayDepart(g)
    BY DEF LeaveGame, IInv, TypeOK
  <1>2. Turns(t, r)
    BY <1>1 DEF LeaveGame, StartTask, Turns, Tasks, Steps, Departing, Reasons
  <1>3. thread[t].pc \notin Active
    BY StepKinds DEF LeaveGame, Request, Busy
  <1>4. r.pc \in Departing /\ r.game = g /\ r.pc = "find"
    BY DEF Departing
  <1> HIDE DEF r
  <1> QED
    BY <1>1, <1>2, <1>3, <1>4, DepartHost DEF LeaveGame

LEMMA KickIdleHost ==
    ASSUME IInv, HInv, Races \cap {"lateJoin", "departures"} = {}, NEW t \in Threads,
           NEW u \in Users, NEW g \in Objects, KickIdle(t, u, g)
    PROVE  HInv'
  <1> DEFINE r == [pc |-> "find", user |-> u, game |-> g, player |-> NoPlayer, why |-> "kick"]
  <1>1. MayDepart(g) /\ u \in UsersIn(g)
    BY DEF KickIdle
  <1>2. Listed(g)
    BY <1>1 DEF HInv, Tended, People, UsersOf, UsersIn
  <1>3. Turns(t, r)
    BY DEF KickIdle, StartTask, Turns, Tasks, Steps, Departing, Reasons
  <1>4. thread[t].pc \notin Active
    BY StepKinds DEF KickIdle, Busy
  <1>5. r.pc \in Departing /\ r.game = g /\ r.pc = "find"
    BY DEF Departing
  <1> HIDE DEF r
  <1> QED
    BY <1>1, <1>2, <1>3, <1>4, <1>5, DepartHost DEF KickIdle

LEMMA ReadGameHost ==
    ASSUME IInv, HInv, Races \cap {"lateJoin", "departures"} = {}, NEW t \in Threads, ReadGame(t)
    PROVE  HInv'
  <1> PICK u : u = thread[t].user
    OBVIOUS
  <1> PICK g : g = current[u]
    OBVIOUS
  <1> DEFINE r == [thread[t] EXCEPT !.pc = "find", !.game = g]
  <1>1. /\ thread[t].pc = "reread" /\ UNCHANGED <<games, object, current>>
        /\ thread[t] \in Tasks /\ u \in Users /\ thread[t].pc \notin Active
    BY ThreadFacts, StepKinds DEF ReadGame, Busy
  <1>2. CASE Done(t)
    <2>1. PICK x : Turns(t, x) /\ x.pc \notin Active
      BY <1>2, DoneRecord
    <2> QED
      BY <1>1, <2>1, AsideStep
  <1>3. CASE g # NoGame /\ MayDepart(g) /\ thread' = [thread EXCEPT ![t].pc = "find", ![t].game = g]
    <2>1. g \in Objects
      BY <1>1, <1>3 DEF IInv, TypeOK
    <2>2. Listed(g)
      BY <1>1, <2>1 DEF HInv, Tended
    <2>3. r \in Tasks /\ r.pc = "find" /\ r.game = g
      BY <1>1, <2>1 DEF Tasks, Steps, Departing
    <2>4. thread' = [thread EXCEPT ![t] = r]
      BY <1>1, <1>3 DEF IInv, TypeOK, Tasks
    <2>5. "find" \in Departing
      BY DEF Departing
    <2> HIDE DEF r
    <2>6. Turns(t, r)
      BY <2>3, <2>4 DEF Turns
    <2>7. /\ MayDepart(g) /\ thread[t].pc \notin Active
          /\ UNCHANGED <<games, object, current>>
      BY <1>1, <1>3
    <2> QED
      BY <2>1, <2>2, <2>3, <2>5, <2>6, <2>7, DepartHost
  <1> QED
    BY <1>2, <1>3 DEF ReadGame

LEMMA DisconnectHost ==
    ASSUME IInv, HInv, NEW t \in Threads, NEW u \in Users, Disconnect(t, u) PROVE HInv'
  <1> DEFINE pc == IF current[u] = NoGame THEN "invalidate" ELSE "reread"
             r == [pc |-> pc, user |-> u, game |-> NoGame, player |-> NoPlayer, why |-> "quit"]
  <1>1. pc \in Closing
    BY DEF Closing
  <1>2. thread' = [thread EXCEPT ![t] = r] /\ UNCHANGED <<games, object, current>>
    BY DEF Disconnect, StartTask
  <1>3. r \in Tasks /\ r.pc = pc
    BY <1>1 DEF Tasks, Steps, Reasons
  <1>4. Turns(t, r)
    BY <1>2, <1>3 DEF Turns
  <1>5. pc \notin Active /\ thread[t].pc \notin Active
    BY StepKinds DEF Disconnect, Busy
  <1> HIDE DEF r, pc
  <1> QED
    BY <1>2, <1>3, <1>4, <1>5, AsideStep

LEMMA InvalidateHost ==
    ASSUME IInv, HInv, NEW t \in Threads, Invalidate(t) PROVE HInv'
  <1>1. thread[t].pc \notin Active /\ UNCHANGED <<games, object, current>>
    BY StepKinds DEF Invalidate
  <1>2. PICK r : Turns(t, r) /\ r.pc \notin Active
    BY DoneRecord DEF Invalidate
  <1> QED
    BY <1>1, <1>2, AsideStep

LEMMA RemoveSpectatorHost ==
    ASSUME IInv, HInv, NEW t \in Threads, RemoveSpectator(t) PROVE HInv'
  <1> PICK g : g = thread[t].game
    OBVIOUS
  <1> PICK u : u = thread[t].user
    OBVIOUS
  <1>1. /\ thread[t].pc = "unwatch" /\ UNCHANGED games /\ Busy(t)
        /\ object' = [object EXCEPT ![g].spectators = @ \ {u}]
        /\ current' = IF u \in object[g].spectators THEN LeftBy({u}, g) ELSE current
        /\ Goto(t, "invalidate") \/ Done(t)
    BY DEF RemoveSpectator, Busy
  <1>2. g \in Objects /\ u \in Users /\ thread[t].pc \notin Active
    BY <1>1, ThreadFacts, StepKinds
  <1>3. PICK r : Turns(t, r) /\ r.pc \notin Active
    BY <1>1, DoneRecord, GotoRecord, StepKinds DEF Steps, Closing
  <1>4. /\ object'[g].id = object[g].id
        /\ object'[g].players = object[g].players
        /\ object'[g].host = object[g].host
        /\ object'[g].spectators = object[g].spectators \ {u}
        /\ \A q \in Objects : q # g => object'[q] = object[q]
    BY <1>1, <1>2 DEF IInv, TypeOK, GameObjects
  <1>5. ASSUME NEW q \in Objects, NEW v \in Users, current'[v] = q
        PROVE  current[v] = q /\ v \notin object[q].spectators \ object'[q].spectators
    <2>1. CASE u \in object[g].spectators
      <3>1. current' = LeftBy({u}, g)
        BY <1>1, <2>1
      <3>2. /\ current'[v] \in {current[v], NoGame}
            /\ v = u => current'[v] # g
        BY <1>2, <3>1, NullsAssumption, LeftByFacts DEF IInv
      <3> QED
        BY <1>4, <1>5, <3>2, NullsAssumption
    <2>2. CASE u \notin object[g].spectators
      BY <1>1, <1>4, <1>5, <2>2
    <2> QED
      BY <2>1, <2>2
  <1>6. \A q \in Objects : /\ object'[q].id = object[q].id
                           /\ object'[q].players = object[q].players
                           /\ object'[q].host = object[q].host
                           /\ object'[q].spectators \subseteq object[q].spectators
    BY <1>4
  <1> QED
    BY <1>1, <1>2, <1>3, <1>5, <1>6, AsideStep

\* What is known while somebody leaves.
LEMMA DepartFacts ==
    ASSUME IInv, HInv, NEW t \in Threads, thread[t].pc \in Departing
    PROVE  LET g == thread[t].game
               o == object[g]
           IN  /\ g \in Objects /\ Listed(g) /\ AloneIn(t, g)
               /\ thread[t] \in Tasks /\ thread[t].user \in Users
               /\ o \in GameObjects
               /\ Fits(thread[t], o)
               /\ o.players # <<>> \/ thread[t].pc \in Emptied
               /\ o.players # <<>> =>
                     o.host \in PlayersOf(o.players) \/ thread[t].pc \in Replacing
               /\ \A u \in Users : current[u] = g => u \in People(o)
  <1> PICK g : g = thread[t].game
    OBVIOUS
  <1>1. /\ thread[t].pc \in Active /\ g \in Objects /\ thread[t] \in Tasks
        /\ thread[t].user \in Users
    BY StepKinds, ThreadFacts DEF Busy
  <1>2. Tended(g) /\ AloneIn(t, g)
    BY <1>1, DepartsAlone DEF HInv
  <1>3. InGame(t, Active, g)
    BY <1>1 DEF InGame
  <1>4. Listed(g) /\ Fits(thread[t], object[g])
    BY <1>2, <1>3 DEF Tended
  <1>5. object[g].players # <<>> \/ thread[t].pc \in Emptied
    BY <1>2, <1>4, StepKinds DEF Tended, AloneIn, InGame
  <1>6. object[g].players # <<>> =>
           object[g].host \in PlayersOf(object[g].players) \/ thread[t].pc \in Replacing
    BY <1>2, <1>4, StepKinds DEF Tended, AloneIn, InGame
  <1>7. object[g] \in GameObjects
    BY <1>1 DEF IInv, TypeOK
  <1>8. \A u \in Users : current[u] = g => u \in People(object[g])
    BY <1>2 DEF Tended
  <1> QED
    BY <1>1, <1>2, <1>4, <1>5, <1>6, <1>7, <1>8

\* A thread that goes on leaving its game, or has done with it, and touches nothing.
LEMMA StillDeparting ==
    ASSUME IInv, HInv, NEW t \in Threads, thread[t].pc \in Departing,
           NEW r, Turns(t, r), NEW g, g = thread[t].game,
           UNCHANGED <<games, object, current>>,
           object[g].players = <<>> => r.pc \in Emptied,
           object[g].players # <<>> =>
              object[g].host \in PlayersOf(object[g].players) \/ r.pc \in Replacing,
           r.pc \in Active => r.game = g /\ Fits(r, object[g])
    PROVE  HInv'
  <1>1. g \in Objects /\ Listed(g) /\ AloneIn(t, g)
    BY DepartFacts
  <1> QED
    BY <1>1, AloneStep

LEMMA PlayerForFacts ==
    ASSUME NEW g, NEW u, PlayerFor(g, u) # NoPlayer
    PROVE  PlayerFor(g, u) \in PlayersOf(object[g].players) /\ PlayerFor(g, u).user = u
  <1>1. u \in UsersIn(g) /\ PlayerFor(g, u) = CHOOSE p \in PlayersIn(g) : p.user = u
    BY DEF PlayerFor
  <1>2. \E p \in PlayersIn(g) : p.user = u
    BY <1>1 DEF UsersIn, PlayersIn
  <1>3. PlayerFor(g, u) \in PlayersIn(g) /\ PlayerFor(g, u).user = u
    BY <1>1, <1>2
  <1> QED
    BY <1>3 DEF PlayersIn, PlayersOf

LEMMA FindPlayerHost ==
    ASSUME IInv, HInv, NEW t \in Threads, FindPlayer(t) PROVE HInv'
  <1> PICK g : g = thread[t].game
    OBVIOUS
  <1> PICK p : p = PlayerFor(g, thread[t].user)
    OBVIOUS
  <1>1. /\ thread[t].pc = "find" /\ thread[t].pc \in Departing
        /\ thread[t].pc \notin Emptied \cup Replacing
        /\ UNCHANGED <<games, object, current>>
    BY DEF FindPlayer, Departing, Emptied, Replacing
  <1>2. /\ g \in Objects /\ object[g].players # <<>>
        /\ object[g].host \in PlayersOf(object[g].players)
    BY <1>1, DepartFacts
  <1>3. CASE AfterRemoval(t)
    <2>1. PICK r : Turns(t, r) /\ r.pc \notin Active
      BY <1>3, AfterRemovalRecord
    <2> QED
      BY <1>1, <1>2, <2>1, StillDeparting
  <1>4. CASE p # NoPlayer /\ GotoWith(t, "drop", p)
    <2>1. p \in Players \cup {NoPlayer}
      BY <1>2, PlayerForType DEF IInv
    <2>2. p.user = thread[t].user
      BY <1>4, PlayerForFacts
    <2>3. PICK r : /\ Turns(t, r) /\ r.pc = "drop" /\ r.user = thread[t].user
                   /\ r.game = g /\ r.player = p
      BY <1>4, <2>1, GotoWithRecord DEF Steps, Departing
    <2>4. Fits(r, object[g])
      BY <2>2, <2>3 DEF Fits
    <2> QED
      BY <1>1, <1>2, <2>3, <2>4, StillDeparting
  <1> QED
    BY <1>3, <1>4 DEF FindPlayer

LEMMA HostTestHost ==
    ASSUME IInv, HInv, NEW t \in Threads, HostTest(t) PROVE HInv'
  <1> PICK g : g = thread[t].game
    OBVIOUS
  <1> DEFINE o == object[g]
  <1>1. thread[t].pc = "hostTest" /\ thread[t].pc \in Departing /\ UNCHANGED <<games, object, current>>
    BY DEF HostTest, Departing
  <1>2. /\ g \in Objects /\ thread[t] \in Tasks
        /\ o.players = <<>> \/ o.host \in {thread[t].player} \cup PlayersOf(o.players)
    BY <1>1, DepartFacts DEF Fits
  <1> HIDE DEF o
  <1>3. CASE o.host # thread[t].player /\ GotoWith(t, "count", NoPlayer)
    <2>1. PICK r : Turns(t, r) /\ r.pc = "count" /\ r.game = g
      BY <1>3, GotoWithRecord DEF Steps, Departing
    <2>2. Fits(r, o) /\ r.pc \in Emptied
      BY <2>1 DEF Fits, Emptied
    <2>3. o.players # <<>> => o.host \in PlayersOf(o.players)
      BY <1>2, <1>3
    <2> QED
      BY <1>1, <2>1, <2>2, <2>3, StillDeparting DEF o
  <1>4. CASE o.players = <<>> /\ GotoWith(t, "hostSet", NoPlayer)
    <2>1. PICK r : Turns(t, r) /\ r.pc = "hostSet" /\ r.game = g
      BY <1>4, GotoWithRecord DEF Steps, Departing
    <2>2. Fits(r, o) /\ r.pc \in Emptied
      BY <1>4, <2>1 DEF Fits, Emptied
    <2> QED
      BY <1>1, <1>4, <2>1, <2>2, StillDeparting DEF o
  <1>5. CASE o.players # <<>> /\ Goto(t, "hostPick")
    <2>1. PICK r : Turns(t, r) /\ r.pc = "hostPick" /\ r.game = g
      BY <1>5, GotoRecord DEF Steps, Departing
    <2>2. Fits(r, o) /\ r.pc \in Replacing
      BY <1>5, <2>1 DEF Fits, Replacing
    <2> QED
      BY <1>1, <1>5, <2>1, <2>2, StillDeparting DEF o
  <1> QED
    BY <1>3, <1>4, <1>5 DEF HostTest, WasHost, o

LEMMA HostPickHost ==
    ASSUME IInv, HInv, NEW t \in Threads, HostPick(t) PROVE HInv'
  <1> PICK g : g = thread[t].game
    OBVIOUS
  <1> PICK p : p = Head(object[g].players)
    OBVIOUS
  <1>1. thread[t].pc = "hostPick" /\ thread[t].pc \in Departing /\ UNCHANGED <<games, object, current>>
    BY DEF HostPick, Departing
  <1>2. /\ g \in Objects /\ object[g] \in GameObjects
        /\ object[g].players # <<>>
    BY <1>1, DepartFacts DEF Fits
  <1>3. p \in Players /\ p \in PlayersOf(object[g].players)
    <2>1. object[g].players \in Seq(Players) /\ object[g].players # <<>>
      BY <1>2 DEF GameObjects
    <2>2. 1 \in 1..Len(object[g].players) /\ p = object[g].players[1]
      BY <2>1
    <2> QED
      BY <2>1, <2>2 DEF PlayersOf
  <1>4. PICK r : Turns(t, r) /\ r.pc = "hostSet" /\ r.game = g /\ r.player = p
    BY <1>2, <1>3, GotoWithRecord DEF HostPick, Steps, Departing
  <1>5. Fits(r, object[g]) /\ r.pc \in Replacing
    BY <1>3, <1>4 DEF Fits, Replacing
  <1> QED
    BY <1>1, <1>2, <1>4, <1>5, StillDeparting

LEMMA CountPlayersHost ==
    ASSUME IInv, HInv, NEW t \in Threads, CountPlayers(t) PROVE HInv'
  <1> PICK g : g = thread[t].game
    OBVIOUS
  <1>1. /\ thread[t].pc = "count" /\ thread[t].pc \in Departing \ Replacing
        /\ UNCHANGED <<games, object, current>>
    BY DEF CountPlayers, Departing, Replacing
  <1>2. /\ g \in Objects
        /\ object[g].players # <<>> => object[g].host \in PlayersOf(object[g].players)
    BY <1>1, DepartFacts
  <1>3. CASE object[g].players = <<>> /\ Goto(t, "destroy")
    <2>1. PICK r : Turns(t, r) /\ r.pc = "destroy" /\ r.game = g
      BY <1>3, GotoRecord DEF Steps, Departing
    <2>2. Fits(r, object[g]) /\ r.pc \in Emptied
      BY <1>3, <2>1 DEF Fits, Emptied
    <2> QED
      BY <1>1, <1>3, <2>1, <2>2, StillDeparting
  <1>4. CASE object[g].players # <<>> /\ AfterRemoval(t)
    <2>1. PICK r : Turns(t, r) /\ r.pc \notin Active
      BY <1>4, AfterRemovalRecord
    <2> QED
      BY <1>1, <1>2, <1>4, <2>1, StillDeparting
  <1> QED
    BY <1>3, <1>4 DEF CountPlayers, Deserted

LEMMA HandOverHost ==
    ASSUME IInv, HInv, Races \cap {"lateJoin", "departures"} = {}, NEW t \in Threads,
           NEW u \in Users, NEW v \in Users, HandOver(t, u, v)
    PROVE  HInv'
  <1> PICK g : g = current[u]
    OBVIOUS
  <1> PICK p : p = PlayerFor(g, v)
    OBVIOUS
  <1> DEFINE r == [pc |-> "hand", user |-> u, game |-> g, player |-> p, why |-> "leave"]
  <1>1. /\ g \in Objects /\ Listed(g) /\ MayDepart(g) /\ p # NoPlayer
        /\ thread' = [thread EXCEPT ![t] = r] /\ UNCHANGED <<games, object, current>>
    BY DEF HandOver, IInv, TypeOK
  <1>2. p \in Players \cup {NoPlayer} /\ p \in PlayersOf(object[g].players)
    BY <1>1, PlayerForType, PlayerForFacts DEF IInv
  <1>3. r \in Tasks
    BY <1>1, <1>2 DEF Tasks, Steps, Departing, Reasons
  <1>4. r.pc \in Departing /\ r.game = g /\ r.pc = "hand" /\ r.player = p
    BY DEF Departing
  <1>5. thread[t].pc \notin Active
    BY StepKinds DEF HandOver, Request, Busy
  <1> HIDE DEF r
  <1>6. Turns(t, r)
    BY <1>1, <1>3 DEF Turns
  <1> QED
    BY <1>1, <1>2, <1>4, <1>5, <1>6, DepartHost

\* A thread that is alone with its game and changes it.
LEMMA ChangeStep ==
    ASSUME IInv, HInv, NEW t \in Threads, thread[t].pc \in Departing,
           NEW r, Turns(t, r), NEW g, g = thread[t].game,
           r.pc \in Active => r.game = g /\ Listed(g)' /\ Fits(r, object'[g]),
           \A q \in Objects \ {g} : Untouched(q),
           AtTheirIds',
           People(object'[g]) # {} => Listed(g)',
           \A u \in Users : current'[u] = g => u \in People(object'[g]),
           Listed(g)' => object'[g].players # <<>> \/ r.pc \in Emptied,
           object'[g].players # <<>> =>
              object'[g].host \in PlayersOf(object'[g].players) \/ r.pc \in Replacing
    PROVE  HInv'
  <1>1. g \in Objects /\ AloneIn(t, g)
    BY DepartFacts
  <1>2. Tended(g)'
    BY <1>1, AloneKeepsTended DEF IInv
  <1>3. Clear(t, r)
    BY <1>1, StepKinds DEF Clear, AloneIn
  <1> QED
    BY <1>1, <1>2, <1>3, OneGameStep

\* The two assignments of the host.
LEMMA SetHostHost ==
    ASSUME IInv, HInv, NEW t \in Threads, HostSet(t) \/ ChangeHost(t) PROVE HInv'
  <1> PICK g : g = thread[t].game
    OBVIOUS
  <1> PICK p : p = thread[t].player
    OBVIOUS
  <1>1. /\ thread[t].pc \in {"hostSet", "hand"} /\ thread[t].pc \in Departing
        /\ object' = [object EXCEPT ![g].host = p]
        /\ UNCHANGED <<games, current>>
    BY DEF HostSet, ChangeHost, Departing
  <1>2. /\ g \in Objects /\ Listed(g) /\ thread[t] \in Tasks
        /\ object[g].players = <<>> \/ p \in PlayersOf(object[g].players)
        /\ \A u \in Users : current[u] = g => u \in People(object[g])
        /\ object[g].players # <<>> \/ thread[t].pc \in Emptied
    BY <1>1, DepartFacts DEF Fits
  <1>3. /\ object'[g].id = object[g].id
        /\ object'[g].players = object[g].players
        /\ object'[g].spectators = object[g].spectators
        /\ object'[g].host = p
        /\ \A q \in Objects : q # g => object'[q] = object[q]
    BY <1>1, <1>2 DEF IInv, TypeOK, GameObjects
  <1>4. \A q \in Objects : Listed(q)' <=> Listed(q)
    BY <1>1 DEF Listed
  <1>5. \A q \in Objects \ {g} : Untouched(q)
    BY <1>1, <1>3, <1>4 DEF Untouched
  <1>6. AtTheirIds'
    BY <1>1, <1>3 DEF HInv, AtTheirIds, IInv, TypeOK
  <1>7. /\ Listed(g)'
        /\ \A u \in Users : current'[u] = g => u \in People(object'[g])
        /\ object'[g].players # <<>> => object'[g].host \in PlayersOf(object'[g].players)
    BY <1>1, <1>2, <1>3, <1>4 DEF People
  <1>8. CASE HostSet(t)
    <2>1. PICK r : Turns(t, r) /\ r.pc = "count" /\ r.game = g
      BY <1>8, GotoWithRecord DEF HostSet, Steps, Departing
    <2>2. Fits(r, object'[g]) /\ r.pc \in Emptied
      BY <2>1 DEF Fits, Emptied
    <2> QED
      BY <1>1, <1>5, <1>6, <1>7, <2>1, <2>2, ChangeStep
  <1>9. CASE ChangeHost(t)
    <2>1. PICK r : Turns(t, r) /\ r.pc \notin Active
      BY <1>9, DoneRecord DEF ChangeHost
    <2>2. object'[g].players # <<>>
      BY <1>2, <1>3, <1>9 DEF ChangeHost, Emptied
    <2> QED
      BY <1>1, <1>5, <1>6, <1>7, <2>1, <2>2, ChangeStep
  <1> QED
    BY <1>8, <1>9

\* Nobody but the player that is removed goes missing from the list.
LEMMA RemovedKeeps ==
    ASSUME NEW s \in Seq(Players), NEW p
    PROVE  /\ UsersOf(s) \subseteq UsersOf(Removed(s, p)) \cup {p.user}
           /\ PlayersOf(s) \subseteq PlayersOf(Removed(s, p)) \cup {p}
  <1> DEFINE places == {i \in 1..Len(s) : s[i] = p}
             k == CHOOSE i \in places : TRUE
             q == Removed(s, p)
             n == Len(s)
  <1>1. n \in Nat
    OBVIOUS
  <1>2. CASE places = {}
    BY <1>2 DEF Removed
  <1>3. CASE places # {}
    <2>1. k \in 1..n /\ s[k] = p
      BY <1>3
    <2>2. q = [i \in 1..(n - 1) |-> IF i < k THEN s[i] ELSE s[i + 1]]
      BY <1>3 DEF Removed
    <2> HIDE DEF q, k
    <2>3. q \in Seq(Players) /\ Len(q) = n - 1
      <3>1. n - 1 \in Nat
        BY <1>1, <2>1
      <3>2. \A i \in 1..(n - 1) : q[i] \in Players
        BY <1>1, <2>1, <2>2
      <3> QED
        BY <2>2, <3>1, <3>2
    <2>4. ASSUME NEW i \in 1..n, i # k PROVE \E j \in 1..Len(q) : q[j] = s[i]
      <3>1. CASE i < k
        BY <1>1, <2>1, <2>2, <2>3, <3>1
      <3>2. CASE i > k
        <4>1. i - 1 \in 1..Len(q) /\ ~(i - 1 < k) /\ (i - 1) + 1 = i
          BY <1>1, <2>1, <2>3, <3>2
        <4>2. q[i - 1] = s[i]
          BY <2>2, <2>3, <4>1
        <4> QED
          BY <4>1, <4>2
      <3> QED
        BY <1>1, <2>1, <2>4, <3>1, <3>2
    <2>5. UsersOf(s) \subseteq UsersOf(q) \cup {p.user}
      BY <2>1, <2>4 DEF UsersOf
    <2>6. PlayersOf(s) \subseteq PlayersOf(q) \cup {p}
      BY <2>1, <2>4 DEF PlayersOf
    <2> QED
      BY <2>5, <2>6 DEF q
  <1> QED
    BY <1>2, <1>3

LEMMA DropPlayerHost ==
    ASSUME IInv, HInv, NEW t \in Threads, DropPlayer(t) PROVE HInv'
  <1> PICK g : g = thread[t].game
    OBVIOUS
  <1> PICK u : u = thread[t].user
    OBVIOUS
  <1> PICK p : p = thread[t].player
    OBVIOUS
  <1> PICK q : q = Removed(object[g].players, p)
    OBVIOUS
  <1>1. /\ thread[t].pc = "drop" /\ thread[t].pc \in Departing
        /\ thread[t].pc \notin Emptied \cup Replacing
        /\ object' = [object EXCEPT ![g].players = q]
        /\ current' = LeftBy({u}, g) /\ UNCHANGED games /\ Goto(t, "hostTest")
    BY DEF DropPlayer, Departing, Emptied, Replacing
  <1>2. /\ g \in Objects /\ Listed(g) /\ object[g] \in GameObjects /\ u \in Users
        /\ p.user = u
        /\ object[g].host \in PlayersOf(object[g].players)
        /\ \A v \in Users : current[v] = g => v \in People(object[g])
    BY <1>1, DepartFacts DEF Fits
  <1>3. /\ UsersOf(object[g].players) \subseteq UsersOf(q) \cup {u}
        /\ PlayersOf(object[g].players) \subseteq PlayersOf(q) \cup {p}
    <2>1. object[g].players \in Seq(Players)
      BY <1>2 DEF GameObjects
    <2> QED
      BY <1>2, <2>1, RemovedKeeps
  <1>4. /\ object'[g].id = object[g].id
        /\ object'[g].players = q
        /\ object'[g].spectators = object[g].spectators
        /\ object'[g].host = object[g].host
        /\ \A x \in Objects : x # g => object'[x] = object[x]
    BY <1>1, <1>2 DEF IInv, TypeOK, GameObjects
  <1>5. /\ \A v \in Users : current'[v] \in {current[v], NoGame}
        /\ current'[u] # g
    <2>1. current' = LeftBy({u}, g) /\ TypeOK /\ g # NoGame /\ u \in {u} \cap Users
      BY <1>1, <1>2, NullsAssumption DEF IInv
    <2>2. /\ \A v \in Users : current'[v] \in {current[v], NoGame}
          /\ \A v \in {u} \cap Users : current'[v] # g \/ g = NoGame
      BY <2>1, LeftByFacts
    <2> QED
      BY <2>1, <2>2
  <1>6. \A x \in Objects : Listed(x)' <=> Listed(x)
    BY <1>1 DEF Listed
  <1>7. \A x \in Objects \ {g} : Untouched(x)
    BY <1>4, <1>5, <1>6, NullsAssumption DEF Untouched
  <1>8. AtTheirIds'
    BY <1>1, <1>4 DEF HInv, AtTheirIds, IInv, TypeOK
  <1>9. \A v \in Users : current'[v] = g => v \in People(object'[g])
    BY <1>2, <1>3, <1>4, <1>5, NullsAssumption DEF People
  <1>10. PICK r : Turns(t, r) /\ r.pc = "hostTest" /\ r.game = g /\ r.player = p
    BY <1>1, GotoRecord DEF Steps, Departing
  <1>11. Fits(r, object'[g]) /\ r.pc \in Emptied /\ r.pc \in Replacing
    BY <1>2, <1>3, <1>4, <1>10 DEF Fits, Emptied, Replacing
  <1> QED
    BY <1>1, <1>2, <1>6, <1>7, <1>8, <1>9, <1>10, <1>11, ChangeStep

\* The id of the thread's game leads to that game, which has no players left.
LEMMA DestroyFinds ==
    ASSUME IInv, HInv, NEW t \in Threads, DestroyGame(t)
    PROVE  LET g == thread[t].game
           IN  /\ g \in Objects /\ object[g].id \in Ids /\ games[object[g].id] = g
               /\ object[g].players = <<>>
  <1> PICK g : g = thread[t].game
    OBVIOUS
  <1>1. thread[t].pc = "destroy" /\ thread[t].pc \in Departing
    BY DEF DestroyGame, Departing
  <1>2. g \in Objects /\ Listed(g) /\ object[g].players = <<>>
    BY <1>1, DepartFacts DEF Fits
  <1>3. PICK id \in Ids : games[id] = g
    BY <1>2 DEF Listed
  <1>4. object[g].id = id
    BY <1>2, <1>3, NullsAssumption DEF HInv, AtTheirIds
  <1> QED
    BY <1>2, <1>3, <1>4

LEMMA DestroyGameHost ==
    ASSUME IInv, HInv, NEW t \in Threads, DestroyGame(t) PROVE HInv'
  <1> PICK g : g = thread[t].game
    OBVIOUS
  <1> PICK id : id = object[g].id
    OBVIOUS
  <1>1. thread[t].pc \in Departing /\ AfterRemoval(t)
    BY DEF DestroyGame, Departing
  <1>2. g \in Objects /\ id \in Ids /\ games[id] = g /\ g # NoGame
    BY DestroyFinds, NullsAssumption
  <1>3. /\ games' = [games EXCEPT ![id] = NoGame]
        /\ object'[g].players = <<>>
        /\ object'[g].spectators = {}
        /\ \A q \in Objects : q # g => object'[q] = object[q]
        /\ current' = LeftBy(Evicted(g), g)
    BY <1>2, DestroyGameEffect
  <1>4. \A v \in Users : current[v] = g => v \in Evicted(g)
    BY <1>1, DepartFacts DEF Evicted, UsersIn, People, UsersOf
  <1>5. \A v \in Users : current'[v] \in {current[v], NoGame} /\ current'[v] # g
    BY <1>2, <1>3, <1>4, LeftByFacts DEF IInv
  <1>6. \A other \in Ids : other # id => games[other] # g
    BY <1>2 DEF HInv, AtTheirIds
  <1>7. /\ games'[id] = NoGame
        /\ \A other \in Ids : other # id => games'[other] = games[other]
    BY <1>2, <1>3 DEF IInv, TypeOK
  <1>8. ~Listed(g)' /\ \A q \in Objects \ {g} : Listed(q)' <=> Listed(q)
    BY <1>2, <1>6, <1>7, NullsAssumption DEF Listed
  <1>9. \A q \in Objects \ {g} : Untouched(q)
    BY <1>3, <1>5, <1>8, NullsAssumption DEF Untouched
  <1>10. AtTheirIds'
    BY <1>3, <1>6, <1>7 DEF HInv, AtTheirIds, IInv, TypeOK
  <1>11. People(object'[g]) = {}
    BY <1>3 DEF People, UsersOf
  <1>12. PICK r : Turns(t, r) /\ r.pc \notin Active
    BY <1>1, AfterRemovalRecord
  <1> QED
    BY <1>1, <1>3, <1>5, <1>8, <1>9, <1>10, <1>11, <1>12, ChangeStep

-----------------------------------------------------------------------------

LEMMA InitHInv == Init => HInv
  <1> SUFFICES ASSUME Init PROVE HInv
    OBVIOUS
  <1>1. Calm /\ AtTheirIds
    BY DEF Init, Calm, AtTheirIds, Idle, Departing
  <1>2. \A t \in Threads : thread[t].pc = "idle"
    BY DEF Init, Idle
  <1>3. \A g \in Objects : People(object[g]) = {} /\ object[g].players = <<>> /\ ~Listed(g)
    BY NullsAssumption DEF Init, People, NewObject, UsersOf, Listed
  <1>4. \A u \in Users : current[u] = NoGame
    BY DEF Init
  <1>5. \A g \in Objects : Tended(g)
    BY <1>2, <1>3, <1>4, StepKinds, NullsAssumption DEF Tended, InGame
  <1> QED
    BY <1>1, <1>5 DEF HInv

LEMMA NextHInv ==
    ASSUME Races \cap {"lateJoin", "departures"} = {}
    PROVE  IInv /\ HInv /\ [Next]_vars => HInv'
  <1> SUFFICES ASSUME IInv, HInv, [Next]_vars PROVE HInv'
    OBVIOUS
  <1>1. CASE UNCHANGED vars
    BY <1>1, NobodyTurns DEF vars
  <1>2. ASSUME NEW t \in Threads, Enter(t) PROVE HInv'
    BY <1>2, LookUpHost, JoinGameHost, SeatPlayerHost, SeatSpectatorHost, CreateGameHost
       DEF Enter
  <1>3. ASSUME NEW t \in Threads, Depart(t) PROVE HInv'
    BY <1>3, LeaveGameHost, KickIdleHost, DisconnectHost, ReadGameHost, FindPlayerHost,
       DropPlayerHost, HostTestHost, HostPickHost, SetHostHost, CountPlayersHost,
       DestroyGameHost, RemoveSpectatorHost, InvalidateHost DEF Depart
  <1>4. ASSUME NEW t \in Threads, Host(t) PROVE HInv'
    BY <1>4, HandOverHost, SetHostHost DEF Host
  <1> QED
    BY <1>1, <1>2, <1>3, <1>4 DEF Next

LEMMA HInvHolds ==
    ASSUME Races \cap {"lateJoin", "departures"} = {} PROVE Spec => []HInv
  <1>1. IInv /\ HInv /\ [Next]_vars => HInv'
    BY NextHInv
  <1> QED
    BY InitHInv, IInvHolds, <1>1, PTL DEF Spec

\* In a quiet state the game has nobody who is still to bring it into order.
LEMMA QuietInOrder ==
    ASSUME HInv, Quiet, NEW g \in Objects
    PROVE  /\ Listed(g) <=> object[g].players # <<>>
           /\ object[g].spectators # {} => Listed(g)
           /\ object[g].players # <<>> => object[g].host \in PlayersOf(object[g].players)
  <1>1. \A t \in Threads : thread[t].pc = "idle"
    BY DEF Quiet, Busy
  <1>2. \A t \in Threads : ~InGame(t, Emptied \cup Replacing, g)
    BY <1>1 DEF InGame, Emptied, Replacing
  <1>3. Tended(g)
    BY DEF HInv
  <1>4. Listed(g) => object[g].players # <<>> /\ object[g].host \in PlayersOf(object[g].players)
    BY <1>2, InOrder
  <1>5. object[g].spectators # {} => Listed(g)
    BY <1>3 DEF Tended, People
  <1>6. object[g].players # <<>> => Listed(g)
    <2> SUFFICES ASSUME object[g].host \notin PlayersOf(object[g].players), object[g].players # <<>>
                 PROVE  FALSE
      <3>1. object[g].host \in PlayersOf(object[g].players) => UsersOf(object[g].players) # {}
        BY DEF PlayersOf, UsersOf
      <3> QED
        BY <1>3, <3>1 DEF Tended, People
    <2> QED
      BY <1>2, <1>3 DEF Tended, InGame
  <1> QED
    BY <1>4, <1>5, <1>6

\* When all is quiet the games in the registry are those with players, and nobody
\* watches another: if no game is entered or left while somebody leaves it, the last
\* player of a game, and nobody else, takes it away (handlePlayerCountAfterRemoval).
THEOREM PlayedIsListed ==
    Races \cap {"lateJoin", "departures"} = {} => (Spec => []ListedIfPlayed)
  <1> SUFFICES ASSUME Races \cap {"lateJoin", "departures"} = {}
               PROVE  Spec => []ListedIfPlayed
    OBVIOUS
  <1>1. HInv => ListedIfPlayed
    BY QuietInOrder DEF ListedIfPlayed
  <1> QED
    BY <1>1, HInvHolds, PTL

\* ... its host is one of its players: removePlayer replaces a host that leaves,
\* and changeHost puts in one that is there.
THEOREM HostStays ==
    Races \cap {"lateJoin", "departures"} = {} => (Spec => []HostIsPlayer)
  <1> SUFFICES ASSUME Races \cap {"lateJoin", "departures"} = {}
               PROVE  Spec => []HostIsPlayer
    OBVIOUS
  <1>1. HInv => HostIsPlayer
    BY QuietInOrder DEF HostIsPlayer, PlayersIn, PlayersOf
  <1> QED
    BY <1>1, HInvHolds, PTL

\* ... and destroyGame, which looks the game up by its id, finds the game whose last
\* player has left, not one that people play.
THEOREM NoneDestroyedInPlay ==
    Races \cap {"lateJoin", "departures"} = {} => (Spec => DestroyedEmpty)
  <1> SUFFICES ASSUME Races \cap {"lateJoin", "departures"} = {}
               PROVE  Spec => DestroyedEmpty
    OBVIOUS
  <1> DEFINE Emptily == \A id \in Ids : games[id] # NoGame /\ games'[id] = NoGame
                                          => object[games[id]].players = <<>>
  <1>1. IInv /\ HInv /\ [Next]_vars => [Emptily]_vars
    <2> SUFFICES ASSUME IInv, HInv, Next PROVE Emptily
      BY DEF vars
    <2>1. CASE games' = games
      BY <2>1
    <2>2. ASSUME NEW t \in Threads, NEW u \in Users, NEW g \in Objects, CreateGame(t, u, g)
          PROVE  Emptily
      <3>1. games' = games \/ games' = [games EXCEPT ![GetId] = g]
        BY <2>2 DEF CreateGame
      <3> QED
        BY <3>1, NullsAssumption DEF IInv, TypeOK
    <2>3. ASSUME NEW t \in Threads, DestroyGame(t) PROVE Emptily
      <3>1. /\ games[object[thread[t].game].id] = thread[t].game
            /\ thread[t].game \in Objects /\ object[thread[t].game].players = <<>>
        BY <2>3, DestroyFinds
      <3>2. games' = [games EXCEPT ![object[thread[t].game].id] = NoGame]
        BY <2>3, <3>1, NullsAssumption, DestroyGameEffect
      <3> QED
        BY <3>1, <3>2 DEF IInv, TypeOK
    <2>4. CASE \E t \in Threads : Enter(t)
      BY <2>1, <2>2, <2>4 DEF Enter, LookUp, JoinGame, SeatPlayer, SpectateGame, SeatSpectator
    <2>5. CASE \E t \in Threads : Depart(t) \/ Host(t)
      BY <2>1, <2>3, <2>5 DEF Depart, LeaveGame, KickIdle, Disconnect, ReadGame, FindPlayer,
         DropPlayer, HostTest, HostPick, HostSet, CountPlayers, RemoveSpectator, Invalidate,
         Host, HandOver, ChangeHost
    <2> QED
      BY <2>4, <2>5 DEF Next
  <1> QED
    BY <1>1, IInvHolds, HInvHolds, PTL DEF Spec, DestroyedEmpty
=============================================================================
