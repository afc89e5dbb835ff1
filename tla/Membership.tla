----------------------------- MODULE Membership -----------------------------
(***************************************************************************)
(* Who is in which game: data/GameManager.java, the currentGame and valid  *)
(* fields of data/User.java, and the lists and the host of data/Game.java. *)
(*                                                                         *)
(* No lock is held over a whole request, so the steps of several threads   *)
(* interleave here: a step is what a thread does between two points at     *)
(* which another may come in (one critical section, or one access to an    *)
(* unlocked field).  Three monitors matter: that of GameManager.games and, *)
(* of each game, those of its lists of players and of spectators.          *)
(*                                                                         *)
(* A user reconnects as a new User object, so an invalid user stays so.    *)
(* The rounds of a game (its state, its cards) are in the module Game.     *)
(***************************************************************************)
EXTENDS Integers, Sequences, FiniteSets

CONSTANTS
    Users,           \* User objects
    Objects,         \* Game objects that exist at the same time
    NoUser, NoGame, NoPlayer,  \* Java's null, for each
    MaxGames,        \* GameManager's maximum number of games
    PlayerLimit,     \* options.playerLimit
    SpectatorLimit,  \* options.spectatorLimit
    Serials,         \* tell the Player objects of one user apart
    Threads,         \* request threads, and timer threads that remove users
    Races            \* which of the races below may happen

(***************************************************************************)
(* Races that break promises of the source.  A run names those it admits:  *)
(*   sameUser   two threads act for one user at once                       *)
(*   lateJoin   a game is joined while somebody leaves it                  *)
(*   departures two threads change host or leave in one game at once       *)
(***************************************************************************)
AllRaces == {"sameUser", "lateJoin", "departures"}

ASSUME NullsAssumption == NoUser \notin Users /\ NoGame \notin Objects
ASSUME BoundsAssumption ==
    /\ MaxGames \in Nat /\ MaxGames >= 1
    /\ PlayerLimit \in Nat /\ SpectatorLimit \in Nat
    /\ Serials \subseteq Nat
ASSUME RacesAssumption == Races \subseteq AllRaces

Ids == 0..(MaxGames - 1)
Players == [user : Users, serial : Serials]
MinPlayers == 3

ASSUME NoPlayerAssumption == NoPlayer \notin Players

VARIABLES
    games,      \* GameManager.games: id -> game
    nextId,     \* GameManager.nextId
    object,     \* the Game objects
    current,    \* User.currentGame
    valid,      \* User.valid
    thread      \* what each thread is doing

vars == <<games, nextId, object, current, valid, thread>>

-----------------------------------------------------------------------------

NewObject == [id |-> 0, players |-> <<>>, spectators |-> {}, host |-> NoPlayer]

Idle == [pc |-> "idle", user |-> NoUser, game |-> NoGame,
         player |-> NoPlayer, why |-> "leave"]

\* The steps of addPlayer, addSpectator and createGameWithPlayer
Entering == {"join", "seat", "spectate", "watch", "first"}
\* Those of removePlayer and changeHost
Departing == {"find", "drop", "hostTest", "hostPick", "hostSet", "count", "destroy", "hand"}
\* Those before and after removePlayer
Closing == {"reread", "unwatch", "invalidate"}

\* Why a player is removed: LeaveGameHandler, skipIdlePlayers, noLongerValid
Reasons == {"leave", "kick", "quit"}

Busy(t) == thread[t].pc # "idle"
Quiet == \A t \in Threads : ~Busy(t)

Goto(t, pc) == thread' = [thread EXCEPT ![t].pc = pc]
GotoWith(t, pc, p) == thread' = [thread EXCEPT ![t].pc = pc, ![t].player = p]
Done(t) == thread' = [thread EXCEPT ![t] = Idle]
StartTask(t, pc, u, g, why) ==
    thread' = [thread EXCEPT ![t] =
                  [pc |-> pc, user |-> u, game |-> g, player |-> NoPlayer, why |-> why]]

UsersIn(g) == {object[g].players[i].user : i \in 1..Len(object[g].players)}
PlayersIn(g) == {object[g].players[i] : i \in 1..Len(object[g].players)}

\* getPlayerForUser
PlayerFor(g, u) ==
    IF u \in UsersIn(g) THEN CHOOSE p \in PlayersIn(g) : p.user = u ELSE NoPlayer

Known == {id \in Ids : games[id] # NoGame}
Listed(g) == \E id \in Ids : games[id] = g

\* Monitors: createGameWithPlayer holds that of games, and the second step of
\* a join that of the list it adds to.
GamesFree == \A t \in Threads : thread[t].pc # "first"
PlayersFree(g) == \A t \in Threads : ~(thread[t].pc = "seat" /\ thread[t].game = g)

\* mutant of SpectatorsFree: addSpectator without its lock
SpectatorsFreeAlways(g) == TRUE

SpectatorsFree(g) == \A t \in Threads : ~(thread[t].pc = "watch" /\ thread[t].game = g)

\* An object that nothing refers to any more is collected, and new ones made.
Referenced(g) ==
    \/ Listed(g)
    \/ \E u \in Users : current[u] = g
    \/ object[g].players # <<>> \/ object[g].spectators # {}
    \/ \E t \in Threads : thread[t].game = g
Fresh == {g \in Objects : ~Referenced(g)}

InUse(p) ==
    \/ \E g \in Objects : p \in PlayersIn(g) \/ object[g].host = p
    \/ \E t \in Threads : thread[t].player = p
FreshSerials(u) == {s \in Serials : ~InUse([user |-> u, serial |-> s])}

\* new Player(user)
NewPlayer(u) ==
    [user |-> u, serial |-> CHOOSE s \in FreshSerials(u) : \A r \in FreshSerials(u) : s <= r]

-----------------------------------------------------------------------------
(* Which orders of requests a run admits.                                  *)

Alone(u) == "sameUser" \in Races \/ \A t \in Threads : Busy(t) => thread[t].user # u

InGame(t, steps, g) == thread[t].pc \in steps /\ thread[t].game = g

MayEnter(g) == "lateJoin" \in Races \/ \A t \in Threads : ~InGame(t, Departing, g)

MayDepart(g) ==
    /\ "lateJoin" \in Races \/ \A t \in Threads : ~InGame(t, Entering, g)
    /\ "departures" \in Races \/ \A t \in Threads : ~InGame(t, Departing, g)

\* CahServlet.doPost: a request is dispatched for a valid user only.
Request(t, u) == ~Busy(t) /\ valid[u] /\ Alone(u)

-----------------------------------------------------------------------------
(* GameManager: ids.                                                       *)

\* mutant of Candidate: the loop starts at 1
CandidateFromOne(used, skip) ==
    LET open == Ids \ (used \cup {skip, 0})
    IN  IF Cardinality(used) >= MaxGames \/ open = {} THEN -1
        ELSE CHOOSE id \in open : \A other \in open : id <= other

\* candidateGameId: the least id that is neither used nor to be skipped
Candidate(used, skip) ==
    LET open == Ids \ (used \cup {skip})
    IN  IF Cardinality(used) >= MaxGames \/ open = {} THEN -1
        ELSE CHOOSE id \in open : \A other \in open : id <= other

\* get, called while fewer than MaxGames games are there
GetId == IF nextId >= 0 /\ nextId \notin Known THEN nextId ELSE Candidate(Known, -1)

\* destroyGame: the freed id is the next one if the prospective one is no good
NextIdAfterDestroy(next, used, id) == IF next = -1 \/ next \in used THEN id ELSE next

-----------------------------------------------------------------------------
(* Entering a game.                                                        *)

Full(g) == PlayerLimit >= MinPlayers /\ Len(object[g].players) >= PlayerLimit

\* GameHandler: the game is looked up, then joined
LookUp(t, u, id, how) ==
    /\ Request(t, u) /\ GamesFree
    /\ games[id] # NoGame /\ MayEnter(games[id])
    /\ StartTask(t, how, u, games[id], "leave")
    /\ UNCHANGED <<games, nextId, object, current, valid>>

\* addPlayer takes the lock of the list; User.joinGame tests currentGame
JoinGame(t) ==
    /\ thread[t].pc = "join" /\ PlayersFree(thread[t].game)
    /\ IF Full(thread[t].game) \/ current[thread[t].user] # NoGame
       THEN Done(t) ELSE Goto(t, "seat")
    /\ UNCHANGED <<games, nextId, object, current, valid>>

\* mutant of FirstHost: whoever comes last is host
LastHost(g, p) == p

FirstHost(g, p) == IF object[g].host = NoPlayer THEN p ELSE object[g].host

\* ... and sets it; the player takes a seat, as host if there is none
SeatPlayer(t) ==
    LET g == thread[t].game
        u == thread[t].user
        p == NewPlayer(u)
    IN  /\ thread[t].pc \in {"seat", "first"} /\ FreshSerials(u) # {}
        /\ current' = [current EXCEPT ![u] = g]
        /\ object' = [object EXCEPT ![g].players = Append(@, p),
                                    ![g].host = FirstHost(g, p)]
        /\ Done(t)
        /\ UNCHANGED <<games, nextId, valid>>

\* addSpectator, likewise in two steps
SpectateGame(t) ==
    /\ thread[t].pc = "spectate" /\ SpectatorsFree(thread[t].game)
    /\ IF \/ Cardinality(object[thread[t].game].spectators) >= SpectatorLimit
          \/ current[thread[t].user] # NoGame
       THEN Done(t) ELSE Goto(t, "watch")
    /\ UNCHANGED <<games, nextId, object, current, valid>>

SeatSpectator(t) ==
    LET g == thread[t].game
        u == thread[t].user
    IN  /\ thread[t].pc = "watch"
        /\ current' = [current EXCEPT ![u] = g]
        /\ object' = [object EXCEPT ![g].spectators = @ \cup {u}]
        /\ Done(t)
        /\ UNCHANGED <<games, nextId, valid>>

\* createGameWithPlayer holds the lock of games until its player is seated; a
\* user that is already in a game makes it destroy the new game again.
CreateGame(t, u, g) ==
    LET id == GetId
        next == Candidate(Known, id)
    IN  /\ Request(t, u) /\ GamesFree
        /\ Cardinality(Known) < MaxGames /\ id >= 0 /\ g \in Fresh
        /\ IF current[u] # NoGame
           THEN /\ nextId' = NextIdAfterDestroy(next, Known, id)
                /\ UNCHANGED <<games, object, thread>>
           ELSE /\ games' = [games EXCEPT ![id] = g]
                /\ nextId' = next
                /\ object' = [object EXCEPT ![g] = [NewObject EXCEPT !.id = id]]
                /\ StartTask(t, "first", u, g, "leave")
        /\ UNCHANGED <<current, valid>>

-----------------------------------------------------------------------------
(* Leaving a game.                                                         *)

\* LeaveGameHandler, behind GameHandler and GameWithPlayerHandler
LeaveGame(t, u) ==
    /\ Request(t, u) /\ GamesFree
    /\ current[u] # NoGame /\ Listed(current[u]) /\ MayDepart(current[u])
    /\ StartTask(t, "find", u, current[u], "leave")
    /\ UNCHANGED <<games, nextId, object, current, valid>>

\* kickRemovedIdlePlayers.  skipIdlePlayers chooses whom to kick while the game
\* is played; if it kicks several, one of them is this one.
KickIdle(t, u, g) ==
    /\ ~Busy(t) /\ Alone(u) /\ MayDepart(g)
    /\ u \in UsersIn(g) /\ Len(object[g].players) >= MinPlayers
    /\ StartTask(t, "find", u, g, "kick")
    /\ UNCHANGED <<games, nextId, object, current, valid>>

\* ConnectedUsers lets go of the user once; noLongerValid tests currentGame,
Disconnect(t, u) ==
    /\ ~Busy(t) /\ valid[u] /\ Alone(u)
    /\ \A s \in Threads : thread[s].user = u => thread[s].why # "quit"
    /\ StartTask(t, IF current[u] = NoGame THEN "invalidate" ELSE "reread", u, NoGame, "quit")
    /\ UNCHANGED <<games, nextId, object, current, valid>>

\* ... and reads it again: if it is null by now the call fails.
ReadGame(t) ==
    LET g == current[thread[t].user]
    IN  /\ thread[t].pc = "reread"
        /\ IF g = NoGame THEN Done(t)
           ELSE /\ MayDepart(g)
                /\ thread' = [thread EXCEPT ![t].pc = "find", ![t].game = g]
        /\ UNCHANGED <<games, nextId, object, current, valid>>

\* mutant of AfterRemoval: noLongerValid forgets the spectators
AfterRemovalOfPlayer(t) ==
    CASE thread[t].why = "leave" -> GotoWith(t, "unwatch", NoPlayer)
      [] thread[t].why = "quit"  -> GotoWith(t, "invalidate", NoPlayer)
      [] thread[t].why = "kick"  -> Done(t)

\* removePlayer has returned
AfterRemoval(t) ==
    IF thread[t].why = "kick" THEN Done(t) ELSE GotoWith(t, "unwatch", NoPlayer)

FindPlayer(t) ==
    LET p == PlayerFor(thread[t].game, thread[t].user)
    IN  /\ thread[t].pc = "find" /\ PlayersFree(thread[t].game)
        /\ IF p = NoPlayer THEN AfterRemoval(t) ELSE GotoWith(t, "drop", p)
        /\ UNCHANGED <<games, nextId, object, current, valid>>

\* User.leaveGame, for a set of users
LeftBy(us, g) == [u \in Users |-> IF u \in us /\ current[u] = g THEN NoGame ELSE current[u]]

\* players.remove, which changes nothing if the player is not there any more
Removed(s, p) ==
    LET places == {i \in 1..Len(s) : s[i] = p}
        k == CHOOSE i \in places : TRUE
    IN  IF places = {} THEN s
        ELSE [i \in 1..(Len(s) - 1) |-> IF i < k THEN s[i] ELSE s[i + 1]]

\* ... and user.leaveGame
DropPlayer(t) ==
    LET g == thread[t].game
    IN  /\ thread[t].pc = "drop" /\ PlayersFree(g)
        /\ object' = [object EXCEPT ![g].players = Removed(@, thread[t].player)]
        /\ current' = LeftBy({thread[t].user}, g)
        /\ Goto(t, "hostTest")
        /\ UNCHANGED <<games, nextId, valid>>

\* mutant of WasHost: the host is never replaced
WasHostNever(g, p) == FALSE

WasHost(g, p) == object[g].host = p

\* if (host == player) host = players.isEmpty() ? null : players.get(0)
HostTest(t) ==
    LET g == thread[t].game
    IN  /\ thread[t].pc = "hostTest" /\ PlayersFree(g)
        /\ IF ~WasHost(g, thread[t].player) THEN GotoWith(t, "count", NoPlayer)
           ELSE IF object[g].players = <<>> THEN GotoWith(t, "hostSet", NoPlayer)
           ELSE Goto(t, "hostPick")
        /\ UNCHANGED <<games, nextId, object, current, valid>>

\* players.get(0) throws if the list has become empty, and the request ends
HostPick(t) ==
    LET g == thread[t].game
    IN  /\ thread[t].pc = "hostPick" /\ PlayersFree(g)
        /\ IF object[g].players = <<>> THEN Done(t)
           ELSE GotoWith(t, "hostSet", Head(object[g].players))
        /\ UNCHANGED <<games, nextId, object, current, valid>>

HostSet(t) ==
    /\ thread[t].pc = "hostSet"
    /\ object' = [object EXCEPT ![thread[t].game].host = thread[t].player]
    /\ GotoWith(t, "count", NoPlayer)
    /\ UNCHANGED <<games, nextId, current, valid>>

\* mutant of Deserted: a game with spectators is kept
DesertedByAll(g) == object[g].players = <<>> /\ object[g].spectators = {}

\* mutant of Deserted: off by one
DesertedButOne(g) == Len(object[g].players) <= 1

Deserted(g) == object[g].players = <<>>

\* handlePlayerCountAfterRemoval
CountPlayers(t) ==
    /\ thread[t].pc = "count" /\ PlayersFree(thread[t].game)
    /\ IF Deserted(thread[t].game) THEN Goto(t, "destroy") ELSE AfterRemoval(t)
    /\ UNCHANGED <<games, nextId, object, current, valid>>

\* mutant of Evicted: getUsers without the spectators
EvictedPlayers(g) == UsersIn(g)

\* getUsers: those whom destroyGame removes
Evicted(g) == UsersIn(g) \cup object[g].spectators

\* destroyGame(id) destroys whatever game has the id now.  While it holds the
\* lock of games its removals can only wait for the lists of that game.
DestroyGame(t) ==
    LET id == object[thread[t].game].id
        g == games[id]
    IN  /\ thread[t].pc = "destroy" /\ GamesFree
        /\ IF g = NoGame THEN UNCHANGED <<games, nextId, object, current>>
           ELSE /\ PlayersFree(g) /\ SpectatorsFree(g)
                /\ games' = [games EXCEPT ![id] = NoGame]
                /\ nextId' = NextIdAfterDestroy(nextId, Known \ {id}, id)
                /\ current' = LeftBy(Evicted(g), g)
                /\ object' = [object EXCEPT
                       ![g].players = <<>>,
                       ![g].spectators = @ \ Evicted(g),
                       ![g].host = IF @ \in PlayersIn(g) THEN NoPlayer ELSE @]
        /\ AfterRemoval(t)
        /\ UNCHANGED valid

RemoveSpectator(t) ==
    LET g == thread[t].game
        u == thread[t].user
        watching == u \in object[g].spectators
    IN  /\ thread[t].pc = "unwatch" /\ SpectatorsFree(g)
        /\ object' = [object EXCEPT ![g].spectators = @ \ {u}]
        /\ current' = IF watching THEN LeftBy({u}, g) ELSE current
        /\ IF thread[t].why = "quit" THEN Goto(t, "invalidate") ELSE Done(t)
        /\ UNCHANGED <<games, nextId, valid>>

\* the last statement of noLongerValid
Invalidate(t) ==
    /\ thread[t].pc = "invalidate"
    /\ valid' = [valid EXCEPT ![thread[t].user] = FALSE]
    /\ Done(t)
    /\ UNCHANGED <<games, nextId, object, current>>

-----------------------------------------------------------------------------
(* GameHostHandler, for the host or an admin.                              *)

HandOver(t, u, v) ==
    LET g == current[u]
    IN  /\ Request(t, u) /\ GamesFree
        /\ g # NoGame /\ Listed(g) /\ MayDepart(g) /\ PlayersFree(g)
        /\ PlayerFor(g, v) # NoPlayer
        /\ thread' = [thread EXCEPT ![t] =
                         [pc |-> "hand", user |-> u, game |-> g,
                          player |-> PlayerFor(g, v), why |-> "leave"]]
        /\ UNCHANGED <<games, nextId, object, current, valid>>

ChangeHost(t) ==
    /\ thread[t].pc = "hand"
    /\ object' = [object EXCEPT ![thread[t].game].host = thread[t].player]
    /\ Done(t)
    /\ UNCHANGED <<games, nextId, current, valid>>

-----------------------------------------------------------------------------

Init ==
    /\ games = [id \in Ids |-> NoGame]
    /\ nextId = 0
    /\ object = [g \in Objects |-> NewObject]
    /\ current = [u \in Users |-> NoGame]
    /\ valid = [u \in Users |-> TRUE]
    /\ thread = [t \in Threads |-> Idle]

Enter(t) ==
    \/ \E u \in Users, id \in Ids, how \in {"join", "spectate"} : LookUp(t, u, id, how)
    \/ JoinGame(t)
    \/ SeatPlayer(t)
    \/ SpectateGame(t)
    \/ SeatSpectator(t)
    \/ \E u \in Users, g \in Objects : CreateGame(t, u, g)

Depart(t) ==
    \/ \E u \in Users : LeaveGame(t, u)
    \/ \E u \in Users, g \in Objects : KickIdle(t, u, g)
    \/ \E u \in Users : Disconnect(t, u)
    \/ ReadGame(t)
    \/ FindPlayer(t)
    \/ DropPlayer(t)
    \/ HostTest(t)
    \/ HostPick(t)
    \/ HostSet(t)
    \/ CountPlayers(t)
    \/ DestroyGame(t)
    \/ RemoveSpectator(t)
    \/ Invalidate(t)

Host(t) ==
    \/ \E u, v \in Users : HandOver(t, u, v)
    \/ ChangeHost(t)

Next == \E t \in Threads : Enter(t) \/ Depart(t) \/ Host(t)

Spec == Init /\ [][Next]_vars

-----------------------------------------------------------------------------
(* What holds whatever the races.                                          *)

GameObjects == [ id : Ids, players : Seq(Players), spectators : SUBSET Users,
                 host : Players \cup {NoPlayer} ]

Steps == {"idle"} \cup Entering \cup Departing \cup Closing

Tasks == [ pc : Steps, user : Users \cup {NoUser}, game : Objects \cup {NoGame},
           player : Players \cup {NoPlayer}, why : Reasons ]

\* The fields keep their types.
TypeOK ==
    /\ games \in [Ids -> Objects \cup {NoGame}]
    /\ nextId \in Ids \cup {-1}
    /\ object \in [Objects -> GameObjects]
    /\ current \in [Users -> Objects \cup {NoGame}]
    /\ valid \in [Users -> BOOLEAN]
    /\ thread \in [Threads -> Tasks]

\* However many joins arrive at once, no game takes more players or spectators
\* than its options allow (the locks of addPlayer and addSpectator).
WithinLimits ==
    \A g \in Objects :
        /\ PlayerLimit >= MinPlayers => Len(object[g].players) <= PlayerLimit
        /\ Cardinality(object[g].spectators) <= SpectatorLimit

\* While there is room for a game there is an id for it, one that no game has
\* (get and candidateGameId, after any order of creation and destruction).
FreeIdOffered == Cardinality(Known) < MaxGames => GetId \in Ids \ Known

\* A game keeps its id until it is destroyed: no other game is put over it.
NotReplaced ==
    [][\A id \in Ids : games[id] # NoGame => games'[id] \in {games[id], NoGame}]_vars

-----------------------------------------------------------------------------
(* What needs some races excluded.                                         *)

Resting(u) == \A t \in Threads : Busy(t) => thread[t].user # u

\* Unless a thread is acting for it, a user is in the lists of exactly the game
\* that is its current game (joinGame and leaveGame follow the lists).
Consistent ==
    \A u \in Users : Resting(u) =>
        \A g \in Objects : u \in Evicted(g) <=> current[u] = g

\* A user that is no longer valid is in no game (noLongerValid).
GoneUsersAreOut ==
    \A u \in Users : ~valid[u] /\ Resting(u) => \A g \in Objects : u \notin Evicted(g)

\* When all is quiet a game is listed exactly if it has players, and nobody
\* watches a game that is not (handlePlayerCountAfterRemoval, destroyGame).
ListedIfPlayed ==
    Quiet => \A g \in Objects : /\ Listed(g) <=> object[g].players # <<>>
                                /\ object[g].spectators # {} => Listed(g)

\* When all is quiet the host of a game is one of its players.
HostIsPlayer ==
    Quiet => \A g \in Objects :
        object[g].players # <<>> => object[g].host \in PlayersIn(g)

\* A game is only destroyed when its last player has left.
DestroyedEmpty ==
    [][\A id \in Ids : games[id] # NoGame /\ games'[id] = NoGame
                         => object[games[id]].players = <<>>]_vars

=============================================================================
