------------------------------ MODULE Session ------------------------------
(***************************************************************************)
(* How a page gets a session, and how the game it shows follows the game   *)
(* that the server has its user in.  The page loads, resumes a session or  *)
(* registers, joins the game that its address names, joins, creates and    *)
(* leaves games; it is loaded again at any moment.  Its requests are       *)
(* served in any order, the answers arrive in any order, and each of them  *)
(* may be lost.  Sessions expire, games come and go, the game throws the   *)
(* user out.                                                               *)
(*                                                                         *)
(* slips is a history variable: what has happened, since the page was      *)
(* loaded, of the things that the code has no answer to.                   *)
(***************************************************************************)
EXTENDS Naturals, Sequences, FiniteSets, Bags

CONSTANTS
    Games,      \* ids of games
    None,       \* no game
    MaxInFlight \* bound: requests under way when the user causes another

ASSUME GamesAssumption == None \notin Games /\ MaxInFlight \in Nat

VARIABLES
    session,    \* server: the user in the session, "none", "valid", or "gone": no longer valid
    at,         \* server: User.currentGame
    games,      \* server: the games there are
    notices,    \* KICKED_FROM_GAME_IDLE events under way, oldest first
    inFlight,   \* requests and answers under way
    page,       \* the page
    slips       \* history: what has gone wrong since the page was loaded

vars == <<session, at, games, notices, inFlight, page, slips>>

-----------------------------------------------------------------------------
\* A message: the request for an operation on a game, or its answer ("asked"
\* is none yet).  age is history: "now", "before" the page entered the game it
\* is in, or sent by a page that is gone ("stray").
Message(op, g) == [op |-> op, game |-> g, answer |-> "asked", list |-> {}, age |-> "now"]

Sent(op, g) == SetToBag({Message(op, g)})

Ages == {"now", "before", "stray"}

As(m, age) == [m EXCEPT !.age = age]

Copies(m, bag) == IF m \in BagToSet(bag) THEN bag[m] ELSE 0

\* The messages with a new age each; those that it makes the same are counted together.
Reaged(bag, new) ==
    LET from(m, age) == IF new[age] = m.age THEN Copies(As(m, age), bag) ELSE 0
    IN  [m \in {As(n, new[n.age]) : n \in BagToSet(bag)} |->
            from(m, "now") + from(m, "before") + from(m, "stray")]

Aged(bag) == Reaged(bag, [age \in Ages |-> IF age = "now" THEN "before" ELSE age])

AgedNotices == [i \in DOMAIN notices |-> [notices[i] EXCEPT !.age = "before"]]

\* A page that has been loaded; only the address stays.
Loaded(hash) ==
    [registered |-> FALSE, sets |-> FALSE, open |-> {}, list |-> FALSE, polls |-> 0, hash |-> hash,
     autojoinGameId |-> None, hasAutojoinedGame |-> FALSE, hasRetriedFirstLoad |-> FALSE]

Init ==
    /\ session \in {"none", "gone"} /\ at = None
    /\ games \in SUBSET Games
    /\ notices = <<>>
    /\ \E hash \in Games \cup {None} : page = Loaded(hash)
    /\ inFlight = Sent("FIRST_LOAD", None)
    /\ slips = {}

Room == BagCardinality(inFlight) < MaxInFlight

\* Bound: when something has gone wrong, all the user does is load the page again.
Fine == slips = {}

InLobby == page.registered /\ page.list

-----------------------------------------------------------------------------
(* The user. *)

Ask(op, g) ==
    /\ Room
    /\ inFlight' = inFlight (+) Sent(op, g)
    /\ UNCHANGED <<session, at, games, notices>>

UnderWay(op) == \E m \in BagToSet(inFlight) : m.op = op /\ m.age # "stray"

Slip(name, happened) == slips' = slips \cup (IF happened THEN {name} ELSE {})

\* The box for the nickname is there before the page knows whether there is a session.
RegisterClick ==
    /\ ~page.registered
    /\ Ask("REGISTER", None) /\ UNCHANGED page
    /\ Slip("hasty", UnderWay("FIRST_LOAD"))

\* The list may be out of date: it may show any game.
JoinClick(g) == Fine /\ InLobby /\ Ask("JOIN", g) /\ UNCHANGED <<page, slips>>

CreateClick == Fine /\ InLobby /\ Ask("CREATE", None) /\ UNCHANGED <<page, slips>>

LeaveClick(g) == Fine /\ g \in page.open /\ Ask("LEAVE", g) /\ UNCHANGED <<page, slips>>

\* Logging out between two registrations is hasty too.
LogoutClick ==
    /\ Fine /\ page.registered
    /\ Ask("LOG_OUT", None)
    /\ page' = [page EXCEPT !.hash = None]
    /\ Slip("hasty", UnderWay("REGISTER"))

\* The page is loaded again: requests the server has not served yet stay under
\* way, answers have nobody to go to.
LoadAgain(bag) ==
    LET unserved == [m \in {n \in BagToSet(bag) : n.answer = "asked"} |-> bag[m]]
    IN  /\ inFlight' = Reaged(unserved, [age \in Ages |-> "stray"]) (+) Sent("FIRST_LOAD", None)
        /\ page' = Loaded(page.hash)
        /\ notices' = AgedNotices
        /\ slips' = {}
        /\ UNCHANGED <<session, at, games>>

Reload == Room /\ LoadAgain(inFlight)

-----------------------------------------------------------------------------
(* The server. *)

Answered(m, answer, g, list) ==
    inFlight' = (inFlight (-) SetToBag({m})) (+)
        IF m.age = "stray" THEN EmptyBag
        ELSE SetToBag({[m EXCEPT !.answer = answer, !.game = g, !.list = list]})

\* A request of a page that is gone takes effect when the new page has already
\* been told how things are.
Strays(m) ==
    /\ m.age = "stray"
    /\ ~ \E n \in BagToSet(inFlight) :
            n.op = "FIRST_LOAD" /\ n.age # "stray" /\ n.answer = "asked"

\* CahServlet: a user that is no longer valid loses the session; without one,
\* only loading and registering are served.
ServeExpired(m) ==
    /\ session = "gone"
    /\ session' = "none"
    /\ Answered(m, "expired", m.game, {})
    /\ UNCHANGED <<at, games, notices, page, slips>>

ServeUnregistered(m) ==
    /\ session = "none" /\ m.op \notin {"FIRST_LOAD", "REGISTER"}
    /\ Answered(m, "refused", m.game, {})
    /\ UNCHANGED <<session, at, games, notices, page, slips>>

ServeFirstLoad(m) ==
    /\ m.op = "FIRST_LOAD" /\ session # "gone"
    /\ Answered(m, IF session = "valid" THEN "resumed" ELSE "fresh", at, {})
    /\ UNCHANGED <<session, at, games, notices, page, slips>>

\* The nickname may be taken, by this user already.  Under another nickname the
\* session gets another user, and the old one stays behind.
ServeRegister(m) ==
    /\ m.op = "REGISTER" /\ session # "gone"
    /\ \/ /\ session' = "valid" /\ at' = None /\ notices' = <<>>
          /\ Answered(m, "ok", None, {})
          /\ slips' = slips \cup {x \in {"hasty", "stray"} :
                                    IF x = "hasty" THEN session = "valid" ELSE Strays(m)}
       \/ Answered(m, "refused", None, {}) /\ UNCHANGED <<session, at, notices, slips>>
    /\ UNCHANGED <<games, page>>

ServeList(m) ==
    /\ m.op = "GAME_LIST" /\ session = "valid"
    /\ Answered(m, "ok", None, games)
    /\ UNCHANGED <<session, at, games, notices, page, slips>>

\* The game may be full or want another password.
ServeJoin(m) ==
    /\ m.op = "JOIN" /\ session = "valid"
    /\ \/ /\ m.game \in games /\ at = None
          /\ at' = m.game /\ Answered(m, "ok", m.game, {}) /\ Slip("stray", Strays(m))
       \/ /\ Answered(m, IF m.game \in games THEN "refused" ELSE "invalid", m.game, {})
          /\ UNCHANGED <<at, slips>>
    /\ UNCHANGED <<session, games, notices, page>>

ServeCreate(m) ==
    /\ m.op = "CREATE" /\ session = "valid"
    /\ \/ /\ at = None
          /\ \E g \in Games \ games :
                at' = g /\ games' = games \cup {g} /\ Answered(m, "ok", g, {})
          /\ Slip("stray", Strays(m))
       \/ /\ at # None \/ games = Games
          /\ Answered(m, "refused", None, {}) /\ UNCHANGED <<at, games, slips>>
    /\ UNCHANGED <<session, notices, page>>

\* The user leaves; the game goes with its last player.
ServeLeave(m) ==
    /\ m.op = "LEAVE" /\ session = "valid"
    /\ \/ /\ m.game \in games /\ m.game = at
          /\ at' = None /\ games' \in {games, games \ {m.game}}
          /\ Answered(m, "ok", m.game, {}) /\ Slip("stray", Strays(m))
       \/ /\ m.game \notin games \/ m.game # at
          /\ Answered(m, IF m.game \in games THEN "refused" ELSE "invalid", m.game, {})
          /\ UNCHANGED <<at, games, slips>>
    /\ UNCHANGED <<session, notices, page>>

ServeInfo(m) ==
    /\ m.op = "INFO" /\ session = "valid"
    /\ Answered(m, IF m.game \in games THEN "ok" ELSE "invalid", m.game, {})
    /\ UNCHANGED <<session, at, games, notices, page, slips>>

ServeLogout(m) ==
    /\ m.op = "LOG_OUT" /\ session = "valid"
    /\ session' = "none" /\ at' = None /\ notices' = <<>>
    /\ Answered(m, "ok", None, {}) /\ Slip("stray", Strays(m))
    /\ UNCHANGED <<games, page>>

Serve(m) ==
    /\ m.answer = "asked"
    /\ \/ ServeExpired(m) \/ ServeUnregistered(m) \/ ServeFirstLoad(m) \/ ServeRegister(m)
       \/ ServeList(m) \/ ServeJoin(m) \/ ServeCreate(m) \/ ServeLeave(m) \/ ServeInfo(m)
       \/ ServeLogout(m)

\* The user is removed for having been silent or idle for minutes: requests are
\* answered, or given up, long before.
Expire ==
    /\ session = "valid" /\ inFlight = EmptyBag
    /\ session' = "gone" /\ at' = None /\ notices' = <<>>
    /\ UNCHANGED <<games, inFlight, page, slips>>

\* The game throws a player out that has been idle for rounds.
KickIdle ==
    /\ at # None /\ notices = <<>> /\ inFlight = EmptyBag
    /\ at' = None
    /\ notices' = Append(notices, [game |-> at, age |-> "now"])
    /\ UNCHANGED <<session, games, inFlight, page, slips>>

\* Others create and leave games.
GameAppears(g) ==
    /\ g \notin games /\ games' = games \cup {g}
    /\ UNCHANGED <<session, at, notices, inFlight, page, slips>>

GameVanishes(g) ==
    /\ g \in games /\ at # g /\ games' = games \ {g}
    /\ UNCHANGED <<session, at, notices, inFlight, page, slips>>

-----------------------------------------------------------------------------
(* The page handles answers and events. *)

Rest(m) == inFlight (-) SetToBag({m})

\* after_registered: the list, a poll loop, and the game in the address.
Registered(p) ==
    [p EXCEPT !.registered = TRUE, !.list = TRUE, !.polls = @ + 1,
              !.autojoinGameId = IF p.hash # None THEN p.hash ELSE @]

\* mutant of Entered: the list stays
EnteredKeepsList(p, g) == [p EXCEPT !.open = @ \cup {g}, !.hash = g]

\* Game.joinGame
Entered(p, g) == [p EXCEPT !.open = @ \cup {g}, !.list = FALSE, !.hash = g]

\* LEAVE_GAME, and everything that ends like it: the game is disposed of if the
\* page has it, and the list is shown whatever the page has.
BackInLobby(p, g) ==
    [p EXCEPT !.open = @ \ {g}, !.list = TRUE, !.hash = IF g \in p.open THEN None ELSE @]

\* The answer brings the card sets, whatever else it says.
Shown(p) == [p EXCEPT !.sets = TRUE]

\* mutant of IntoGame: the lobby is shown after every reload
IntoGameNever(m) == FALSE

IntoGame(m) == m.answer = "resumed" /\ m.game # None

\* mutant of Retries: an expired session is an error like others
RetriesNever(m) == FALSE

\* Once, if there was a session that is over.
Retries(m) == m.answer = "expired" /\ ~page.hasRetriedFirstLoad

LearnFirstLoad(m) ==
    /\ m.op = "FIRST_LOAD"
    /\ CASE IntoGame(m) ->
              /\ page' = [Entered(Registered(Shown(page)), m.game) EXCEPT !.hasAutojoinedGame = TRUE]
              /\ inFlight' = Aged(Rest(m)) (+) Sent("GAME_LIST", None) (+) Sent("INFO", m.game)
              /\ notices' = AgedNotices
         [] m.answer = "resumed" /\ ~IntoGame(m) ->
              /\ page' = Registered(Shown(page))
              /\ inFlight' = Rest(m) (+) Sent("GAME_LIST", None) /\ UNCHANGED notices
         [] m.answer = "fresh" ->
              /\ page' = Shown(page)
              /\ inFlight' = Rest(m) /\ UNCHANGED notices
         [] Retries(m) ->
              /\ page' = [page EXCEPT !.hasRetriedFirstLoad = TRUE]
              /\ inFlight' = Rest(m) (+) Sent("FIRST_LOAD", None) /\ UNCHANGED notices
         [] OTHER ->
              inFlight' = Rest(m) /\ UNCHANGED <<page, notices>>
    /\ UNCHANGED <<session, at, games, slips>>

\* mutant of Accepted: an error is not told from a success
AcceptedOrNot(m) == TRUE

Accepted(m) == m.answer = "ok"

LearnRegister(m) ==
    /\ m.op = "REGISTER"
    /\ IF Accepted(m)
         THEN page' = Registered(page) /\ inFlight' = Rest(m) (+) Sent("GAME_LIST", None)
         ELSE inFlight' = Rest(m) /\ UNCHANGED page
    /\ UNCHANGED <<session, at, games, notices, slips>>

\* A list whose games have card sets that the page does not know is dropped half
\* way (GameList processUpdate).
LearnListUnread(m) ==
    /\ m.op = "GAME_LIST" /\ m.answer = "ok" /\ m.list # {} /\ ~page.sets
    /\ inFlight' = Rest(m)
    /\ UNCHANGED <<session, at, games, notices, page, slips>>

\* The first list decides about the game in the address, whatever the page has
\* entered in the meantime.
LearnList(m) ==
    /\ m.op = "GAME_LIST"
    /\ LET auto == page.autojoinGameId
       IN  IF m.answer = "ok" /\ auto # None /\ ~page.hasAutojoinedGame
             THEN /\ IF auto \in m.list
                       THEN /\ page' = [page EXCEPT !.autojoinGameId = None]
                            /\ inFlight' = Rest(m) (+) Sent("JOIN", auto)
                       ELSE /\ page' = [page EXCEPT !.autojoinGameId = None, !.hash = None]
                            /\ inFlight' = Rest(m)
                  /\ Slip("late", m.age = "before")
             ELSE inFlight' = Rest(m) /\ UNCHANGED <<page, slips>>
    /\ UNCHANGED <<session, at, games, notices>>

LearnJoin(m) ==
    /\ m.op \in {"JOIN", "CREATE"}
    /\ IF m.answer = "ok"
         THEN /\ page' = Entered(page, m.game)
              /\ inFlight' = Aged(Rest(m)) (+) Sent("INFO", m.game)
              /\ notices' = AgedNotices
              /\ Slip("late", m.age = "before")
         ELSE inFlight' = Rest(m) /\ UNCHANGED <<page, notices, slips>>
    /\ UNCHANGED <<session, at, games>>

\* The answer to an entry is under way: an answer or event that says the user is
\* out of a game may be about that entry, and has overtaken it.
Overtakes ==
    \E n \in BagToSet(inFlight) : n.op \in {"JOIN", "CREATE"} /\ n.answer = "ok"

LearnLeave(m) ==
    /\ m.op \in {"LEAVE", "INFO"}
    /\ IF m.answer = "invalid" \/ (m.op = "LEAVE" /\ m.answer = "ok")
         THEN /\ page' = BackInLobby(page, m.game)
              /\ inFlight' = Rest(m) (+) Sent("GAME_LIST", None)
              /\ Slip("late", m.age = "before" \/ Overtakes)
         ELSE inFlight' = Rest(m) /\ UNCHANGED <<page, slips>>
    /\ UNCHANGED <<session, at, games, notices>>

\* Whether it worked or not.
LearnLogout(m) == m.op = "LOG_OUT" /\ LoadAgain(Rest(m))

Learn(m) ==
    /\ m.answer # "asked"
    /\ \/ LearnFirstLoad(m) \/ LearnRegister(m) \/ LearnList(m) \/ LearnListUnread(m)
       \/ LearnJoin(m) \/ LearnLeave(m) \/ LearnLogout(m)

\* KICKED_FROM_GAME_IDLE
ThrownOut ==
    /\ notices # <<>> /\ page.polls > 0
    /\ page' = BackInLobby(page, Head(notices).game)
    /\ inFlight' = inFlight (+) Sent("GAME_LIST", None)
    /\ notices' = Tail(notices)
    /\ Slip("late", Head(notices).age = "before" \/ Overtakes)
    /\ UNCHANGED <<session, at, games>>

\* A request or its answer is lost: Ajax.error says so and does nothing.
Lose(m) ==
    /\ m.age # "stray"
    /\ inFlight' = Rest(m)
    /\ slips' = slips \cup {"lost"}
    /\ UNCHANGED <<session, at, games, notices, page>>

Next ==
    \/ RegisterClick \/ CreateClick \/ LogoutClick \/ Reload
    \/ \E g \in Games : JoinClick(g) \/ LeaveClick(g) \/ GameAppears(g) \/ GameVanishes(g)
    \/ \E m \in BagToSet(inFlight) : Serve(m) \/ Learn(m) \/ Lose(m)
    \/ Expire \/ KickIdle \/ ThrownOut

Spec == Init /\ [][Next]_vars

-----------------------------------------------------------------------------
Quiet == inFlight = EmptyBag /\ notices = <<>>

\* When nothing is under way, the page shows the game that the server has its
\* user in: however often things were clicked, answered out of order or loaded
\* again, unless since the page was loaded something was lost, came too late or
\* from the page before, or the user was hasty; and loading it again repairs that.
Agrees ==
    Quiet /\ session = "valid" /\ slips = {}
        => page.registered /\ page.open = (IF at = None THEN {} ELSE {at})

\* The list is shown exactly while the page is in no game, and a page in a game
\* names it in its address unless it is logging out, whatever is under way: as
\* long as, since the page was loaded, nothing was lost, came from before the page
\* entered its game or left it or from the page before, and the user was not hasty
\* (cah.GameList show and hide, cah.updateHash).
OneView ==
    page.registered /\ slips = {}
        => /\ page.list <=> page.open = {}
           /\ \A g \in page.open : page.hash = g \/ UnderWay("LOG_OUT")

\* A registered page knows the card sets, without which it cannot show a list of
\* games: also when the session it had has expired and the first answer is an
\* error (hasRetriedFirstLoad_).
SetsKnown == page.registered /\ slips \cap {"hasty", "lost"} = {} => page.sets

\* There is one poll loop, which the order of events rests on, however often the
\* user clicks to register: unless that is before the page knows whether there is
\* a session, or under another nickname before the first answer is there
\* (after_registered).
OnePoll == slips \cap {"hasty", "stray"} = {} => page.polls <= 1
=============================================================================
