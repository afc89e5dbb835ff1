-------------------------------- MODULE Lobby --------------------------------
(***************************************************************************)
(* The options and the people of one game, at the server and on the pages  *)
(* of those in it: who is host and may edit, what the form of options      *)
(* shows, who is on the scoreboard, which buttons there are.  The server   *)
(* tells pages of changes in long-poll events; pages ask for what the      *)
(* events leave out, and the answers have a way of their own.              *)
(*                                                                         *)
(* The code has no answer to some orders of these, the slips: Races names  *)
(* those that may happen, and a history variable keeps those that have.    *)
(***************************************************************************)
EXTENDS Naturals, Sequences, SequencesExt, Bags

CONSTANTS
    Users,      \* who may enter the game
    Watched,    \* those of them whose pages are looked at
    Fields,     \* options
    Values,     \* what an option may be
    Default,    \* what options are at first
    Decks,      \* custom decks
    None,       \* nobody, nothing
    MaxDoings,  \* bound: things that users do
    MaxUnderWay,\* bound: events to a page, and requests, when a user does something
    Races       \* slips that may happen:
                \*   "overtaken"    an answer is learned after an event that is newer
                \*   "early"        a list of decks has one whose arrival will be told again
                \*   "lateHost"     the game is read between the host's leaving and its replacement
                \*   "hasty"        an option is edited before the form is up to date
                \*   "soonBack"     a user comes back before the page has heard all of the last stay
                \*   "shownInGame"  the host of a game that is on opens the form for editing

ASSUME LobbyAssumption ==
    /\ IsFiniteSet(Users) /\ Watched \subseteq Users
    /\ None \notin Users \cup Fields /\ Default \in Values
    /\ MaxDoings \in Nat /\ MaxUnderWay \in Nat
    /\ Races \subseteq {"overtaken", "early", "lateHost", "hasty", "soonBack", "shownInGame"}

VARIABLES
    game,       \* the Game object, as far as the lobby goes
    halfway,    \* what server threads have begun and not finished
    events,     \* long-poll events to each page, oldest first
    inFlight,   \* requests and answers under way
    page,       \* the cah.Game object of each page
    slips,      \* history: the slips that have happened
    doings      \* bound: what users have done

vars == <<game, halfway, events, inFlight, page, slips, doings>>

-----------------------------------------------------------------------------
(* Events and requests. *)

Players(g) == ToSet(g.players)
Members(g) == Players(g) \cup g.spectators

\* broadcastToPlayers
Told(g, news) ==
    [u \in Watched |-> IF u \in Members(g) THEN events[u] \o news ELSE events[u]]

News(type, who) == <<[type |-> type, who |-> who]>>

\* notifyPlayerInfoChange: of the status, HOST or not.
InfoChange(g, u) == <<[type |-> "info", who |-> u, host |-> g.state = "LOBBY" /\ g.host = u]>>

StateChange(state) == <<[type |-> "state", state |-> state]>>

\* notifyGameOptionsChanged, with getInfo
OptionsChanged(g) == <<[type |-> "options", info |-> g]>>

\* An answer brings what it was served from, and knows how many events to its page
\* were under way before it: it may overtake those.
Request(u, op, form, field) ==
    [user |-> u, op |-> op, form |-> form, field |-> field,
     answered |-> FALSE, data |-> None, ahead |-> 0]

Ask(u, op) == SetToBag({Request(u, op, None, None)})

Messages == BagToSet(inFlight)

Rest(m) == inFlight (-) SetToBag({m})

If(name, happened) == IF happened THEN {name} ELSE {}

Slip(names) == names \subseteq Races /\ slips' = slips \cup names

\* Something is done by a user.
Do ==
    /\ doings < MaxDoings /\ doings' = doings + 1
    /\ BagCardinality(inFlight) <= MaxUnderWay
    /\ \A u \in Watched : Len(events[u]) <= MaxUnderWay

-----------------------------------------------------------------------------
(* The server. *)

Leaving == {h.user : h \in {x \in halfway : x.task = "leave"}}

\* A host that has left the list of players is host until it is replaced.
HostIsGone(g) == g.host \notin Players(g)

\* What concerns the last stay of u in the game is still under way.
SoonBack(u) ==
    /\ u \in Watched
    /\ events[u] # <<>> \/ \E m \in Messages : m.user = u

\* addPlayer
JoinGame(u) ==
    /\ Do /\ u \notin Members(game) \cup Leaving
    /\ u \in Watched => ~page[u].open
    /\ game' = [game EXCEPT !.players = Append(@, u)]
    /\ events' = Told(game', News("join", u))
    /\ Slip(If("soonBack", SoonBack(u)))
    /\ UNCHANGED <<halfway, inFlight, page>>

\* addSpectator
SpectateGame(u) ==
    /\ Do /\ u \notin Members(game) \cup Leaving
    /\ u \in Watched => ~page[u].open
    /\ game' = [game EXCEPT !.spectators = @ \cup {u}]
    /\ events' = Told(game', News("spectatorJoin", u))
    /\ Slip(If("soonBack", SoonBack(u)))
    /\ UNCHANGED <<halfway, inFlight, page>>

\* removeSpectator
LeaveSpectator(u) ==
    /\ Do /\ u \in game.spectators
    /\ game' = [game EXCEPT !.spectators = @ \ {u}]
    /\ events' = Told(game', News("spectatorLeave", u))
    /\ UNCHANGED <<halfway, inFlight, page, slips>>

\* List.remove(Object) on a list that holds each player once
Without(players, u) == RemoveAt(players, CHOOSE i \in 1..Len(players) : players[i] = u)

\* removePlayer, up to the broadcast.  With its last player the game would go.
LeaveGame(u) ==
    /\ Do /\ u \in Players(game) /\ Len(game.players) > 1
    /\ game' = [game EXCEPT !.players = Without(@, u)]
    /\ events' = Told(game', News("leave", u))
    /\ halfway' = halfway \cup {[task |-> "leave", user |-> u]}
    /\ UNCHANGED <<inFlight, page, slips>>

\* resetState
Reset(g) ==
    /\ game' = [g EXCEPT !.state = "LOBBY"]
    /\ events' = Told(game', StateChange("LOBBY") \o InfoChange(game', g.host))
    /\ Slip(If("lateHost", HostIsGone(g)))

\* removePlayer, the rest: another host, and back to the lobby if too few are left.
FinishLeaving(h) ==
    /\ h.task = "leave"
    /\ halfway' = halfway \ {h}
    /\ LET g == IF game.host = h.user THEN [game EXCEPT !.host = Head(game.players)] ELSE game
       IN  IF Len(g.players) < 3 /\ g.state # "LOBBY"
             THEN Reset(g)
             ELSE game' = g /\ UNCHANGED <<events, slips>>
    /\ UNCHANGED <<inFlight, page, doings>>

\* changeHost
ChangeHost(u) ==
    /\ Do /\ u \in Players(game) /\ u # game.host
    /\ game' = [game EXCEPT !.host = u]
    /\ events' = Told(game', InfoChange(game', game.host) \o InfoChange(game', u)
                               \o OptionsChanged(game'))
    /\ Slip(If("lateHost", HostIsGone(game)))
    /\ UNCHANGED <<halfway, inFlight, page>>

\* start
Start ==
    /\ Do /\ game.state = "LOBBY" /\ ~HostIsGone(game) /\ Len(game.players) >= 3
    /\ game' = [game EXCEPT !.state = "PLAYING"]
    /\ events' = Told(game', StateChange("PLAYING"))
    /\ UNCHANGED <<halfway, inFlight, page, slips>>

\* startNextRound
NextRound ==
    /\ Do /\ game.state # "LOBBY"
    /\ events' = Told(game, StateChange("PLAYING"))
    /\ UNCHANGED <<game, halfway, inFlight, page, slips>>

\* Somebody has won, or the game is stopped.
Stop ==
    /\ Do /\ game.state # "LOBBY"
    /\ Reset(game)
    /\ UNCHANGED <<halfway, inFlight, page>>

\* AddCardsetHandler, for a request of some host some time in the lobby: the deck is fetched
\* after that has been looked at.
AddCardset(d) ==
    /\ Do /\ d \notin game.decks
    /\ game' = [game EXCEPT !.decks = @ \cup {d}]
    /\ events' = Told(game', News("addCardset", d))
    /\ UNCHANGED <<halfway, inFlight, page, slips>>

\* RemoveCardsetHandler: all are told, whether the deck was there or not.
RemoveCardset(d) ==
    /\ Do /\ game.state = "LOBBY" /\ ~HostIsGone(game)
    /\ game' = [game EXCEPT !.decks = @ \ {d}]
    /\ events' = Told(game', News("removeCardset", d))
    /\ UNCHANGED <<halfway, inFlight, page, slips>>

\* ChangeGameOptionHandler
MayChange(u) == game.host = u /\ game.state = "LOBBY"

\* What the handler looks at is what it was when it changes the options.
ServeChange(m) ==
    /\ m.op = "CHANGE_GAME_OPTIONS"
    /\ inFlight' = Rest(m)
    /\ halfway' = IF m.user \in Members(game) /\ MayChange(m.user)
                    THEN halfway \cup {[task |-> "change", user |-> m.user, form |-> m.form, field |-> m.field]}
                    ELSE halfway
    /\ UNCHANGED slips

\* mutant of UpdateGameSettings: the pages are told first
UpdateGameSettingsToldFirst(options) ==
    /\ events' = Told(game, OptionsChanged(game))
    /\ game' = [game EXCEPT !.options = options]

\* updateGameSettings
UpdateGameSettings(options) ==
    /\ game' = [game EXCEPT !.options = options]
    /\ events' = Told(game', OptionsChanged(game'))

\* ChangeGameOptionHandler, the rest
FinishChange(h) ==
    /\ h.task = "change"
    /\ halfway' = halfway \ {h}
    /\ UpdateGameSettings(h.form)
    /\ Slip(If("lateHost", HostIsGone(game)))
    /\ UNCHANGED <<inFlight, page, doings>>

\* GetGameInfoHandler and ListCardsetsHandler: an error, which nothing comes of,
\* to those that are not in the game.
ServeRead(m) ==
    /\ m.op # "CHANGE_GAME_OPTIONS"
    /\ inFlight' = IF m.user \in Members(game)
                     THEN Rest(m) (+) SetToBag({[m EXCEPT !.answered = TRUE, !.data = game,
                                                          !.ahead = Len(events[m.user])]})
                     ELSE Rest(m)
    /\ Slip(If("lateHost", m.op = "GET_GAME_INFO" /\ m.user \in Members(game) /\ HostIsGone(game)))
    /\ UNCHANGED halfway

\* A change of the options is on its way.
ChangeUnderWay ==
    \/ \E m \in Messages : m.op = "CHANGE_GAME_OPTIONS"
    \/ \E h \in halfway : h.task = "change"

\* A host whose page is not looked at changes an option.
OthersChange(u, f, v) ==
    /\ Do /\ u \in Members(game) /\ MayChange(u) /\ game.options[f] # v
    /\ UpdateGameSettings([game.options EXCEPT ![f] = v])
    /\ Slip(If("hasty", ChangeUnderWay))
    /\ UNCHANGED <<halfway, inFlight, page>>

Serve(m) ==
    /\ ~m.answered
    /\ ServeChange(m) \/ ServeRead(m)
    /\ UNCHANGED <<game, events, page, doings>>

-----------------------------------------------------------------------------
(* The pages. *)

NewPage ==
    [open |-> TRUE, state |-> "LOBBY", host |-> None, form |-> [f \in Fields |-> Default],
     shown |-> TRUE, enabled |-> TRUE, start |-> FALSE, stop |-> FALSE,
     panels |-> {}, decks |-> [d \in Decks |-> 0]]

Closed == [NewPage EXCEPT !.open = FALSE]

Entering(u) == Ask(u, "GET_GAME_INFO") (+) Ask(u, "LIST_CARDSETS")

\* joinGame
Enter(u) ==
    /\ u \in Members(game) /\ ~page[u].open
    /\ page' = [page EXCEPT ![u] = NewPage]
    /\ inFlight' = inFlight (+) Entering(u)
    /\ UNCHANGED <<game, halfway, events, slips, doings>>

\* dispose, when the page is told that it is out.
Exit(u) ==
    /\ u \notin Members(game) /\ page[u].open
    /\ page' = [page EXCEPT ![u] = Closed]
    /\ UNCHANGED <<game, halfway, events, inFlight, slips, doings>>

\* The page is loaded again: the answers to it are lost, a change that it has sent is not.
Reload(u) ==
    /\ Do /\ page[u].open
    /\ page' = [page EXCEPT ![u] = Closed]
    /\ LET lost == {m \in Messages : m.user = u /\ m.op # "CHANGE_GAME_OPTIONS"}
       IN  inFlight' = [m \in Messages \ lost |-> inFlight[m]]
    /\ UNCHANGED <<game, halfway, events, slips>>

\* showOptions_ and updateOptionsEnabled_
ShowOptions(p, u) == [p EXCEPT !.shown = TRUE, !.enabled = p.host = u /\ p.state = "LOBBY"]

HideOptions(p) == [p EXCEPT !.shown = FALSE]

\* mutant of UpdateGameStatus: the form keeps what it shows
UpdateGameStatusNoForm(p, u, g) ==
    LET q == [p EXCEPT !.host = g.host,
                       !.start = g.host = u /\ g.state = "LOBBY",
                       !.stop = g.host = u /\ g.state # "LOBBY"]
    IN  IF g.state = "LOBBY" THEN ShowOptions(q, u) ELSE HideOptions(q)

\* updateGameStatus, without the scoreboard
UpdateGameStatus(p, u, g) ==
    LET q == [p EXCEPT !.host = g.host, !.form = g.options,
                       !.start = g.host = u /\ g.state = "LOBBY",
                       !.stop = g.host = u /\ g.state # "LOBBY"]
    IN  IF g.state = "LOBBY" THEN ShowOptions(q, u) ELSE HideOptions(q)

\* mutant of Refreshes: playerLeave does not ask
RefreshesOnJoin(e, u) ==
    \/ e.type \in {"join", "spectatorJoin", "spectatorLeave"} /\ e.who # u
    \/ e.type = "state" /\ e.state = "PLAYING"

\* The events after which a page asks for the state of the game.
Refreshes(e, u) ==
    \/ e.type \in {"join", "leave", "spectatorJoin", "spectatorLeave"} /\ e.who # u
    \/ e.type = "state" /\ e.state = "PLAYING"

\* mutant of WithoutPanel: the panel stays
WithoutPanelKept(p, who) == p

\* playerLeave and spectatorLeave
WithoutPanel(p, who) == [p EXCEPT !.panels = @ \ {who}]

\* The event handlers of cah.Game
Handled(p, u, e) ==
    CASE e.type = "join" -> p
      [] e.type \in {"leave", "spectatorLeave"} -> WithoutPanel(p, e.who)
      [] e.type = "spectatorJoin" -> [p EXCEPT !.panels = @ \cup {e.who}]
      [] e.type = "info" -> [p EXCEPT !.panels = @ \cup {e.who},
                                      !.start = @ \/ (e.who = u /\ e.host)]
      [] e.type = "state" /\ e.state = "LOBBY" ->
            ShowOptions([p EXCEPT !.state = "LOBBY", !.stop = FALSE], u)
      [] e.type = "state" /\ e.state = "PLAYING" -> HideOptions([p EXCEPT !.state = "PLAYING"])
      [] e.type = "options" ->
            [UpdateGameStatus(p, u, e.info) EXCEPT !.panels = @ \cup e.info.spectators]
      [] e.type = "addCardset" -> [p EXCEPT !.decks[e.who] = @ + 1]
      [] e.type = "removeCardset" -> [p EXCEPT !.decks[e.who] = 0]

\* An answer to u is under way that is older than the next event.
AnswerIsDue(u) == \E m \in Messages : m.user = u /\ m.answered /\ m.ahead = 0

Copies(m) == IF m \in Messages THEN inFlight[m] ELSE 0

\* One event less is ahead of m, if it is an answer to u.
Closer(m, u) == IF m.user = u /\ m.ahead > 0 THEN [m EXCEPT !.ahead = @ - 1] ELSE m

\* The messages when u has handled an event; those that this makes the same are counted
\* together.
OneLess(u) ==
    [m \in {Closer(n, u) : n \in Messages} |->
        (IF m.user # u \/ m.ahead = 0 THEN Copies(m) ELSE 0)
        + (IF m.user = u THEN Copies([m EXCEPT !.ahead = @ + 1]) ELSE 0)]

\* __gameEvent: a page that is not in the game does nothing with it.
HandleEvent(u) ==
    /\ events[u] # <<>>
    /\ LET e == Head(events[u])
           asks == page[u].open /\ Refreshes(e, u)
       IN  /\ page' = IF page[u].open THEN [page EXCEPT ![u] = Handled(@, u, e)] ELSE page
           /\ inFlight' = OneLess(u) (+) (IF asks THEN Ask(u, "GET_GAME_INFO") ELSE EmptyBag)
    /\ events' = [events EXCEPT ![u] = Tail(@)]
    /\ Slip(If("overtaken", AnswerIsDue(u)))
    /\ UNCHANGED <<game, halfway, doings>>

\* The answer to LIST_CARDSETS has a deck that an event under way will add again.
Early(m) ==
    \E i \in 1..m.ahead : events[m.user][i].type = "addCardset" /\ events[m.user][i].who \in m.data.decks

Learn(m) ==
    /\ m.answered
    /\ inFlight' = Rest(m)
    /\ LET u == m.user
           learned(p) ==
              IF m.op = "GET_GAME_INFO"
                THEN [UpdateGameStatus(p, u, m.data) EXCEPT !.panels = @ \cup Members(m.data)]
                ELSE [p EXCEPT !.decks = [d \in Decks |-> IF d \in m.data.decks THEN 1 ELSE 0]]
       IN  page' = IF page[u].open THEN [page EXCEPT ![u] = learned(@)] ELSE page
    /\ Slip(If("early", m.op = "LIST_CARDSETS" /\ Early(m)))
    /\ UNCHANGED <<game, halfway, events, doings>>

\* The page of u has not caught up with a change of the options or of the state, or is
\* about to learn of one.
Behind(u) ==
    \/ page[u].host = None
    \/ \E i \in DOMAIN events[u] : events[u][i].type \in {"options", "state"}
    \/ \E m \in Messages : m.user = u /\ m.op = "GET_GAME_INFO"
    \/ ChangeUnderWay

\* optionChanged_: the whole form is sent.
OptionChanged(u, f, v) ==
    /\ Do
    /\ page[u].open /\ page[u].shown /\ page[u].enabled /\ page[u].form[f] # v
    /\ page' = [page EXCEPT ![u].form[f] = v]
    /\ inFlight' = inFlight (+) SetToBag({Request(u, "CHANGE_GAME_OPTIONS", page'[u].form, f)})
    /\ Slip(If("hasty", Behind(u)))
    /\ UNCHANGED <<game, halfway, events>>

\* showOptionsClick_: which of the two is not tied to what is shown.  The page of one that
\* came when the game was on takes it to be in the lobby until the next round.
ShowOptionsClick(u) ==
    /\ Do /\ page[u].open
    /\ \E p \in {ShowOptions(page[u], u), HideOptions(page[u])} :
          page' = [page EXCEPT ![u] = p]
    /\ Slip(If("shownInGame", page'[u].shown /\ page'[u].enabled /\ game.state # "LOBBY"))
    /\ UNCHANGED <<game, halfway, events, inFlight>>

-----------------------------------------------------------------------------
\* Any game whose pages are just being loaded.
Init ==
    /\ \E ps \in SetToAllKPermutations(Users) \ {<<>>}, ss \in SUBSET Users,
          state \in {"LOBBY", "PLAYING"} :
          /\ ss \cap ToSet(ps) = {}
          /\ Len(ps) < 3 => state = "LOBBY"
          /\ game = [state |-> state, players |-> ps, spectators |-> ss, host |-> Head(ps),
                     options |-> [f \in Fields |-> Default], decks |-> {}]
    /\ halfway = {} /\ slips = {} /\ doings = 0
    /\ events = [u \in Watched |-> <<>>]
    /\ page = [u \in Watched |-> Closed]
    /\ inFlight = EmptyBag

Next ==
    \/ \E u \in Users :
          \/ JoinGame(u) \/ SpectateGame(u) \/ LeaveSpectator(u) \/ LeaveGame(u) \/ ChangeHost(u)
    \/ \E u \in Watched :
          \/ Enter(u) \/ Exit(u) \/ Reload(u) \/ HandleEvent(u) \/ ShowOptionsClick(u)
          \/ \E f \in Fields, v \in Values : OptionChanged(u, f, v)
    \/ \E u \in Users \ Watched, f \in Fields, v \in Values : OthersChange(u, f, v)
    \/ \E d \in Decks : AddCardset(d) \/ RemoveCardset(d)
    \/ Start \/ NextRound \/ Stop
    \/ \E h \in halfway : FinishLeaving(h) \/ FinishChange(h)
    \/ \E m \in Messages : Serve(m) \/ Learn(m)

Spec == Init /\ [][Next]_vars

-----------------------------------------------------------------------------
\* Nothing is under way to or from the page of u, which is in the game.
Quiet(u) ==
    /\ page[u].open /\ u \in Members(game)
    /\ halfway = {} /\ events[u] = <<>>
    /\ \A m \in Messages : m.user # u

\* A page at rest shows the options the server will play by, and each custom deck once:
\* edits, answers, events and what a joining page asks for come together to the same
\* form (updateGameStatus, updateCustomDecks and customDeckAdded against
\* ChangeGameOptionHandler and AddCardsetHandler).
FormAgrees ==
    slips \cap {"early", "overtaken", "soonBack", "shownInGame"} = {} =>
        \A u \in Watched : Quiet(u) =>
            /\ page[u].form = game.options
            /\ \A d \in Decks : page[u].decks[d] = IF d \in game.decks THEN 1 ELSE 0

\* A page at rest has a panel for everyone in the game and for nobody else, though panels
\* are only ever added by answers and taken away by events (updateUserStatus,
\* updateSpectator, playerLeave).
RosterAgrees ==
    slips \cap {"lateHost", "overtaken", "soonBack"} = {} =>
        \A u \in Watched : Quiet(u) => page[u].panels = Members(game)

\* The host, and only the host, is offered to start the game or to stop it, whichever can
\* be done, and to edit the options in the lobby: removePlayer tells nobody of the new
\* host, whose page learns it from the answer it asks for when somebody leaves.
HostKnows ==
    slips \cap {"lateHost", "overtaken", "soonBack", "shownInGame"} = {} =>
        \A u \in Watched : Quiet(u) =>
            /\ page[u].start <=> game.host = u /\ game.state = "LOBBY"
            /\ page[u].stop <=> game.host = u /\ game.state = "PLAYING"
            /\ page[u].shown => (page[u].enabled <=> game.host = u /\ game.state = "LOBBY")

\* A change of the options changes only the option that its user has edited, though the
\* page sends the whole form (optionChanged_) and the server takes all of it (update): the
\* form of a page that has caught up is that of the server when it is edited, and stays so
\* until the change is made.
OnlyWhatWasEdited ==
    [][slips' \cap {"overtaken", "soonBack", "shownInGame", "hasty"} = {} =>
          \A h \in halfway \ halfway' :
             h.task = "change" => \A f \in Fields \ {h.field} : game'.options[f] = game.options[f]]_vars
=============================================================================
