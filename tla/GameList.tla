------------------------------ MODULE GameList ------------------------------
(***************************************************************************)
(* How the list of games of a page follows the games of the server: what   *)
(* changes the list asks for a broadcast, a timer task sends it, the page  *)
(* asks for the list, at once or when somebody can see it again, and shows *)
(* the answer.                                                             *)
(*                                                                         *)
(* The list is abstracted to the number of changes it shows.  listSlips is *)
(* a history variable: it names what has gone wrong since the last change, *)
(* of the three things that the code has no answer to.  The names that all *)
(* specifications have carry List, since TaskProofs extends Users, too.    *)
(***************************************************************************)
EXTENDS Naturals, Functions

CONSTANTS
    MaxChanges, \* bound: changes of the list on the server
    MaxAsked    \* bound: requests under way when the user causes another

ASSUME BoundsAssumption == MaxChanges \in Nat /\ MaxAsked \in Nat

VARIABLES
    version,    \* server: the list, as the number of its changes
    unannounced,\* server: threads that have changed the list and not yet asked
                \* for the broadcast
    needsUpdate,\* server: BroadcastGameListUpdateTask.needsUpdate
    task,       \* server: "idle", or "sent": between broadcast and reset
    again,      \* history: a broadcast was asked for while task = "sent"
    events,     \* GAME_LIST_REFRESH events on their way to the page
    asked,      \* GAME_LIST requests on their way to the server
    answers,    \* answers on their way to the page: how many of each version
    visible,    \* page: the list is shown (the page is not in a game)
    windowActive, missedGameListRefresh,
    shown,      \* page: the version that was put into the list last
    listSlips   \* history: what has gone wrong since the last change

listVars == <<version, unannounced, needsUpdate, task, again, events, asked, answers,
              visible, windowActive, missedGameListRefresh, shown, listSlips>>
server == <<version, unannounced, needsUpdate, task, again>>
page == <<visible, windowActive, missedGameListRefresh, shown>>

Versions == 0..MaxChanges

Slips == {"swallowed", "overtaken", "lost"}

\* after_registered has shown the list and asked for it.
ListInit ==
    /\ version = 0 /\ unannounced = 0 /\ needsUpdate = FALSE /\ task = "idle" /\ again = FALSE
    /\ events = 0 /\ asked = 1 /\ answers = [v \in Versions |-> 0]
    /\ visible = TRUE /\ windowActive = TRUE /\ missedGameListRefresh = FALSE
    /\ shown = 0 /\ listSlips = {}

-----------------------------------------------------------------------------
\* A game is created, destroyed, started or reset, gets a spectator or another
\* password.  (Who plays, and that somebody leaves, is not announced.)
Change ==
    /\ version < MaxChanges
    /\ version' = version + 1 /\ unannounced' = unannounced + 1
    /\ listSlips' = {}
    /\ UNCHANGED <<needsUpdate, task, again, events, asked, answers, page>>

\* broadcastGameListRefresh
Announce ==
    /\ unannounced > 0
    /\ unannounced' = unannounced - 1
    /\ needsUpdate' = TRUE /\ again' = (again \/ task = "sent")
    /\ UNCHANGED <<version, task, events, asked, answers, page, listSlips>>

\* The task runs once a second and broadcasts first ...
Broadcast ==
    /\ task = "idle" /\ needsUpdate
    /\ task' = "sent" /\ again' = FALSE
    /\ events' = events + 1
    /\ UNCHANGED <<version, unannounced, needsUpdate, asked, answers, page, listSlips>>

\* mutant of Reset: an exception in the broadcast ends the timer
ResetDies == task = "sent" /\ UNCHANGED listVars

\* ... and resets the flag then, whoever has set it meanwhile.
Reset ==
    /\ task = "sent"
    /\ task' = "idle" /\ needsUpdate' = FALSE /\ again' = FALSE
    /\ listSlips' = listSlips \cup (IF again THEN {"swallowed"} ELSE {})
    /\ UNCHANGED <<version, unannounced, events, asked, answers, page>>

\* GameListHandler answers one request.  (It reads the games one after another;
\* a change it misses is announced later.)
Serve ==
    /\ asked > 0
    /\ asked' = asked - 1
    /\ answers' = [answers EXCEPT ![version] = @ + 1]
    /\ UNCHANGED <<server, events, page, listSlips>>

-----------------------------------------------------------------------------
\* mutant of Update: only an inactive window remembers what it has missed
UpdateForgets(vis, active) ==
    IF vis /\ active
      THEN asked' = asked + 1 /\ missedGameListRefresh' = FALSE
      ELSE missedGameListRefresh' = ~active /\ UNCHANGED asked

\* GameList.update, for a list that is visible or not, in a window that is
\* active or not.
Update(vis, active) ==
    IF vis /\ active
      THEN asked' = asked + 1 /\ missedGameListRefresh' = FALSE
      ELSE missedGameListRefresh' = TRUE /\ UNCHANGED asked

Refresh ==
    /\ events > 0
    /\ events' = events - 1
    /\ Update(visible, windowActive)
    /\ UNCHANGED <<server, answers, visible, windowActive, shown, listSlips>>

\* GameList.processUpdate: whatever the answer says, in the order of arrival.
Show(v) ==
    /\ answers[v] > 0
    /\ answers' = [answers EXCEPT ![v] = @ - 1]
    /\ shown' = v
    /\ listSlips' = listSlips \cup (IF v < shown THEN {"overtaken"} ELSE {})
    /\ UNCHANGED <<server, events, asked, visible, windowActive, missedGameListRefresh>>

\* A request or an answer is lost; Ajax.error does nothing about it.
Lose ==
    /\ \/ asked > 0 /\ asked' = asked - 1 /\ UNCHANGED answers
       \/ \E v \in Versions :
            /\ answers[v] > 0
            /\ answers' = [answers EXCEPT ![v] = @ - 1] /\ UNCHANGED asked
    /\ listSlips' = listSlips \cup {"lost"}
    /\ UNCHANGED <<server, events, page>>

UnderWay == asked + SumFunction(answers)

RefreshClick ==
    /\ visible /\ windowActive /\ UnderWay < MaxAsked
    /\ Update(visible, windowActive)
    /\ UNCHANGED <<server, events, answers, visible, windowActive, shown, listSlips>>

\* The page enters a game: joinGame hides the list.
Enter ==
    /\ visible /\ visible' = FALSE
    /\ UNCHANGED <<server, events, asked, answers, windowActive, missedGameListRefresh, shown, listSlips>>

\* The page is back from a game: it shows the list and updates it.
Return ==
    /\ ~visible /\ UnderWay < MaxAsked
    /\ visible' = TRUE
    /\ Update(TRUE, windowActive)
    /\ UNCHANGED <<server, events, answers, windowActive, shown, listSlips>>

Blur ==
    /\ windowActive /\ windowActive' = FALSE
    /\ UNCHANGED <<server, events, asked, answers, visible, missedGameListRefresh, shown, listSlips>>

\* mutant of Focus: the window is active again, the list is not updated
FocusOnly ==
    /\ ~windowActive /\ UnderWay < MaxAsked
    /\ windowActive' = TRUE
    /\ UNCHANGED <<server, events, asked, answers, visible, missedGameListRefresh, shown, listSlips>>

Focus ==
    /\ ~windowActive /\ UnderWay < MaxAsked
    /\ windowActive' = TRUE
    /\ IF missedGameListRefresh THEN Update(visible, TRUE) ELSE UNCHANGED <<asked, missedGameListRefresh>>
    /\ UNCHANGED <<server, events, answers, visible, shown, listSlips>>

ListNext ==
    \/ Change \/ Announce \/ Broadcast \/ Reset \/ Serve
    \/ Refresh \/ (\E v \in Versions : Show(v)) \/ Lose
    \/ RefreshClick \/ Enter \/ Return \/ Blur \/ Focus

ListSpec == ListInit /\ [][ListNext]_listVars

\* Threads that announce, the timer of the task, the servlets, the polls of the
\* page (LongPoll!Arrives) and the browser go on.  Users and losses need not.
ListFairness ==
    /\ WF_listVars(Announce) /\ WF_listVars(Broadcast) /\ WF_listVars(Reset)
    /\ WF_listVars(Serve) /\ WF_listVars(Refresh) /\ \A v \in Versions : WF_listVars(Show(v))

FairListSpec == ListSpec /\ ListFairness

-----------------------------------------------------------------------------
TypeOK ==
    /\ version \in Versions /\ unannounced \in Nat /\ events \in Nat /\ asked \in Nat
    /\ needsUpdate \in BOOLEAN /\ task \in {"idle", "sent"} /\ again \in BOOLEAN
    /\ answers \in [Versions -> Nat]
    /\ visible \in BOOLEAN /\ windowActive \in BOOLEAN /\ missedGameListRefresh \in BOOLEAN
    /\ shown \in Versions /\ listSlips \in SUBSET Slips

\* A list that is not up to date is going to be: somebody still has to announce
\* the change, the task to broadcast it, the page to handle the event, the
\* server to answer, the page to show the answer; or the page remembers to ask
\* when somebody looks; or one of the three slips has happened since the last
\* change (BroadcastGameListUpdateTask.process, GameList.update, focus handler).
NothingForgotten ==
    \/ shown = version
    \/ unannounced > 0 \/ needsUpdate \/ events > 0 \/ asked > 0 \/ answers[version] > 0
    \/ missedGameListRefresh
    \/ listSlips # {}

\* What the page remembers to ask for, it asks for as soon as the list is both
\* visible and in an active window (GameList.update, focus handler, show).
AskedWhenSeen == missedGameListRefresh => ~(visible /\ windowActive)

\* A list that somebody looks at becomes up to date, or a slip has happened
\* since the last change: the next change repairs what the slip has broken.
BecomesFresh ==
    (visible /\ windowActive /\ shown # version)
        ~> (~visible \/ ~windowActive \/ shown = version \/ listSlips # {})
=============================================================================
