------------------------------ MODULE LongPoll ------------------------------
(***************************************************************************)
(* One user's message queue on the server, the servlet that answers long   *)
(* polls from it, and the poll loop of the user's page.                    *)
(*                                                                         *)
(* The page always has at most one poll of its own: it asks, the servlet   *)
(* lets it in and waits for messages, answers, the page handles the events *)
(* of the answer, and a timer starts the next poll.  Connections break,    *)
(* answers get lost, threads of polls that the page has given up keep      *)
(* waiting and take messages with them; an administrator kicks the user,   *)
(* a time-out removes it, the server restarts.  Meanwhile the page enters  *)
(* and leaves a game with requests whose answers are not ordered with the  *)
(* events.                                                                 *)
(*                                                                         *)
(* Left out: how long a pause is (Backoff), the texts, and which of the    *)
(* many harmless events an event is ("news").                              *)
(***************************************************************************)
EXTENDS Naturals, Sequences, SequencesExt

CONSTANTS
    MaxEvents,  \* bound: events that the server queues
    PerPoll,    \* MAX_MESSAGES_PER_POLL
    MaxCuts     \* bound: polls that fail

ASSUME BoundsAssumption == MaxEvents \in Nat /\ PerPoll \in Nat \ {0} /\ MaxCuts \in Nat

VARIABLES
    queue,      \* server: User.queuedMessages, oldest first
    sent,       \* server: how many events have been queued, which numbers them
    user,       \* server: "valid", "leaving" (a kick has begun), "gone" (no longer
                \* valid, still in the session), "none" (no user in the session)
    inGame,     \* server: the user is in the game, and hears its chat
    strays,     \* server: threads that still wait for polls the page has given up
    loop,       \* page: where its poll is, "asked" (sent), "waiting" (admitted),
                \* "answered", "handling" (some of the answer has been handled),
                \* "pausing" (the timer runs), "stopped" (nothing runs)
    reply,      \* the answer under way, or what is still to be handled of it
    page,       \* page: Resume, the game is in currentGames, the events handled,
                \* and that no handler has thrown
    trip,       \* the join or leave request of the page and its answer
    cuts        \* polls that have failed

vars == <<queue, sent, user, inGame, strays, loop, reply, page, trip, cuts>>

-----------------------------------------------------------------------------
Event(n, kind) == [n |-> n, kind |-> kind]

\* An answer without events: one object instead of a list.
Single(kind) == <<Event(0, kind)>>

Numbers(events) == [i \in DOMAIN events |-> events[i].n]

\* mutant of Handled: being no longer registered does not stop the page
HandledAnyError(p, e) ==
    CASE e.kind = "chat" /\ ~p.open -> [p EXCEPT !.ok = FALSE]
      [] e.kind \in {"NOT_REGISTERED", "SESSION_EXPIRED", "NOOP"} -> p
      [] OTHER -> [p EXCEPT !.got = Append(@, e.n),
                            !.resume = @ /\ e.kind # "kicked",
                            !.open = @ /\ e.kind # "idle"]

\* An event reaches its handler.  Game chat for a game the page does not have
\* open throws.
Handled(p, e) ==
    CASE e.kind = "chat" /\ ~p.open -> [p EXCEPT !.ok = FALSE]
      [] e.kind = "NOT_REGISTERED" -> [p EXCEPT !.resume = FALSE]
      [] e.kind \in {"SESSION_EXPIRED", "NOOP"} -> p
      [] OTHER -> [p EXCEPT !.got = Append(@, e.n),
                            !.resume = @ /\ e.kind # "kicked",
                            !.open = @ /\ e.kind # "idle"]

\* complete: the next poll, unless there shall be none.
Completed(p) == IF p.resume THEN "pausing" ELSE "stopped"

\* mutant of Taken: the newest messages
TakenNewest(q) == SubSeq(q, IF Len(q) > PerPoll THEN Len(q) - PerPoll + 1 ELSE 1, Len(q))

\* The messages that one answer takes from the queue, and what it leaves.
Taken(q) == SubSeq(q, 1, IF Len(q) > PerPoll THEN PerPoll ELSE Len(q))

Left(q) == SubSeq(q, Len(Taken(q)) + 1, Len(q))

InService == user \in {"valid", "leaving"}

-----------------------------------------------------------------------------
Init ==
    /\ queue = <<>> /\ sent = 0 /\ user = "valid" /\ inGame = FALSE /\ strays = 0
    /\ loop = "asked" /\ reply = <<>> /\ trip = "none" /\ cuts = 0
    /\ page = [resume |-> TRUE, open |-> FALSE, got |-> <<>>, ok |-> TRUE]

Enqueue(kind) ==
    /\ sent < MaxEvents
    /\ sent' = sent + 1
    /\ queue' = Append(queue, Event(sent + 1, kind))

\* Something happens that the user is told about: in the server, or in its game.
News == InService /\ Enqueue("news") /\ UNCHANGED <<user, inGame, strays, loop, reply, page, trip, cuts>>

Chat ==
    /\ InService /\ inGame
    /\ Enqueue("chat")
    /\ UNCHANGED <<user, inGame, strays, loop, reply, page, trip, cuts>>

\* The game removes an idle player and tells it.
KickedFromGame ==
    /\ InService /\ inGame
    /\ inGame' = FALSE
    /\ Enqueue("idle")
    /\ UNCHANGED <<user, strays, loop, reply, page, trip, cuts>>

\* KickHandler tells the user first and removes it then.
Kick ==
    /\ user = "valid"
    /\ user' = "leaving"
    /\ Enqueue("kicked")
    /\ UNCHANGED <<inGame, strays, loop, reply, page, trip, cuts>>

\* The user is no longer valid, and in no game.
RemoveUser ==
    /\ user' = "gone" /\ inGame' = FALSE
    /\ UNCHANGED <<queue, sent, strays, loop, reply, page, trip, cuts>>

KickEnds == user = "leaving" /\ RemoveUser

\* A time-out or a logout.
TimesOut == user = "valid" /\ RemoveUser

\* The sessions, the users and their queues are gone; open connections break.
Restart ==
    /\ user # "none"
    /\ user' = "none" /\ inGame' = FALSE
    /\ queue' = <<>> /\ strays' = 0
    /\ loop' = IF loop = "waiting" THEN Completed(page) ELSE loop
    /\ UNCHANGED <<sent, reply, page, trip, cuts>>

-----------------------------------------------------------------------------
\* A request of a user that is no longer valid ends its session.
Expired(u) == IF u = "gone" THEN "none" ELSE u

\* A poll reaches the servlet.
Admit ==
    /\ loop = "asked"
    /\ IF InService
         THEN loop' = "waiting" /\ UNCHANGED reply
         ELSE /\ loop' = "answered"
              /\ reply' = Single(IF user = "gone" THEN "SESSION_EXPIRED" ELSE "NOT_REGISTERED")
    /\ user' = Expired(user)
    /\ UNCHANGED <<queue, sent, inGame, strays, page, trip, cuts>>

\* There are messages: the oldest are the answer.
Answer ==
    /\ loop = "waiting" /\ queue # <<>>
    /\ loop' = "answered"
    /\ reply' = Taken(queue) /\ queue' = Left(queue)
    /\ UNCHANGED <<sent, user, inGame, strays, page, trip, cuts>>

\* There are none until the poll times out, or another thread has been faster.
NoNews ==
    /\ loop = "waiting" /\ queue = <<>>
    /\ loop' = "answered" /\ reply' = Single("NOOP")
    /\ UNCHANGED <<queue, sent, user, inGame, strays, page, trip, cuts>>

\* The page handles the next event of the answer, and does nothing else until it
\* has handled the last one and started the timer.  An exception takes the rest
\* of the answer with it, and nothing calls complete.
Handle ==
    LET p == Handled(page, Head(reply))
    IN  /\ loop \in {"answered", "handling"}
        /\ page' = p
        /\ reply' = IF p.ok THEN Tail(reply) ELSE <<>>
        /\ loop' = CASE ~p.ok -> "stopped"
                     [] p.ok /\ Tail(reply) # <<>> -> "handling"
                     [] OTHER -> Completed(p)
        /\ UNCHANGED <<queue, sent, user, inGame, strays, trip, cuts>>

\* mutant of Fail: only a successful poll is followed by another
FailStops ==
    /\ loop \in {"asked", "waiting", "answered"} /\ cuts < MaxCuts
    /\ cuts' = cuts + 1
    /\ strays' = IF loop = "waiting" THEN strays + 1 ELSE strays
    /\ loop' = "stopped" /\ reply' = <<>>
    /\ UNCHANGED <<queue, sent, user, inGame, page, trip>>

\* The poll fails on its way, while it waits, or on its way back.
Fail ==
    /\ loop \in {"asked", "waiting", "answered"} /\ cuts < MaxCuts
    /\ cuts' = cuts + 1
    /\ strays' = IF loop = "waiting" THEN strays + 1 ELSE strays
    /\ loop' = Completed(page) /\ reply' = <<>>
    /\ UNCHANGED <<queue, sent, user, inGame, page, trip>>

\* A thread nobody listens to answers: with messages, or with none.
StrayAnswers ==
    /\ strays > 0
    /\ strays' = strays - 1
    /\ queue' = Left(queue)
    /\ UNCHANGED <<sent, user, inGame, loop, reply, page, trip, cuts>>

Timer ==
    /\ loop = "pausing"
    /\ loop' = "asked"
    /\ UNCHANGED <<queue, sent, user, inGame, strays, reply, page, trip, cuts>>

-----------------------------------------------------------------------------
\* The page asks to enter or to leave the game; its controls are gone once the
\* server has been found to be.
Ask ==
    /\ page.resume /\ trip = "none" /\ loop # "handling"
    /\ trip' = IF page.open THEN "leave" ELSE "join"
    /\ UNCHANGED <<queue, sent, user, inGame, strays, loop, reply, page, cuts>>

Serve ==
    /\ trip \in {"join", "leave"}
    /\ trip' = CASE InService /\ trip = "join" -> "joined"
                 [] InService /\ trip = "leave" /\ inGame -> "left"
                 [] OTHER -> "refused"
    /\ inGame' = (InService /\ trip = "join")
    /\ user' = Expired(user)
    /\ UNCHANGED <<queue, sent, strays, loop, reply, page, cuts>>

Learn ==
    /\ trip \in {"joined", "left", "refused"} /\ loop # "handling"
    /\ trip' = "none"
    /\ page' = [page EXCEPT !.open = CASE trip = "joined" -> TRUE
                                       [] trip = "left" -> FALSE
                                       [] OTHER -> @]
    /\ UNCHANGED <<queue, sent, user, inGame, strays, loop, reply, cuts>>

Next ==
    \/ News \/ Chat \/ KickedFromGame \/ Kick \/ KickEnds \/ TimesOut \/ Restart
    \/ Admit \/ Answer \/ NoNews \/ Handle \/ Fail \/ StrayAnswers \/ Timer
    \/ Ask \/ Serve \/ Learn

Spec == Init /\ [][Next]_vars

\* The servlet's threads, the browser and its timer go on; nobody has to fail.
Fairness ==
    /\ WF_vars(Admit) /\ WF_vars(Answer) /\ WF_vars(NoNews)
    /\ WF_vars(Handle) /\ WF_vars(Timer) /\ WF_vars(KickEnds)

FairSpec == Spec /\ Fairness

-----------------------------------------------------------------------------
\* The events on their way to the page.
Events(answer) == IF answer # <<>> /\ Head(answer).n = 0 THEN <<>> ELSE answer

InTransit == Numbers(Events(reply) \o queue)

\* The queue and the polls keep what Delivery promises: events are handled in
\* the order they were queued and at most once, whatever breaks, and none is
\* skipped while no poll has failed, the user stays and no handler has thrown
\* (User.getNextQueuedMessages, LongPollServlet.handleRequest, longpoll.done).
D == INSTANCE Delivery WITH
        channel <- InTransit,
        got <- page.got,
        lossy <- cuts > 0 \/ ~InService \/ ~page.ok

Delivers == D!Spec

\* As long as the server knows the user and no handler has thrown, an event
\* does not stay on its way: failed polls are followed by others, which hand
\* it out (longpoll.complete, longpoll.error).
Arrives ==
    \A n \in 1..MaxEvents :
        Contains(InTransit, n) ~> (~Contains(InTransit, n) \/ ~InService \/ ~page.ok)

\* The page of a user that the server has dropped, or that is lost in a restart,
\* stops polling, and for good (ErrorCodeHandlers[NOT_REGISTERED], longpoll.complete).
StopsForGood == ~InService ~> [](loop = "stopped")

\* "Will start another poll unless the previous one ended in a terminal failure":
\* a loop that has stopped was told to (longpoll.complete).
NoPollDies == loop = "stopped" => ~page.resume
=============================================================================
