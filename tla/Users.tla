-------------------------------- MODULE Users --------------------------------
(***************************************************************************)
(* The users that are connected to the server (ConnectedUsers), by         *)
(* nickname, and what becomes of one that logs out, is kicked or is not    *)
(* heard of: it leaves the map of names, its User object becomes invalid,  *)
(* and the others are told, in steps of which some hold the lock of the    *)
(* map and some do not.  Names may be taken again in between.              *)
(*                                                                         *)
(* slips is a history variable: the names for which something has happened *)
(* that the code has no answer to.  Left out: addresses, bans, the limit   *)
(* of users (a registration may fail for that, too) and who of the others  *)
(* is told (all, or the administrators).                                   *)
(***************************************************************************)
EXTENDS Naturals, Sequences, SequencesExt, FiniteSets

CONSTANTS
    Clients,    \* browsers, which have a session each
    Nicks,      \* nicknames, in lower case
    Ids,        \* numbers that tell User objects of one name apart
    Threads,    \* threads that serve requests, numbered
    None        \* no user, no client

\* A User object; one that nothing refers to stands for new ones.
User == [nick : Nicks, id : Ids]

ASSUME UsersAssumption ==
    None \notin User \cup Clients /\ Ids \subseteq Nat /\ Threads \subseteq Nat

VARIABLES
    users,      \* ConnectedUsers.users
    valid,      \* the users whose field valid is true
    silent,     \* users in the map that have not been heard of for PING_TIMEOUT or IDLE_TIMEOUT
    session,    \* the user in the session of each client
    thread,     \* for each thread: the user and the client it acts for, and what it has yet to do
    removedUsers, \* the ping task: the users it has taken out of the map, and what each awaits
    told,       \* the names the last announcement about which says that they have come
    slips       \* history: what has gone wrong, and for which name

vars == <<users, valid, silent, session, thread, removedUsers, told, slips>>

-----------------------------------------------------------------------------
Idle == [user |-> None, client |-> None, todo |-> <<>>]

Doing(user, client, todo) == [user |-> user, client |-> client, todo |-> todo]

InMap(u) == users[u.nick] = u

Removals(u) == {r \in removedUsers : r.user = u}

\* Nothing refers to u.
Unused(u) ==
    /\ ~InMap(u) /\ u \notin valid /\ Removals(u) = {}
    /\ \A c \in Clients : session[c] # u
    /\ \A t \in Threads : thread[t].user # u

\* Which of the idle threads serves a request, and which number a new object has,
\* makes no difference: it is the first.
Serves(t) == thread[t] = Idle /\ \A s \in Threads : s < t => thread[s] # Idle

New(u) == Unused(u) /\ \A i \in Ids : i < u.id => ~Unused([u EXCEPT !.id = i])

Slip(kind, n, happened) == slips' = slips \cup (IF happened THEN {<<kind, n>>} ELSE {})

\* What has happened to the name n.
SlipsOf(n) == {s \in slips : s[2] = n}

\* Bound: when something has gone wrong, what is under way ends and nothing else begins.
Fine == slips = {}

Init ==
    /\ users = [n \in Nicks |-> None] /\ valid = {} /\ silent = {} /\ told = {}
    /\ session = [c \in Clients |-> None]
    /\ thread = [t \in Threads |-> Idle]
    /\ removedUsers = {} /\ slips = {}

-----------------------------------------------------------------------------
(* Requests. *)

\* CahServlet: a user that is no longer valid loses its session.
Expire(c) ==
    /\ session[c] \notin valid \cup {None}
    /\ session' = [session EXCEPT ![c] = None]
    /\ UNCHANGED <<users, valid, silent, thread, removedUsers, told, slips>>

\* mutant of MayRegister: the name is not looked up
MayRegisterAgain(n) == TRUE

MayRegister(n) == users[n] = None

\* RegisterHandler, up to checkAndAdd.  The session may have a user, who stays
\* behind.
Register(t, c, u) ==
    /\ Serves(t) /\ session[c] \in valid \cup {None}
    /\ Fine /\ MayRegister(u.nick) /\ New(u)
    /\ users' = [users EXCEPT ![u.nick] = u]
    /\ valid' = valid \cup {u}
    /\ told' = told \cup {u.nick}
    /\ thread' = [thread EXCEPT ![t] = Doing(u, c, <<"enter">>)]
    /\ Slip("soonBack", u.nick, \E r \in removedUsers : r.user.nick = u.nick)
    /\ UNCHANGED <<silent, session, removedUsers>>

\* A poll (or, after IDLE_TIMEOUT, another request) is served: the user has been heard of.
Poll(c) ==
    /\ session[c] \in valid \cap silent
    /\ silent' = silent \ {session[c]}
    /\ UNCHANGED <<users, valid, session, thread, removedUsers, told, slips>>

\* PING_TIMEOUT has passed since a poll, or IDLE_TIMEOUT since another request.
FallSilent(u) ==
    /\ InMap(u) /\ silent' = silent \cup {u}
    /\ UNCHANGED <<users, valid, session, thread, removedUsers, told, slips>>

Logout(t, c) ==
    /\ Fine /\ Serves(t) /\ session[c] \in valid
    /\ thread' = [thread EXCEPT ![t] = Doing(session[c], c, <<"invalidate", "remove", "close">>)]
    /\ UNCHANGED <<users, valid, silent, session, removedUsers, told, slips>>

\* KickHandler and BanHandler look the user up by name.
Kick(t, n) ==
    /\ Fine /\ Serves(t) /\ users[n] # None
    /\ thread' = [thread EXCEPT ![t] = Doing(users[n], None, <<"remove">>)]
    /\ UNCHANGED <<users, valid, silent, session, removedUsers, told, slips>>

-----------------------------------------------------------------------------
(* What the threads of requests do then. *)

Does(t, step) == thread[t].todo # <<>> /\ Head(thread[t].todo) = step

Goes(t, todo) ==
    thread' = [thread EXCEPT ![t] = IF todo = <<>> THEN Idle ELSE [@ EXCEPT !.todo = todo]]

Rest(t) == Tail(thread[t].todo)

\* The user that has been added comes into the session, unless that was closed at the
\* same time.
EnterSession(t) ==
    /\ Does(t, "enter") /\ Goes(t, Rest(t))
    /\ \/ session' = [session EXCEPT ![thread[t].client] = thread[t].user]
       \/ session[thread[t].client] = None /\ UNCHANGED session
    /\ UNCHANGED <<users, valid, silent, removedUsers, told, slips>>

\* noLongerValid
Invalidate(t) ==
    /\ Does(t, "invalidate") /\ Goes(t, Rest(t))
    /\ valid' = valid \ {thread[t].user}
    /\ UNCHANGED <<users, silent, session, removedUsers, told, slips>>

\* It throws, since the user's game is destroyed at the same time: the request is over.
InvalidateThrows(t) ==
    /\ Does(t, "invalidate") /\ thread[t].user \in valid /\ Goes(t, <<>>)
    /\ Slip("failed", thread[t].user.nick, ~InMap(thread[t].user))
    /\ UNCHANGED <<users, valid, silent, session, removedUsers, told>>

\* removeUser removes whoever has the name.
RemoveUser(t) ==
    /\ Does(t, "remove")
    /\ LET u == thread[t].user
       IN  IF users[u.nick] = None
             THEN Goes(t, Rest(t)) /\ UNCHANGED <<users, silent, told, slips>>
             ELSE /\ users' = [users EXCEPT ![u.nick] = None]
                  /\ silent' = silent \ {users[u.nick]} /\ told' = told \ {u.nick}
                  /\ Goes(t, <<"invalidate">> \o Rest(t))
                  /\ Slip("other", u.nick, ~InMap(u))
    /\ UNCHANGED <<valid, session, removedUsers>>

\* session.invalidate(), which does nothing to a session that the client has got since.
CloseSession(t) ==
    LET c == thread[t].client
    IN  /\ Does(t, "close") /\ Goes(t, Rest(t))
        /\ \/ session' = [session EXCEPT ![c] = None]
           \/ session[c] # thread[t].user /\ UNCHANGED session
        /\ UNCHANGED <<users, valid, silent, removedUsers, told, slips>>

-----------------------------------------------------------------------------
(* The ping task. *)

Silent(n) == users[n] \in silent

\* checkForPingAndIdleTimeouts, under the lock: silent users leave the map.
TakeSilent ==
    /\ removedUsers = {} /\ \E n \in Nicks : Silent(n)
    /\ users' = [n \in Nicks |-> IF Silent(n) THEN None ELSE users[n]]
    /\ removedUsers' = {[user |-> users[n], awaits |-> "invalidate"] : n \in {m \in Nicks : Silent(m)}}
    /\ silent' = {}
    /\ UNCHANGED <<valid, session, thread, told, slips>>

\* One after the other, in any order.
NextRemoved(r) ==
    /\ r.awaits = "invalidate" /\ \A s \in removedUsers : s.awaits = "invalidate"

\* mutant of DropSilent: the user is not made invalid
DropSilentStaysValid(r) ==
    /\ NextRemoved(r)
    /\ removedUsers' = (removedUsers \ {r}) \cup {[r EXCEPT !.awaits = "notify"]}
    /\ UNCHANGED <<users, valid, silent, session, thread, told, slips>>

\* Without it, and however often it has been heard of since: noLongerValid ...
DropSilent(r) ==
    /\ NextRemoved(r)
    /\ removedUsers' = (removedUsers \ {r}) \cup {[r EXCEPT !.awaits = "notify"]}
    /\ valid' = valid \ {r.user}
    /\ UNCHANGED <<users, silent, session, thread, told, slips>>

\* ... which may throw: the task goes on with the next user ...
DropSilentThrows(r) ==
    /\ NextRemoved(r) /\ r.user \in valid
    /\ removedUsers' = removedUsers \ {r}
    /\ Slip("failed", r.user.nick, TRUE)
    /\ UNCHANGED <<users, valid, silent, session, thread, told>>

\* mutant of NotifySilent: nobody is told
NotifySilentNobody(r) ==
    /\ r.awaits = "notify"
    /\ removedUsers' = removedUsers \ {r}
    /\ UNCHANGED <<users, valid, silent, session, thread, told, slips>>

\* ... and notifyRemoveUser.
NotifySilent(r) ==
    /\ r.awaits = "notify"
    /\ removedUsers' = removedUsers \ {r}
    /\ told' = told \ {r.user.nick}
    /\ UNCHANGED <<users, valid, silent, session, thread, slips>>

ThreadStep(t) ==
    \/ EnterSession(t) \/ Invalidate(t) \/ InvalidateThrows(t) \/ RemoveUser(t) \/ CloseSession(t)

TaskStep == \E r \in removedUsers : DropSilent(r) \/ DropSilentThrows(r) \/ NotifySilent(r)

Next ==
    \/ \E t \in Threads :
          \/ \E c \in Clients : Logout(t, c) \/ \E u \in User : Register(t, c, u)
          \/ \E n \in Nicks : Kick(t, n)
          \/ ThreadStep(t)
    \/ \E c \in Clients : Expire(c) \/ Poll(c)
    \/ \E u \in User : FallSilent(u)
    \/ TakeSilent \/ TaskStep

Spec == Init /\ [][Next]_vars

\* The threads of requests go on, and so does the timer with its task.
Fairness == WF_vars(TakeSilent) /\ WF_vars(TaskStep) /\ \A t \in Threads : WF_vars(ThreadStep(t))

FairSpec == Spec /\ Fairness

-----------------------------------------------------------------------------
\* A thread is removing u, or the task is.
BeingRemoved(u) ==
    \/ \E t \in Threads : thread[t].user = u /\ {"invalidate", "remove"} \cap ToSet(thread[t].todo) # {}
    \/ \E r \in Removals(u) : r.awaits = "invalidate"

\* The users in the map are those that are valid, so that each name belongs to one of
\* them and everybody who may play is told of things, can be kicked and is watched by the
\* ping task; but for users that are being removed, and for names whose new owner was
\* removed in place of the old one, or whose removal has failed (checkAndAdd, removeUser,
\* checkForPingAndIdleTimeouts).
MapAgrees ==
    \A u \in User :
        SlipsOf(u.nick) \cap ({"other", "failed"} \X Nicks) = {} =>
            (u \in valid <=> InMap(u)) \/ BeingRemoved(u)

\* Whoever has the last announcement in mind knows who is there, once the ping task has told
\* of those it has removed: registrations, departures and time-outs are announced in the
\* order in which they happen, but for a name taken again before its time-out is told.
AnnouncedRight ==
    \A n \in Nicks :
        SlipsOf(n) = {} /\ (\A r \in removedUsers : r.user.nick # n)
            => (n \in told <=> users[n] # None)

\* A user that is silent or out of the map is heard of and in the map again, or its object
\* becomes invalid, however many others come, leave and are removed: it does not stay
\* connected without being known (UserPingTask, noLongerValid).
OutMeansOver ==
    \A u \in User :
        u \in valid /\ (u \in silent \/ ~InMap(u))
            ~> (u \notin valid \/ (u \notin silent /\ InMap(u)) \/ SlipsOf(u.nick) # {})
=============================================================================
