----------------------------- MODULE TaskProofs -----------------------------
(***************************************************************************)
(* The two tasks that the server's timer runs, with all that they race     *)
(* with: Users (UserPingTask, and the requests that come and go meanwhile) *)
(* and GameList (BroadcastGameListUpdateTask, and the page that it tells)  *)
(* keep their invariants, for any clients, names, users and threads, any   *)
(* number of changes and of requests under way.                            *)
(***************************************************************************)
EXTENDS Users, GameList, SequenceTheorems, TLAPS

Kinds == {"other", "failed", "soonBack"}

\* What a thread may have yet to do: after a registration, a logout or a kick.
Todos ==
    { <<>>, <<"enter">>,
      <<"invalidate", "remove", "close">>, <<"remove", "close">>,
      <<"invalidate", "close">>, <<"close">>,
      <<"remove">>, <<"invalidate">> }

\* The last word about a user whose name it has freed.
Final == {<<"invalidate">>, <<"invalidate", "close">>}

Types ==
    /\ users \in [Nicks -> User \cup {None}]
    /\ \A n \in Nicks : users[n] # None => users[n].nick = n
    /\ valid \subseteq User
    /\ silent \subseteq {u \in User : InMap(u)}
    /\ told \subseteq Nicks
    /\ removedUsers \subseteq [user : User, awaits : {"invalidate", "notify"}]
    /\ slips \subseteq Kinds \X Nicks

ThreadsOK ==
    /\ session \in [Clients -> User \cup {None}]
    /\ thread \in [Threads -> [user : User \cup {None}, client : Clients \cup {None}, todo : Todos]]
    /\ \A t \in Threads : thread[t].user = None => thread[t].todo = <<>>

\* A user that is being invalidated after it has left the map does not come back.
StaysOut ==
    /\ \A t \in Threads : thread[t].todo \in Final => ~InMap(thread[t].user)
    /\ \A r \in removedUsers : ~InMap(r.user)

\* Somebody is going to make u invalid, u having left the map.
BeingInvalidated(u) ==
    \/ \E t \in Threads :
          /\ thread[t].user = u
          /\ thread[t].todo \in Final \cup {<<"invalidate", "remove", "close">>}
    \/ \E r \in removedUsers : r.user = u /\ r.awaits = "invalidate"

\* That has failed, or another has left the map in u's place.
Failed(u) == \E k \in {"other", "failed"} : <<k, u.nick>> \in slips

\* Who is valid is in the map, but for those.
Doomed == \A u \in valid : InMap(u) \/ BeingInvalidated(u) \/ Failed(u)

LoggingOut(u) == \E t \in Threads : thread[t].user = u /\ thread[t].todo = <<"remove", "close">>

\* Who is in the map is valid, or is logging out.
Leaving == \A u \in User : InMap(u) => u \in valid \/ LoggingOut(u)

\* Something has gone wrong about the name n.
Slipped(n) == \E k \in Kinds : <<k, n>> \in slips

\* Nobody has a name again whose owner the ping task has yet to tell of.
NotBack ==
    \A r \in removedUsers :
        users[r.user.nick] = None \/ Slipped(r.user.nick)

\* Otherwise the announcements are right.
Announced ==
    \A n \in Nicks :
        \/ Slipped(n)
        \/ \E r \in removedUsers : r.user.nick = n
        \/ n \in told <=> users[n] # None

IInv == Types /\ ThreadsOK /\ StaysOut /\ Doomed /\ Leaving /\ NotBack /\ Announced

-----------------------------------------------------------------------------
(* What the steps of a thread are.                                         *)

LEMMA NoneIsNoUser == None \notin User /\ None \notin Clients
  BY UsersAssumption

LEMMA UserFields == \A u \in User : u.nick \in Nicks /\ u.id \in Ids
  BY DEF User

LEMMA ConcatOfTwo == ASSUME NEW a, NEW b PROVE <<a>> \o <<b>> = <<a, b>>
  <1> DEFINE S == {a, b}
             s == <<a>> \o <<b>>
             p == <<a, b>>
  <1>1. <<a>> \in Seq(S) /\ <<b>> \in Seq(S) /\ p \in Seq(S)
    OBVIOUS
  <1>2. Len(<<a>>) = 1 /\ Len(<<b>>) = 1 /\ Len(p) = 2
    OBVIOUS
  <1>3. s \in Seq(S) /\ Len(s) = 2
    BY <1>1, <1>2, ConcatProperties
  <1>4. s[1] = a /\ s[2] = b
    BY <1>1, <1>2, ConcatProperties
  <1>5. p[1] = a /\ p[2] = b
    OBVIOUS
  <1> HIDE DEF s, p, S
  <1>6. \A i \in 1 .. Len(s) : s[i] = p[i]
    BY <1>3, <1>4, <1>5
  <1>7. s = p
    BY <1>1, <1>2, <1>3, <1>6, SeqEqual
  <1> QED
    BY <1>7 DEF s, p

\* The head of what is to be done tells the step, and its tail what is left.
LEMMA DoesFacts ==
    ASSUME ThreadsOK, NEW t \in Threads
    PROVE  /\ Does(t, "enter") => thread[t].todo = <<"enter">> /\ Rest(t) = <<>>
           /\ Does(t, "close") => thread[t].todo = <<"close">> /\ Rest(t) = <<>>
           /\ Does(t, "remove") =>
                 \/ thread[t].todo = <<"remove">> /\ Rest(t) = <<>>
                 \/ thread[t].todo = <<"remove", "close">> /\ Rest(t) = <<"close">>
           /\ Does(t, "invalidate") =>
                 \/ thread[t].todo = <<"invalidate">> /\ Rest(t) = <<>>
                 \/ thread[t].todo = <<"invalidate", "close">> /\ Rest(t) = <<"close">>
                 \/ /\ thread[t].todo = <<"invalidate", "remove", "close">>
                    /\ Rest(t) = <<"remove", "close">>
           /\ \A step \in {"enter", "close", "remove", "invalidate"} :
                 Does(t, step) => thread[t].user \in User
  <1>1. thread[t].todo \in Todos /\ (thread[t].todo # <<>> => thread[t].user \in User)
    BY DEF ThreadsOK
  <1> DEFINE todo == thread[t].todo
  <1>2. CASE todo = <<>>
    BY <1>2 DEF Does
  <1>3. CASE todo = <<"enter">>
    BY <1>1, <1>3 DEF Does, Rest, Todos
  <1>4. CASE todo = <<"close">>
    BY <1>1, <1>4 DEF Does, Rest, Todos
  <1>5. CASE todo = <<"remove">>
    BY <1>1, <1>5 DEF Does, Rest, Todos
  <1>6. CASE todo = <<"remove", "close">>
    BY <1>1, <1>6 DEF Does, Rest, Todos
  <1>7. CASE todo = <<"invalidate">>
    BY <1>1, <1>7 DEF Does, Rest, Todos
  <1>8. CASE todo = <<"invalidate", "close">>
    BY <1>1, <1>8 DEF Does, Rest, Todos
  <1>9. CASE todo = <<"invalidate", "remove", "close">>
    BY <1>1, <1>9 DEF Does, Rest, Todos
  <1> QED
    BY <1>1, <1>2, <1>3, <1>4, <1>5, <1>6, <1>7, <1>8, <1>9 DEF Todos

\* Only a thread that acts for a user has something to do.
LEMMA ActsForUser ==
    ASSUME ThreadsOK, NEW t \in Threads, thread[t].todo # <<>>  \/ thread[t].todo \in Final
    PROVE  thread[t].user \in User
  <1>1. <<>> \notin Final
    BY DEF Final
  <1> QED
    BY <1>1 DEF ThreadsOK

LEMMA GoesFacts ==
    ASSUME ThreadsOK, NEW t \in Threads, NEW todo \in Todos, Goes(t, todo)
    PROVE  /\ thread' \in [Threads -> [user : User \cup {None}, client : Clients \cup {None}, todo : Todos]]
           /\ \A s \in Threads : s # t => thread'[s] = thread[s]
           /\ thread'[t].todo = todo
           /\ thread'[t].user = IF todo = <<>> THEN None ELSE thread[t].user
  <1>1. CASE todo = <<>>
    BY <1>1 DEF Goes, ThreadsOK, Idle, Todos
  <1>2. CASE todo # <<>>
    BY <1>2 DEF Goes, ThreadsOK
  <1> QED
    BY <1>1, <1>2

LEMMA BeginsFacts ==
    ASSUME ThreadsOK, NEW t \in Threads, NEW u \in User, NEW c \in Clients \cup {None},
           NEW todo \in Todos \ {<<>>},
           thread' = [thread EXCEPT ![t] = Doing(u, c, todo)]
    PROVE  /\ thread' \in [Threads -> [user : User \cup {None}, client : Clients \cup {None}, todo : Todos]]
           /\ \A s \in Threads : s # t => thread'[s] = thread[s]
           /\ thread'[t].todo = todo /\ thread'[t].user = u
  BY DEF Doing, ThreadsOK

LEMMA SlipFacts ==
    ASSUME slips \subseteq Kinds \X Nicks, NEW kind \in Kinds, NEW n \in Nicks,
           NEW happened \in BOOLEAN, Slip(kind, n, happened)
    PROVE  /\ slips \subseteq slips' /\ slips' \subseteq Kinds \X Nicks
           /\ happened => <<kind, n>> \in slips'
  BY DEF Slip

-----------------------------------------------------------------------------
(* Every step keeps the invariant.                                         *)

LEMMA InitIInv == Init => IInv
  <1> SUFFICES ASSUME Init PROVE IInv
    OBVIOUS
  <1>1. Types
    BY DEF Init, Types
  <1>2. ThreadsOK
    BY DEF Init, ThreadsOK, Idle, Todos
  <1>3. StaysOut /\ NotBack /\ Announced
    BY DEF Init, StaysOut, NotBack, Announced, Slipped, Idle, Final
  <1>4. Doomed /\ Leaving
    BY NoneIsNoUser, UserFields DEF Init, Doomed, Leaving, InMap
  <1> QED
    BY <1>1, <1>2, <1>3, <1>4 DEF IInv

\* A step that changes only who is in which session or who has not been heard of.
LEMMA SessionStep ==
    ASSUME IInv, UNCHANGED <<users, valid, thread, removedUsers, told, slips>>,
           silent' \subseteq {u \in User : InMap(u)},
           session' \in [Clients -> User \cup {None}]
    PROVE  IInv'
  <1>1. Types'
    BY DEF IInv, Types, InMap
  <1>2. ThreadsOK'
    BY DEF IInv, ThreadsOK
  <1> QED
    BY <1>1, <1>2
       DEF IInv, StaysOut, Doomed, BeingInvalidated, Failed, Leaving, LoggingOut, NotBack, Announced, Slipped, InMap

\* A thread begins with something: it is not yet removing anybody.
LEMMA BeginsStep ==
    ASSUME IInv, NEW t \in Threads, thread[t] = Idle,
           NEW u \in User, NEW c \in Clients \cup {None},
           NEW todo \in {<<"invalidate", "remove", "close">>, <<"remove">>},
           thread' = [thread EXCEPT ![t] = Doing(u, c, todo)],
           UNCHANGED <<users, valid, silent, session, removedUsers, told, slips>>
    PROVE  IInv'
  <1>1. todo \in Todos \ {<<>>} /\ todo \notin Final
    BY DEF Todos, Final
  <1>2. /\ thread' \in [Threads -> [user : User \cup {None}, client : Clients \cup {None}, todo : Todos]]
        /\ \A s \in Threads : s # t => thread'[s] = thread[s]
        /\ thread'[t].todo = todo /\ thread'[t].user = u
    BY <1>1, BeginsFacts DEF IInv
  <1>3. Types'
    BY DEF IInv, Types, InMap
  <1>4. ThreadsOK'
    BY <1>1, <1>2, NoneIsNoUser DEF IInv, ThreadsOK
  <1>5. StaysOut'
    BY <1>1, <1>2 DEF IInv, StaysOut, InMap
  <1>6. Doomed' /\ Leaving'
    <2>1. thread[t].user = None
      BY DEF Idle
    <2>2. \A s \in Threads : thread[s].user \in User => thread'[s] = thread[s]
      BY <1>2, <2>1, NoneIsNoUser
    <2>3. ASSUME NEW v \in User
          PROVE  /\ BeingInvalidated(v) => BeingInvalidated(v)'
                 /\ LoggingOut(v) => LoggingOut(v)'
      BY <2>2 DEF BeingInvalidated, LoggingOut
    <2>4. Doomed'
      BY <2>3 DEF IInv, Types, Doomed, InMap, Failed
    <2>5. Leaving'
      BY <2>3 DEF IInv, Leaving, InMap
    <2> QED
      BY <2>4, <2>5
  <1>7. NotBack' /\ Announced'
    BY DEF IInv, NotBack, Announced, Slipped
  <1> QED
    BY <1>3, <1>4, <1>5, <1>6, <1>7 DEF IInv

\* What a thread does changes nothing for the users it does not act for.
LEMMA OthersKept ==
    ASSUME ThreadsOK, NEW t \in Threads, \A s \in Threads : s # t => thread'[s] = thread[s],
           NEW v \in User,
           \/ v # thread[t].user
           \/ thread[t].todo \in {<<"enter">>, <<"close">>, <<"remove">>}
    PROVE  /\ BeingInvalidated(v) /\ removedUsers' = removedUsers => BeingInvalidated(v)'
           /\ LoggingOut(v) => LoggingOut(v)'
  <1>1. thread[t].todo \in Final \cup {<<"invalidate", "remove", "close">>, <<"remove", "close">>}
           => v # thread[t].user
    BY DEF Final
  <1>2. LoggingOut(v) => LoggingOut(v)'
    BY <1>1 DEF LoggingOut
  <1>3. BeingInvalidated(v) /\ removedUsers' = removedUsers => BeingInvalidated(v)'
    BY <1>1 DEF BeingInvalidated
  <1> QED
    BY <1>2, <1>3

\* The end of a registration or of a logout changes only a session.
LEMMA EndsStep ==
    ASSUME IInv, NEW t \in Threads, Goes(t, <<>>),
           thread[t].todo \in {<<"enter">>, <<"close">>, <<"remove">>},
           UNCHANGED <<users, valid, silent, removedUsers, told, slips>>,
           session' \in [Clients -> User \cup {None}]
    PROVE  IInv'
  <1>1. <<>> \in Todos /\ <<>> \notin Final
    BY DEF Todos, Final
  <1>2. /\ thread' \in [Threads -> [user : User \cup {None}, client : Clients \cup {None}, todo : Todos]]
        /\ \A s \in Threads : s # t => thread'[s] = thread[s]
        /\ thread'[t].todo = <<>>
    BY <1>1, GoesFacts DEF IInv
  <1>3. Types'
    BY DEF IInv, Types, InMap
  <1>4. ThreadsOK'
    BY <1>2 DEF IInv, ThreadsOK
  <1>5. StaysOut'
    BY <1>1, <1>2 DEF IInv, StaysOut, InMap
  <1>6. ASSUME NEW v \in User
        PROVE  /\ BeingInvalidated(v) => BeingInvalidated(v)'
               /\ LoggingOut(v) => LoggingOut(v)'
    BY <1>2, OthersKept DEF IInv
  <1>7. Doomed' /\ Leaving'
    BY <1>6 DEF IInv, Types, Doomed, Leaving, InMap, Failed
  <1>8. NotBack' /\ Announced'
    BY DEF IInv, NotBack, Announced, Slipped
  <1> QED
    BY <1>3, <1>4, <1>5, <1>7, <1>8 DEF IInv

LEMMA EnterSessionStep == ASSUME IInv, NEW t \in Threads, EnterSession(t) PROVE IInv'
  <1>1. thread[t].todo = <<"enter">> /\ Rest(t) = <<>> /\ thread[t].user \in User
    BY DoesFacts DEF IInv, EnterSession
  <1>2. session' \in [Clients -> User \cup {None}]
    BY <1>1 DEF IInv, ThreadsOK, EnterSession
  <1> QED
    BY <1>1, <1>2, EndsStep DEF EnterSession

LEMMA CloseSessionStep == ASSUME IInv, NEW t \in Threads, CloseSession(t) PROVE IInv'
  <1>1. thread[t].todo = <<"close">> /\ Rest(t) = <<>>
    BY DoesFacts DEF IInv, CloseSession
  <1>2. session' \in [Clients -> User \cup {None}]
    BY DEF IInv, ThreadsOK, CloseSession
  <1> QED
    BY <1>1, <1>2, EndsStep DEF CloseSession

LEMMA RegisterStep ==
    ASSUME IInv, NEW t \in Threads, NEW c \in Clients, NEW u \in User, Register(t, c, u)
    PROVE  IInv'
  <1>1. /\ thread[t] = Idle /\ Unused(u) /\ users[u.nick] = None
        /\ users' = [users EXCEPT ![u.nick] = u]
        /\ valid' = valid \cup {u} /\ told' = told \cup {u.nick}
        /\ thread' = [thread EXCEPT ![t] = Doing(u, c, <<"enter">>)]
        /\ Slip("soonBack", u.nick, \E r \in removedUsers : r.user.nick = u.nick)
        /\ UNCHANGED <<silent, session, removedUsers>>
    BY DEF Register, Serves, New, MayRegister
  <1>2. <<"enter">> \in Todos \ {<<>>} /\ <<"enter">> \notin Final
    BY DEF Todos, Final
  <1>3. /\ thread' \in [Threads -> [user : User \cup {None}, client : Clients \cup {None}, todo : Todos]]
        /\ \A s \in Threads : s # t => thread'[s] = thread[s]
        /\ thread'[t].todo = <<"enter">> /\ thread'[t].user = u
    BY <1>1, <1>2, BeginsFacts DEF IInv
  <1>4. /\ slips \subseteq slips' /\ slips' \subseteq Kinds \X Nicks
        /\ (\E r \in removedUsers : r.user.nick = u.nick) => <<"soonBack", u.nick>> \in slips'
    BY <1>1, SlipFacts, UserFields DEF IInv, Types, Kinds
  <1>5. u.nick \in Nicks
    BY UserFields
  <1>6. /\ \A n \in Nicks : n # u.nick => users'[n] = users[n]
        /\ users'[u.nick] = u
    BY <1>1, <1>5 DEF IInv, Types
  <1>7. \A v \in User : users'[v.nick] = v <=> InMap(v) \/ v = u
    BY <1>1, <1>5, <1>6, NoneIsNoUser, UserFields DEF InMap
  <1>8. Types'
    <2>1. /\ users' \in [Nicks -> User \cup {None}]
          /\ \A n \in Nicks : users'[n] # None => users'[n].nick = n
      BY <1>1, <1>5, <1>6 DEF IInv, Types
    <2>2. silent' \subseteq {v \in User : users'[v.nick] = v}
      BY <1>1, <1>7 DEF IInv, Types
    <2> QED
      BY <1>1, <1>4, <1>5, <2>1, <2>2 DEF IInv, Types, InMap
  <1>9. ThreadsOK'
    BY <1>1, <1>2, <1>3, NoneIsNoUser DEF IInv, ThreadsOK
  <1>10. StaysOut'
    <2>1. \A s \in Threads : thread[s].user # u
      BY <1>1 DEF Unused
    <2>2. \A r \in removedUsers : r.user # u
      BY <1>1 DEF Unused, Removals
    <2>3. \A r \in removedUsers : r.user \in User
      BY DEF IInv, Types
    <2>4. \A s \in Threads : thread[s].todo \in Final => thread[s].user \in User
      BY ActsForUser DEF IInv
    <2>5. \A r \in removedUsers' : users'[r.user.nick] # r.user
      BY <1>1, <1>7, <2>2, <2>3 DEF IInv, StaysOut
    <2>6. ASSUME NEW s \in Threads, thread'[s].todo \in Final
          PROVE  users'[thread'[s].user.nick] # thread'[s].user
      <3>1. s # t /\ thread'[s] = thread[s]
        BY <1>2, <1>3, <2>6
      <3>2. thread[s].user \in User /\ ~InMap(thread[s].user) /\ thread[s].user # u
        BY <2>1, <2>4, <2>6, <3>1 DEF IInv, StaysOut
      <3> QED
        BY <1>7, <3>1, <3>2
    <2> QED
      BY <2>5, <2>6 DEF StaysOut, InMap
  <1>11. ASSUME NEW v \in User
         PROVE  /\ BeingInvalidated(v) => BeingInvalidated(v)'
                /\ LoggingOut(v) => LoggingOut(v)'
    <2>1. thread[t].user # v
      BY <1>1, NoneIsNoUser DEF Idle
    <2> QED
      BY <1>1, <1>3, <2>1, OthersKept DEF IInv
  <1>12. Doomed'
    <2> SUFFICES ASSUME NEW v \in valid', users'[v.nick] # v
                 PROVE  BeingInvalidated(v)' \/ Failed(v)'
      BY DEF Doomed, InMap
    <2>1. v \in User /\ v \in valid /\ ~InMap(v)
      BY <1>1, <1>7 DEF IInv, Types
    <2> QED
      BY <1>4, <1>11, <2>1 DEF IInv, Doomed, Failed
  <1>13. Leaving'
    BY <1>1, <1>7, <1>11 DEF IInv, Leaving, InMap
  <1>14. \A n \in Nicks : Slipped(n) => Slipped(n)'
    BY <1>4 DEF Slipped
  <1>15. NotBack'
    <2> SUFFICES ASSUME NEW r \in removedUsers, users'[r.user.nick] # None
                 PROVE  Slipped(r.user.nick)'
      BY <1>1 DEF NotBack
    <2>1. r.user.nick \in Nicks
      BY UserFields DEF IInv, Types
    <2>2. CASE r.user.nick = u.nick
      BY <1>4, <2>2 DEF Slipped, Kinds
    <2>3. CASE r.user.nick # u.nick
      BY <1>6, <1>14, <2>1, <2>3 DEF IInv, NotBack
    <2> QED
      BY <2>2, <2>3
  <1>16. Announced'
    BY <1>1, <1>5, <1>6, <1>14, NoneIsNoUser DEF IInv, Announced
  <1> QED
    BY <1>8, <1>9, <1>10, <1>12, <1>13, <1>15, <1>16 DEF IInv

\* A thread has invalidated its user; if that was out of the map, all is said.
LEMMA InvalidateStep == ASSUME IInv, NEW t \in Threads, Invalidate(t) PROVE IInv'
  <1> DEFINE u == thread[t].user
  <1>1. /\ Goes(t, Rest(t)) /\ valid' = valid \ {u}
        /\ UNCHANGED <<users, silent, session, removedUsers, told, slips>>
    BY DEF Invalidate
  <1>2. /\ u \in User
        /\ \/ thread[t].todo \in Final /\ Rest(t) \in {<<>>, <<"close">>}
           \/ /\ thread[t].todo = <<"invalidate", "remove", "close">>
              /\ Rest(t) = <<"remove", "close">>
    BY DoesFacts DEF IInv, Invalidate, Final
  <1>3. Rest(t) \in Todos /\ Rest(t) \notin Final
    <2> DEFINE r == Rest(t)
    <2>1. r \in {<<>>, <<"close">>, <<"remove", "close">>}
      BY <1>2
    <2> HIDE DEF r
    <2>2. r \in Todos /\ r \notin Final
      BY <2>1 DEF Todos, Final
    <2> QED
      BY <2>2 DEF r
  <1>4. /\ thread' \in [Threads -> [user : User \cup {None}, client : Clients \cup {None}, todo : Todos]]
        /\ \A s \in Threads : s # t => thread'[s] = thread[s]
        /\ thread'[t].todo = Rest(t)
        /\ thread'[t].user = IF Rest(t) = <<>> THEN None ELSE u
    BY <1>1, <1>3, GoesFacts DEF IInv
  <1> HIDE DEF u
  <1>5. Types'
    BY <1>1 DEF IInv, Types, InMap
  <1>6. ThreadsOK'
    BY <1>1, <1>2, <1>4, NoneIsNoUser DEF IInv, ThreadsOK
  <1>7. StaysOut'
    BY <1>1, <1>3, <1>4 DEF IInv, StaysOut, InMap
  <1>8. ASSUME NEW v \in User, v # u
        PROVE  /\ BeingInvalidated(v) => BeingInvalidated(v)'
               /\ LoggingOut(v) => LoggingOut(v)'
    BY <1>1, <1>4, <1>8, OthersKept DEF IInv, u
  <1>9. Doomed'
    <2> SUFFICES ASSUME NEW v \in valid', users'[v.nick] # v
                 PROVE  BeingInvalidated(v)' \/ Failed(v)'
      BY DEF Doomed, InMap
    <2>1. v \in User /\ v \in valid /\ ~InMap(v) /\ v # u
      BY <1>1 DEF IInv, Types, InMap
    <2> QED
      BY <1>1, <1>8, <2>1 DEF IInv, Doomed, Failed
  <1>10. Leaving'
    <2> SUFFICES ASSUME NEW v \in User, users'[v.nick] = v, v \notin valid'
                 PROVE  LoggingOut(v)'
      BY DEF Leaving, InMap
    <2>1. CASE v # u
      BY <1>1, <1>8, <2>1 DEF IInv, Leaving, InMap
    <2>2. CASE v = u
      <3>1. thread[t].todo \notin Final
        BY <1>1, <2>2 DEF IInv, StaysOut, InMap, u
      <3>2. thread'[t].todo = <<"remove", "close">> /\ thread'[t].user = u
        BY <1>2, <1>4, <3>1
      <3> QED
        BY <2>2, <3>2 DEF LoggingOut
    <2> QED
      BY <2>1, <2>2
  <1>11. NotBack' /\ Announced'
    BY <1>1 DEF IInv, NotBack, Announced, Slipped
  <1> QED
    BY <1>5, <1>6, <1>7, <1>9, <1>10, <1>11 DEF IInv

\* A thread that fails to invalidate its user is done with it: that is recorded if the
\* user was out of the map.
LEMMA InvalidateThrowsStep == ASSUME IInv, NEW t \in Threads, InvalidateThrows(t) PROVE IInv'
  <1> DEFINE u == thread[t].user
  <1>1. /\ Goes(t, <<>>) /\ Slip("failed", u.nick, ~InMap(u)) /\ u \in valid
        /\ UNCHANGED <<users, valid, silent, session, removedUsers, told>>
    BY DEF InvalidateThrows
  <1>2. u \in User /\ u.nick \in Nicks
    BY <1>1, UserFields DEF IInv, Types
  <1>3. /\ slips \subseteq slips' /\ slips' \subseteq Kinds \X Nicks
        /\ ~InMap(u) => <<"failed", u.nick>> \in slips'
    BY <1>1, <1>2, SlipFacts DEF IInv, Types, Kinds, InMap
  <1>4. <<>> \in Todos /\ <<>> \notin Final
    BY DEF Todos, Final
  <1>5. /\ thread' \in [Threads -> [user : User \cup {None}, client : Clients \cup {None}, todo : Todos]]
        /\ \A s \in Threads : s # t => thread'[s] = thread[s]
        /\ thread'[t].todo = <<>>
    BY <1>1, <1>4, GoesFacts DEF IInv
  <1> HIDE DEF u
  <1>6. Types'
    BY <1>1, <1>3 DEF IInv, Types, InMap
  <1>7. ThreadsOK'
    BY <1>1, <1>5 DEF IInv, ThreadsOK
  <1>8. StaysOut'
    BY <1>1, <1>4, <1>5 DEF IInv, StaysOut, InMap
  <1>9. ASSUME NEW v \in User, v # u
        PROVE  /\ BeingInvalidated(v) => BeingInvalidated(v)'
               /\ LoggingOut(v) => LoggingOut(v)'
    BY <1>1, <1>5, <1>9, OthersKept DEF IInv, u
  <1>10. Doomed'
    <2> SUFFICES ASSUME NEW v \in valid', users'[v.nick] # v
                 PROVE  BeingInvalidated(v)' \/ Failed(v)'
      BY DEF Doomed, InMap
    <2>1. v \in User /\ v \in valid /\ ~InMap(v)
      BY <1>1 DEF IInv, Types, InMap
    <2>2. CASE v = u
      BY <1>3, <2>1, <2>2 DEF Failed
    <2>3. CASE v # u
      BY <1>3, <1>9, <2>1, <2>3 DEF IInv, Doomed, Failed
    <2> QED
      BY <2>2, <2>3
  <1>11. Leaving'
    BY <1>1, <1>9 DEF IInv, Leaving, InMap
  <1>12. NotBack' /\ Announced'
    BY <1>1, <1>3 DEF IInv, NotBack, Announced, Slipped
  <1> QED
    BY <1>6, <1>7, <1>8, <1>10, <1>11, <1>12 DEF IInv

\* Whoever has the name is removed; unless it was the thread's own user, that is recorded.
LEMMA RemoveUserStep == ASSUME IInv, NEW t \in Threads, RemoveUser(t) PROVE IInv'
  <1> DEFINE u == thread[t].user
             n == u.nick
  <1>1. /\ u \in User /\ n \in Nicks
        /\ \/ thread[t].todo = <<"remove">> /\ Rest(t) = <<>>
           \/ thread[t].todo = <<"remove", "close">> /\ Rest(t) = <<"close">>
    BY DoesFacts, UserFields DEF IInv, RemoveUser
  <1>2. UNCHANGED <<valid, session, removedUsers>>
    BY DEF RemoveUser
  <1>3. CASE users[n] = None
    <2>1. Goes(t, Rest(t)) /\ UNCHANGED <<users, silent, told, slips>>
      BY <1>3 DEF RemoveUser
    <2>2. Rest(t) \in Todos /\ Rest(t) \notin Final
      BY <1>1 DEF Todos, Final
    <2>3. /\ thread' \in [Threads -> [user : User \cup {None}, client : Clients \cup {None}, todo : Todos]]
          /\ \A s \in Threads : s # t => thread'[s] = thread[s]
          /\ thread'[t].todo = Rest(t)
          /\ thread'[t].user = IF Rest(t) = <<>> THEN None ELSE u
      BY <2>1, <2>2, GoesFacts DEF IInv
    <2> HIDE DEF u, n
    <2>4. ~InMap(u)
      BY <1>1, <1>3, NoneIsNoUser DEF InMap, n
    <2>5. Types'
      BY <1>2, <2>1 DEF IInv, Types, InMap
    <2>6. ThreadsOK'
      BY <1>1, <1>2, <2>3, NoneIsNoUser DEF IInv, ThreadsOK
    <2>7. StaysOut'
      BY <1>2, <2>1, <2>2, <2>3 DEF IInv, StaysOut, InMap
    <2>8. \A s \in Threads :
             thread[s].todo \in Final \cup {<<"invalidate", "remove", "close">>} => thread'[s] = thread[s]
      BY <1>1, <2>3 DEF Final
    <2>9. \A v \in User : BeingInvalidated(v) => BeingInvalidated(v)'
      BY <1>2, <2>8 DEF BeingInvalidated
    <2>10. \A v \in User : v # u /\ LoggingOut(v) => LoggingOut(v)'
      BY <2>3, OthersKept DEF IInv, u
    <2>11. Doomed'
      BY <1>2, <2>1, <2>9 DEF IInv, Types, Doomed, Failed, InMap
    <2>12. Leaving'
      BY <1>2, <2>1, <2>4, <2>10 DEF IInv, Leaving, InMap
    <2>13. NotBack' /\ Announced'
      BY <1>2, <2>1 DEF IInv, NotBack, Announced, Slipped
    <2> QED
      BY <2>5, <2>6, <2>7, <2>11, <2>12, <2>13 DEF IInv
  <1>4. CASE users[n] # None
    <2>1. /\ users' = [users EXCEPT ![n] = None]
          /\ silent' = silent \ {users[n]} /\ told' = told \ {n}
          /\ Goes(t, <<"invalidate">> \o Rest(t))
          /\ Slip("other", n, ~InMap(u))
      BY <1>4 DEF RemoveUser
    <2>2. <<"invalidate">> \o Rest(t) \in Todos \ {<<>>} /\ <<"invalidate">> \o Rest(t) \in Final
      <3>1. CASE Rest(t) = <<>>
        BY <3>1 DEF Todos, Final
      <3>2. CASE Rest(t) = <<"close">>
        <4>1. <<"invalidate">> \o <<"close">> = <<"invalidate", "close">>
          BY ConcatOfTwo
        <4> QED
          BY <3>2, <4>1 DEF Todos, Final
      <3> QED
        BY <1>1, <3>1, <3>2
    <2>3. /\ thread' \in [Threads -> [user : User \cup {None}, client : Clients \cup {None}, todo : Todos]]
          /\ \A s \in Threads : s # t => thread'[s] = thread[s]
          /\ thread'[t].todo \in Final /\ thread'[t].user = u
      BY <2>1, <2>2, GoesFacts DEF IInv
    <2>4. /\ slips \subseteq slips' /\ slips' \subseteq Kinds \X Nicks
          /\ ~InMap(u) => <<"other", n>> \in slips'
      BY <1>1, <2>1, SlipFacts DEF IInv, Types, Kinds, InMap
    <2> HIDE DEF u, n
    <2>5. /\ \A m \in Nicks : m # n => users'[m] = users[m]
          /\ users'[n] = None
      BY <1>1, <2>1 DEF IInv, Types
    <2>6. \A v \in User : users'[v.nick] = v <=> InMap(v) /\ v.nick # n
      BY <2>5, NoneIsNoUser, UserFields DEF InMap
    <2>7. Types'
      <3>1. /\ users' \in [Nicks -> User \cup {None}]
            /\ \A m \in Nicks : users'[m] # None => users'[m].nick = m
        BY <1>1, <2>1, <2>5 DEF IInv, Types
      <3>2. silent' \subseteq {v \in User : users'[v.nick] = v}
        BY <2>1, <2>6 DEF IInv, Types, InMap
      <3> QED
        BY <1>2, <2>1, <2>4, <3>1, <3>2 DEF IInv, Types, InMap
    <2>8. ThreadsOK'
      BY <1>1, <1>2, <2>3, NoneIsNoUser DEF IInv, ThreadsOK
    <2>9. StaysOut'
      <3>1. \A r \in removedUsers' : users'[r.user.nick] # r.user
        BY <1>2, <2>6 DEF IInv, StaysOut, Types
      <3>2. ASSUME NEW s \in Threads, thread'[s].todo \in Final
            PROVE  users'[thread'[s].user.nick] # thread'[s].user
        <4>1. CASE s = t
          BY <1>1, <2>3, <2>6, <4>1 DEF n
        <4>2. CASE s # t
          <5>1. thread[s].user \in User /\ ~InMap(thread[s].user) /\ thread'[s] = thread[s]
            BY <2>3, <3>2, <4>2, ActsForUser DEF IInv, StaysOut
          <5> QED
            BY <2>6, <5>1
        <4> QED
          BY <4>1, <4>2
      <3> QED
        BY <3>1, <3>2 DEF StaysOut, InMap
    <2>10. \A s \in Threads :
              thread[s].todo \in Final \cup {<<"invalidate", "remove", "close">>} => thread'[s] = thread[s]
      BY <1>1, <2>3 DEF Final
    <2>11. \A v \in User : BeingInvalidated(v) => BeingInvalidated(v)'
      BY <1>2, <2>10 DEF BeingInvalidated
    <2>12. \A v \in User : v = u => BeingInvalidated(v)'
      BY <2>3 DEF BeingInvalidated
    <2>13. Doomed'
      <3> SUFFICES ASSUME NEW v \in valid', users'[v.nick] # v
                   PROVE  BeingInvalidated(v)' \/ Failed(v)'
        BY DEF Doomed, InMap
      <3>1. v \in User /\ v \in valid
        BY <1>2 DEF IInv, Types
      <3>2. CASE InMap(v) /\ v # u
        <4>1. v.nick = n
          BY <2>6, <3>1, <3>2
        <4>2. ~InMap(u)
          BY <3>2, <4>1 DEF InMap, n
        <4> QED
          BY <2>4, <4>1, <4>2 DEF Failed
      <3>3. CASE ~InMap(v)
        BY <2>4, <2>11, <3>1, <3>3 DEF IInv, Doomed, Failed
      <3> QED
        BY <2>12, <3>1, <3>2, <3>3
    <2>14. \A v \in User : v # u /\ LoggingOut(v) => LoggingOut(v)'
      BY <2>3, OthersKept DEF IInv, u
    <2>15. Leaving'
      <3> SUFFICES ASSUME NEW v \in User, users'[v.nick] = v, v \notin valid
                   PROVE  LoggingOut(v)'
        BY <1>2 DEF Leaving, InMap
      <3>1. InMap(v) /\ v # u
        BY <2>6 DEF n
      <3> QED
        BY <2>14, <3>1 DEF IInv, Leaving
    <2>16. \A m \in Nicks : Slipped(m) => Slipped(m)'
      BY <2>4 DEF Slipped
    <2>17. NotBack'
      <3>1. \A r \in removedUsers : r.user.nick \in Nicks
        BY UserFields DEF IInv, Types
      <3> QED
        BY <1>2, <2>5, <2>16, <3>1 DEF IInv, NotBack
    <2>18. Announced'
      BY <1>2, <2>1, <2>5, <2>16 DEF IInv, Announced
    <2> QED
      BY <2>7, <2>8, <2>9, <2>13, <2>15, <2>17, <2>18 DEF IInv
  <1> QED
    BY <1>3, <1>4

-----------------------------------------------------------------------------
(* The ping task. *)

\* What the task does to those it has removed changes nothing for the threads.
LEMMA TaskStepKeeps ==
    ASSUME IInv, NEW r \in removedUsers, UNCHANGED <<users, silent, session, thread>>,
           removedUsers' \subseteq removedUsers \cup {[r EXCEPT !.awaits = "notify"]},
           \A q \in removedUsers : q # r => q \in removedUsers',
           valid' \subseteq valid, valid \ {r.user} \subseteq valid',
           told' \subseteq Nicks, slips \subseteq slips', slips' \subseteq Kinds \X Nicks,
           \/ r.user \notin valid' \/ r.awaits = "notify"
           \/ <<"failed", r.user.nick>> \in slips'
    PROVE  /\ Types' /\ ThreadsOK' /\ StaysOut' /\ Doomed' /\ Leaving' /\ NotBack'
           /\ \A n \in Nicks : Slipped(n) => Slipped(n)'
  <1>1. r \in [user : User, awaits : {"invalidate", "notify"}]
    BY DEF IInv, Types
  <1>2. /\ [r EXCEPT !.awaits = "notify"] \in [user : User, awaits : {"invalidate", "notify"}]
        /\ [r EXCEPT !.awaits = "notify"].user = r.user
    BY <1>1
  <1>3. Types'
    BY <1>2 DEF IInv, Types, InMap
  <1>4. ThreadsOK'
    BY DEF IInv, ThreadsOK
  <1>5. \A q \in removedUsers' : \E p \in removedUsers : p.user = q.user
    BY <1>2
  <1>6. StaysOut'
    BY <1>5 DEF IInv, StaysOut, InMap
  <1>7. \A n \in Nicks : Slipped(n) => Slipped(n)'
    BY DEF Slipped
  <1>8. NotBack'
    <2>1. \A q \in removedUsers : q.user.nick \in Nicks
      BY UserFields DEF IInv, Types
    <2>2. ASSUME NEW q \in removedUsers'
          PROVE  users'[q.user.nick] = None \/ Slipped(q.user.nick)'
      <3>1. PICK p \in removedUsers : p.user = q.user
        BY <1>5, <2>2
      <3> QED
        BY <1>7, <2>1, <3>1 DEF IInv, NotBack
    <2> QED
      BY <2>2 DEF NotBack
  <1>9. Leaving'
    <2>1. \A v \in User : LoggingOut(v) => LoggingOut(v)'
      BY DEF LoggingOut
    <2>2. ~InMap(r.user)
      BY DEF IInv, StaysOut
    <2>3. \A v \in User : InMap(v)' => InMap(v)
      BY DEF InMap
    <2> QED
      BY <2>1, <2>2, <2>3 DEF IInv, Leaving
  <1>10. Doomed'
    <2>1. \A v \in User :
             v # r.user \/ r.awaits = "notify" =>
                (BeingInvalidated(v) => BeingInvalidated(v)')
      BY DEF BeingInvalidated
    <2>2. \A v \in User : Failed(v) => Failed(v)'
      BY DEF Failed
    <2>3. \A v \in User : InMap(v) => InMap(v)'
      BY DEF InMap
    <2>4. ASSUME NEW v \in valid' PROVE InMap(v)' \/ BeingInvalidated(v)' \/ Failed(v)'
      <3>1. v \in valid /\ v \in User
        BY <2>4 DEF IInv, Types
      <3>2. CASE v # r.user \/ r.awaits = "notify"
        BY <2>1, <2>2, <2>3, <3>1, <3>2 DEF IInv, Doomed
      <3>3. CASE v = r.user /\ r.awaits # "notify"
        BY <2>4, <3>3 DEF Failed
      <3> QED
        BY <3>2, <3>3
    <2> QED
      BY <2>4 DEF Doomed
  <1> QED
    BY <1>3, <1>4, <1>6, <1>7, <1>8, <1>9, <1>10

LEMMA DropSilentStep == ASSUME IInv, NEW r \in removedUsers, DropSilent(r) PROVE IInv'
  <1> DEFINE d == [r EXCEPT !.awaits = "notify"]
  <1>1. /\ removedUsers' = (removedUsers \ {r}) \cup {d} /\ valid' = valid \ {r.user}
        /\ UNCHANGED <<users, silent, session, thread, told, slips>>
    BY DEF DropSilent
  <1>2. d.user = r.user
    BY DEF IInv, Types
  <1>3. /\ Types' /\ ThreadsOK' /\ StaysOut' /\ Doomed' /\ Leaving' /\ NotBack'
        /\ \A n \in Nicks : Slipped(n) => Slipped(n)'
    BY <1>1, TaskStepKeeps DEF IInv, Types
  <1>4. Announced'
    BY <1>1, <1>2, <1>3 DEF IInv, Announced
  <1> QED
    BY <1>3, <1>4 DEF IInv

LEMMA DropSilentThrowsStep == ASSUME IInv, NEW r \in removedUsers, DropSilentThrows(r) PROVE IInv'
  <1>1. /\ removedUsers' = removedUsers \ {r} /\ Slip("failed", r.user.nick, TRUE)
        /\ UNCHANGED <<users, valid, silent, session, thread, told>>
    BY DEF DropSilentThrows
  <1>2. r.user.nick \in Nicks
    BY UserFields DEF IInv, Types
  <1>3. /\ slips \subseteq slips' /\ slips' \subseteq Kinds \X Nicks
        /\ <<"failed", r.user.nick>> \in slips'
    BY <1>1, <1>2, SlipFacts DEF IInv, Types, Kinds
  <1>4. /\ Types' /\ ThreadsOK' /\ StaysOut' /\ Doomed' /\ Leaving' /\ NotBack'
        /\ \A n \in Nicks : Slipped(n) => Slipped(n)'
    BY <1>1, <1>3, TaskStepKeeps DEF IInv, Types
  <1>5. Slipped(r.user.nick)'
    BY <1>3 DEF Slipped, Kinds
  <1>6. Announced'
    BY <1>1, <1>4, <1>5 DEF IInv, Announced
  <1> QED
    BY <1>4, <1>6 DEF IInv

\* Nobody can have the name again, unless something has been recorded.
LEMMA NotifySilentStep == ASSUME IInv, NEW r \in removedUsers, NotifySilent(r) PROVE IInv'
  <1>1. /\ removedUsers' = removedUsers \ {r} /\ told' = told \ {r.user.nick} /\ r.awaits = "notify"
        /\ UNCHANGED <<users, valid, silent, session, thread, slips>>
    BY DEF NotifySilent
  <1>2. /\ Types' /\ ThreadsOK' /\ StaysOut' /\ Doomed' /\ Leaving' /\ NotBack'
        /\ \A n \in Nicks : Slipped(n) => Slipped(n)'
    BY <1>1, TaskStepKeeps DEF IInv, Types
  <1>3. users[r.user.nick] = None \/ Slipped(r.user.nick)
    BY DEF IInv, NotBack
  <1>4. Announced'
    BY <1>1, <1>2, <1>3 DEF IInv, Announced
  <1> QED
    BY <1>2, <1>4 DEF IInv

\* The users that are silent have left the map, and the task is going to invalidate each.
LEMMA TakeSilentStep == ASSUME IInv, TakeSilent PROVE IInv'
  <1>1. /\ removedUsers = {}
        /\ users' = [n \in Nicks |-> IF Silent(n) THEN None ELSE users[n]]
        /\ removedUsers' = {[user |-> users[n], awaits |-> "invalidate"] : n \in {m \in Nicks : Silent(m)}}
        /\ silent' = {} /\ UNCHANGED <<valid, session, thread, told, slips>>
    BY DEF TakeSilent
  <1>2. \A n \in Nicks : Silent(n) => users[n] \in User /\ users[n].nick = n
    BY NoneIsNoUser DEF IInv, Types, Silent
  <1>3. \A n \in Nicks : users'[n] = IF Silent(n) THEN None ELSE users[n]
    BY <1>1
  <1>4. \A q \in removedUsers' :
           /\ q \in [user : User, awaits : {"invalidate", "notify"}]
           /\ q.user.nick \in Nicks /\ users'[q.user.nick] = None
    BY <1>1, <1>2, <1>3
  <1>5. \A n \in Nicks : Silent(n) =>
           \E q \in removedUsers' : q.user = users[n] /\ q.awaits = "invalidate"
    <2> SUFFICES ASSUME NEW n \in Nicks, Silent(n)
                 PROVE  \E q \in removedUsers' : q.user = users[n] /\ q.awaits = "invalidate"
      OBVIOUS
    <2>1. [user |-> users[n], awaits |-> "invalidate"] \in removedUsers'
      BY <1>1
    <2> QED
      BY <2>1
  <1>6. \A v \in User : InMap(v)' => InMap(v)
    BY <1>3, NoneIsNoUser, UserFields DEF InMap
  <1>7. Types'
    <2>1. /\ users' \in [Nicks -> User \cup {None}]
          /\ \A n \in Nicks : users'[n] # None => users'[n].nick = n
      BY <1>1, <1>3 DEF IInv, Types
    <2> QED
      BY <1>1, <1>4, <2>1 DEF IInv, Types
  <1>8. ThreadsOK'
    BY <1>1 DEF IInv, ThreadsOK
  <1>9. StaysOut'
    <2>1. \A q \in removedUsers' : ~InMap(q.user)'
      BY <1>4, NoneIsNoUser DEF InMap
    <2>2. ASSUME NEW t \in Threads, thread'[t].todo \in Final
          PROVE  users'[thread'[t].user.nick] # thread'[t].user
      <3>1. thread[t].user \in User /\ ~InMap(thread[t].user) /\ thread'[t] = thread[t]
        BY <1>1, <2>2, ActsForUser DEF IInv, StaysOut
      <3> QED
        BY <1>6, <3>1 DEF InMap
    <2> QED
      BY <2>1, <2>2 DEF StaysOut, InMap
  <1>10. Doomed'
    <2>1. ASSUME NEW v \in User PROVE (BeingInvalidated(v) => BeingInvalidated(v)') /\ (Failed(v) => Failed(v)')
      BY <1>1 DEF BeingInvalidated, Failed
    <2>2. ASSUME NEW v \in User, InMap(v), users'[v.nick] # v PROVE BeingInvalidated(v)'
      <3>1. Silent(v.nick)
        BY <1>3, <2>2, UserFields DEF InMap
      <3> QED
        BY <1>5, <2>2, <3>1, UserFields DEF InMap, BeingInvalidated
    <2>3. valid' = valid /\ valid \subseteq User
      BY <1>1 DEF IInv, Types
    <2> QED
      BY <2>1, <2>2, <2>3 DEF IInv, Doomed, InMap
  <1>11. Leaving'
    <2>1. \A v \in User : LoggingOut(v) => LoggingOut(v)'
      BY <1>1 DEF LoggingOut
    <2> QED
      BY <1>1, <1>6, <2>1 DEF IInv, Leaving
  <1>12. NotBack'
    BY <1>4 DEF NotBack
  <1>13. Announced'
    <2>1. \A n \in Nicks : Slipped(n) => Slipped(n)'
      BY <1>1 DEF Slipped
    <2> QED
      BY <1>1, <1>2, <1>3, <1>5, <2>1 DEF IInv, Announced
  <1> QED
    BY <1>7, <1>8, <1>9, <1>10, <1>11, <1>12, <1>13 DEF IInv

-----------------------------------------------------------------------------

LEMMA NextIInv == IInv /\ [Next]_vars => IInv'
  <1> SUFFICES ASSUME IInv, [Next]_vars PROVE IInv'
    OBVIOUS
  <1>1. CASE UNCHANGED vars
    BY <1>1, SessionStep DEF vars, IInv, Types, ThreadsOK
  <1>2. ASSUME NEW t \in Threads, NEW c \in Clients, Logout(t, c) PROVE IInv'
    <2>1. session[c] \in User
      BY <1>2 DEF Logout, IInv, Types
    <2> QED
      BY <1>2, <2>1, BeginsStep DEF Logout, Serves
  <1>3. ASSUME NEW t \in Threads, NEW c \in Clients, NEW u \in User, Register(t, c, u) PROVE IInv'
    BY <1>3, RegisterStep
  <1>4. ASSUME NEW t \in Threads, NEW n \in Nicks, Kick(t, n) PROVE IInv'
    <2>1. users[n] \in User
      BY <1>4 DEF Kick, IInv, Types
    <2> QED
      BY <1>4, <2>1, BeginsStep DEF Kick, Serves
  <1>5. ASSUME NEW t \in Threads, ThreadStep(t) PROVE IInv'
    BY <1>5, EnterSessionStep, InvalidateStep, InvalidateThrowsStep, RemoveUserStep, CloseSessionStep
       DEF ThreadStep
  <1>6. ASSUME NEW c \in Clients, Expire(c) \/ Poll(c) PROVE IInv'
    <2>1. CASE Expire(c)
      <3>1. session' \in [Clients -> User \cup {None}]
        BY <2>1 DEF Expire, IInv, ThreadsOK
      <3> QED
        BY <2>1, <3>1, SessionStep DEF Expire, IInv, Types
    <2>2. CASE Poll(c)
      BY <2>2, SessionStep DEF Poll, IInv, Types, ThreadsOK
    <2> QED
      BY <1>6, <2>1, <2>2
  <1>7. ASSUME NEW u \in User, FallSilent(u) PROVE IInv'
    BY <1>7, SessionStep DEF FallSilent, IInv, Types, ThreadsOK
  <1>8. CASE TakeSilent
    BY <1>8, TakeSilentStep
  <1>9. CASE TaskStep
    BY <1>9, DropSilentStep, DropSilentThrowsStep, NotifySilentStep DEF TaskStep
  <1> QED
    BY <1>1, <1>2, <1>3, <1>4, <1>5, <1>6, <1>7, <1>8, <1>9 DEF Next

\* The map of names and the validity of the users are as the invariant says, however the
\* removals overlap.
LEMMA SpecIInv == Spec => []IInv
  BY InitIInv, NextIInv, PTL DEF Spec

-----------------------------------------------------------------------------

LEMMA IInvMapAgrees == IInv => MapAgrees
  <1> SUFFICES ASSUME IInv, NEW u \in User,
                      SlipsOf(u.nick) \cap ({"other", "failed"} \X Nicks) = {}
               PROVE  (u \in valid <=> InMap(u)) \/ BeingRemoved(u)
    BY DEF MapAgrees
  <1>1. ~Failed(u)
    BY UserFields DEF Failed, SlipsOf
  <1>2. ASSUME BeingInvalidated(u) PROVE BeingRemoved(u)
    <2>1. CASE \E r \in removedUsers : r.user = u /\ r.awaits = "invalidate"
      BY <2>1 DEF BeingRemoved, Removals
    <2>2. ASSUME NEW t \in Threads, thread[t].user = u,
                 thread[t].todo \in Final \cup {<<"invalidate", "remove", "close">>}
          PROVE  BeingRemoved(u)
      <3>1. "invalidate" \in ToSet(thread[t].todo)
        BY <2>2 DEF ToSet, Final
      <3> QED
        BY <2>2, <3>1 DEF BeingRemoved
    <2> QED
      BY <1>2, <2>1, <2>2 DEF BeingInvalidated
  <1>3. ASSUME LoggingOut(u) PROVE BeingRemoved(u)
    <2>1. PICK t \in Threads : thread[t].user = u /\ thread[t].todo = <<"remove", "close">>
      BY <1>3 DEF LoggingOut
    <2>2. "remove" \in ToSet(thread[t].todo)
      BY <2>1 DEF ToSet
    <2> QED
      BY <2>1, <2>2 DEF BeingRemoved
  <1> QED
    BY <1>1, <1>2, <1>3 DEF IInv, Doomed, Leaving

\* The users in the map are those that are valid, but for those that are being removed and
\* for names about which something has gone wrong: a thread or the ping task sees to the
\* others' end (checkAndAdd, removeUser, noLongerValid, checkForPingAndIdleTimeouts).
THEOREM NamesAgree == Spec => []MapAgrees
  BY SpecIInv, IInvMapAgrees, PTL

LEMMA IInvAnnounced == IInv => AnnouncedRight
  <1>1. ASSUME NEW n \in Nicks, SlipsOf(n) = {} PROVE ~Slipped(n)
    <2>1. \A k \in Kinds : <<k, n>>[2] = n
      OBVIOUS
    <2> QED
      BY <1>1, <2>1 DEF SlipsOf, Slipped
  <1> QED
    BY <1>1 DEF IInv, Announced, AnnouncedRight

\* Whoever has the last announcement about a name in mind knows whether it is taken, once
\* the ping task has told of those it has removed, unless the name was taken again before
\* that (checkAndAdd, removeUser, notifyRemoveUser).
THEOREM AnnouncementsRight == Spec => []AnnouncedRight
  BY SpecIInv, IInvAnnounced, PTL

-----------------------------------------------------------------------------
(***************************************************************************)
(* The other task: GameList keeps its invariants, for every number of      *)
(* changes and of requests under way.                                      *)
(***************************************************************************)

\* No answer is newer than the list, and neither is what the page shows.
FromThePast ==
    /\ shown <= version
    /\ \A v \in Versions : answers[v] > 0 => v <= version

\* What keeps an old list from being forgotten, apart from the flag of the task.
Covered ==
    \/ shown = version
    \/ unannounced > 0 \/ events > 0 \/ asked > 0 \/ answers[version] > 0
    \/ missedGameListRefresh
    \/ listSlips # {}

\* The flag counts only as long as it is not about to be reset for a broadcast
\* that came before.
FlagCounts == needsUpdate /\ (task = "sent" => again)

ListInv == TypeOK /\ FromThePast /\ (Covered \/ FlagCounts) /\ AskedWhenSeen

-----------------------------------------------------------------------------
\* The two halves of TypeOK.
Numbers ==
    /\ version \in Versions /\ unannounced \in Nat /\ events \in Nat /\ asked \in Nat
    /\ answers \in [Versions -> Nat]
    /\ shown \in Versions

Flags ==
    /\ needsUpdate \in BOOLEAN /\ task \in {"idle", "sent"} /\ again \in BOOLEAN
    /\ visible \in BOOLEAN /\ windowActive \in BOOLEAN /\ missedGameListRefresh \in BOOLEAN
    /\ listSlips \in SUBSET Slips

LEMMA Halves == TypeOK <=> Numbers /\ Flags
  BY DEF TypeOK, Numbers, Flags

\* The list as after_registered asks for it.
LEMMA InitListInv == ListInit => ListInv
  <1> SUFFICES ASSUME ListInit PROVE ListInv
    OBVIOUS
  <1>1. Numbers
    BY BoundsAssumption DEF ListInit, Numbers, Versions
  <1>2. Flags
    BY DEF ListInit, Flags, Slips
  <1>3. FromThePast /\ Covered
    BY DEF ListInit, FromThePast, Covered
  <1>4. AskedWhenSeen
    BY DEF ListInit, AskedWhenSeen
  <1> QED
    BY <1>1, <1>2, <1>3, <1>4, Halves DEF ListInv

\* Every step of the page, the servlets and the task keeps the numbers numbers.
LEMMA NumbersStep == Numbers /\ [ListNext]_listVars => Numbers'
  <1> SUFFICES ASSUME Numbers, [ListNext]_listVars PROVE Numbers'
    OBVIOUS
  <1> USE BoundsAssumption DEF Numbers, Versions, server, page
  <1>1. CASE Change
    BY <1>1 DEF Change
  <1>2. CASE Announce
    BY <1>2 DEF Announce
  <1>3. CASE Broadcast
    BY <1>3 DEF Broadcast
  <1>4. CASE Reset
    BY <1>4 DEF Reset
  <1>5. CASE Serve
    BY <1>5 DEF Serve
  <1>6. CASE Refresh
    BY <1>6 DEF Refresh, Update
  <1>7. ASSUME NEW v \in Versions, Show(v) PROVE Numbers'
    BY <1>7 DEF Show
  <1>8. CASE Lose
    BY <1>8 DEF Lose
  <1>9. CASE RefreshClick
    BY <1>9 DEF RefreshClick, Update
  <1>10. CASE Enter \/ Blur
    BY <1>10 DEF Enter, Blur
  <1>11. CASE Return
    BY <1>11 DEF Return, Update
  <1>12. CASE Focus
    BY <1>12 DEF Focus, Update
  <1>13. CASE UNCHANGED listVars
    BY <1>13 DEF listVars
  <1> QED
    BY <1>1, <1>2, <1>3, <1>4, <1>5, <1>6, <1>7, <1>8, <1>9, <1>10, <1>11, <1>12, <1>13 DEF ListNext

\* ... and the flags flags.
LEMMA FlagsStep == Flags /\ [ListNext]_listVars => Flags'
  <1> SUFFICES ASSUME Flags, [ListNext]_listVars PROVE Flags'
    OBVIOUS
  <1> USE DEF Flags, Slips, server, page
  <1>1. CASE Change
    BY <1>1 DEF Change
  <1>2. CASE Announce
    BY <1>2 DEF Announce
  <1>3. CASE Broadcast
    BY <1>3 DEF Broadcast
  <1>4. CASE Reset
    BY <1>4 DEF Reset
  <1>5. CASE Serve
    BY <1>5 DEF Serve
  <1>6. CASE Refresh
    BY <1>6 DEF Refresh, Update
  <1>7. ASSUME NEW v \in Versions, Show(v) PROVE Flags'
    BY <1>7 DEF Show
  <1>8. CASE Lose
    BY <1>8 DEF Lose
  <1>9. CASE RefreshClick
    BY <1>9 DEF RefreshClick, Update
  <1>10. CASE Enter \/ Blur
    BY <1>10 DEF Enter, Blur
  <1>11. CASE Return
    BY <1>11 DEF Return, Update
  <1>12. CASE Focus
    BY <1>12 DEF Focus, Update
  <1>13. CASE UNCHANGED listVars
    BY <1>13 DEF listVars
  <1> QED
    BY <1>1, <1>2, <1>3, <1>4, <1>5, <1>6, <1>7, <1>8, <1>9, <1>10, <1>11, <1>12, <1>13 DEF ListNext

LEMMA TypeStep == TypeOK /\ [ListNext]_listVars => TypeOK'
  <1>1. TypeOK' <=> Numbers' /\ Flags'
    BY Halves, PTL
  <1> QED
    BY <1>1, Halves, NumbersStep, FlagsStep

\* Every step keeps the whole invariant.
LEMMA ListInvStep == ListInv /\ [ListNext]_listVars => ListInv'
  <1> SUFFICES ASSUME ListInv, [ListNext]_listVars PROVE ListInv'
    OBVIOUS
  <1> TypeOK /\ TypeOK'
    BY TypeStep DEF ListInv
  <1> USE BoundsAssumption DEF TypeOK, Versions, Slips, server, page,
        ListInv, FromThePast, Covered, FlagCounts, AskedWhenSeen
  <1>1. CASE Change
    BY <1>1 DEF Change
  <1>2. CASE Announce
    BY <1>2 DEF Announce
  <1>3. CASE Broadcast
    BY <1>3 DEF Broadcast
  <1>4. CASE Reset
    BY <1>4 DEF Reset
  <1>5. CASE Serve
    BY <1>5 DEF Serve
  <1>6. CASE Refresh
    BY <1>6 DEF Refresh, Update
  <1>7. ASSUME NEW v \in Versions, Show(v) PROVE ListInv'
    BY <1>7 DEF Show
  <1>8. CASE Lose
    BY <1>8 DEF Lose
  <1>9. CASE RefreshClick
    BY <1>9 DEF RefreshClick, Update
  <1>10. CASE Enter \/ Blur
    BY <1>10 DEF Enter, Blur
  <1>11. CASE Return
    BY <1>11 DEF Return, Update
  <1>12. CASE Focus
    BY <1>12 DEF Focus, Update
  <1>13. CASE UNCHANGED listVars
    BY <1>13 DEF listVars
  <1> QED
    BY <1>1, <1>2, <1>3, <1>4, <1>5, <1>6, <1>7, <1>8, <1>9, <1>10, <1>11, <1>12, <1>13 DEF ListNext

\* Every field of the server and of the page keeps its type (TypeOK of GameList),
\* however often the list changes and is asked for.
THEOREM ListTypesKept == ListSpec => []TypeOK
  <1>1. ListInv => TypeOK
    BY DEF ListInv
  <1> QED
    BY <1>1, InitListInv, ListInvStep, PTL DEF ListSpec

-----------------------------------------------------------------------------
\* However the threads, the task, the page and its user interleave, a list that
\* is not up to date is going to be, or one of the slips has happened since the
\* last change (BroadcastGameListUpdateTask.process, GameList.update).
THEOREM NeverForgotten == ListSpec => []NothingForgotten
  <1>1. ListInv => NothingForgotten
    BY DEF ListInv, Covered, FlagCounts, NothingForgotten
  <1> QED
    BY <1>1, InitListInv, ListInvStep, PTL DEF ListSpec

\* What the page has missed it asks for as soon as somebody looks at the list
\* (GameList.update, the focus handler).
THEOREM SeenMeansAsked == ListSpec => []AskedWhenSeen
  <1>1. ListInv => AskedWhenSeen
    BY DEF ListInv
  <1> QED
    BY <1>1, InitListInv, ListInvStep, PTL DEF ListSpec
=============================================================================
