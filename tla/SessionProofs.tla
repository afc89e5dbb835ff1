---------------------------- MODULE SessionProofs ----------------------------
(***************************************************************************)
(* Proofs about the session of a page, for any games and any number of     *)
(* requests under way.                                                     *)
(***************************************************************************)
EXTENDS Session, TLAPS

-----------------------------------------------------------------------------
(* Bags of messages: one is added, one is taken out, one is replaced.      *)

Adds(B, C, m) ==
    /\ IsABag(C) /\ BagToSet(C) = BagToSet(B) \cup {m}
    /\ \A n \in BagToSet(B) : n # m => C[n] = B[n]
    /\ m \notin BagToSet(B) => C[m] = 1

Drops(B, C, m) ==
    /\ IsABag(C) /\ BagToSet(C) \subseteq BagToSet(B)
    /\ \A n \in BagToSet(B) : n # m => n \in BagToSet(C) /\ C[n] = B[n]
    /\ B[m] = 1 => m \notin BagToSet(C)

LEMMA AddOne ==
    ASSUME NEW B, IsABag(B), NEW m
    PROVE  Adds(B, B (+) SetToBag({m}), m)
  <1> DEFINE C == B (+) SetToBag({m})
  <1>1. B \in [DOMAIN B -> {n \in Nat : n > 0}]
    BY DEF IsABag
  <1>2. /\ DOMAIN C = DOMAIN B \cup {m}
        /\ \A n \in DOMAIN C : C[n] = (IF n \in DOMAIN B THEN B[n] ELSE 0) + (IF n = m THEN 1 ELSE 0)
        /\ C = [n \in DOMAIN B \cup {m} |->
                  (IF n \in DOMAIN B THEN B[n] ELSE 0) + (IF n \in {m} THEN 1 ELSE 0)]
    BY DEF (+), SetToBag
  <1> HIDE DEF C
  <1>3. \A n \in DOMAIN C : C[n] \in {k \in Nat : k > 0}
    BY <1>1, <1>2
  <1>4. IsABag(C)
    BY <1>2, <1>3 DEF IsABag
  <1>5. Adds(B, C, m)
    BY <1>1, <1>2, <1>4 DEF Adds, BagToSet
  <1> QED
    BY <1>5 DEF C

LEMMA DropOne ==
    ASSUME NEW B, IsABag(B), NEW m \in BagToSet(B)
    PROVE  Drops(B, B (-) SetToBag({m}), m)
  <1> DEFINE C == B (-) SetToBag({m})
             D == [n \in DOMAIN B |-> IF n \in {m} THEN B[n] - 1 ELSE B[n]]
  <1>1. B \in [DOMAIN B -> {n \in Nat : n > 0}] /\ m \in DOMAIN B
    BY DEF IsABag, BagToSet
  <1>2. C = [n \in {d \in DOMAIN D : D[d] > 0} |-> D[n]]
    BY DEF (-), SetToBag
  <1>3. DOMAIN D = DOMAIN B /\ \A n \in DOMAIN B : D[n] = IF n = m THEN B[n] - 1 ELSE B[n]
    OBVIOUS
  <1> HIDE DEF C, D
  <1>4. /\ DOMAIN C = {d \in DOMAIN B : D[d] > 0}
        /\ \A n \in DOMAIN C : C[n] = D[n]
        /\ C = [n \in DOMAIN C |-> C[n]]
    BY <1>2, <1>3
  <1>5. \A n \in DOMAIN C : C[n] \in {k \in Nat : k > 0}
    BY <1>1, <1>3, <1>4
  <1>6. IsABag(C)
    BY <1>4, <1>5 DEF IsABag
  <1>7. Drops(B, C, m)
    BY <1>1, <1>3, <1>4, <1>6 DEF Drops, BagToSet
  <1> QED
    BY <1>7 DEF C

\* One takes the place of another.
Turns(B, C, m, r) ==
    /\ IsABag(C) /\ r \in BagToSet(C) /\ BagToSet(C) \subseteq BagToSet(B) \cup {r}
    /\ \A n \in BagToSet(B) : n # m /\ n # r => n \in BagToSet(C) /\ C[n] = B[n]
    /\ B[m] = 1 => m \notin BagToSet(C)
    /\ r \notin BagToSet(B) => C[r] = 1

LEMMA TurnOne ==
    ASSUME NEW B, IsABag(B), NEW m \in BagToSet(B), NEW r, r # m
    PROVE  Turns(B, (B (-) SetToBag({m})) (+) SetToBag({r}), m, r)
  <1> DEFINE X == B (-) SetToBag({m})
             C == X (+) SetToBag({r})
  <1>1. Drops(B, X, m)
    BY DropOne
  <1>2. Adds(X, C, r)
    BY <1>1, AddOne DEF Drops
  <1> HIDE DEF X, C
  <1>3. Turns(B, C, m, r)
    BY <1>1, <1>2 DEF Drops, Adds, Turns
  <1> QED
    BY <1>3 DEF C, X

LEMMA AddNone ==
    ASSUME NEW B, IsABag(B)
    PROVE  B (+) EmptyBag = B
  <1> DEFINE C == B (+) EmptyBag
  <1>1. B \in [DOMAIN B -> {n \in Nat : n > 0}] /\ B = [n \in DOMAIN B |-> B[n]]
    BY DEF IsABag
  <1>2. DOMAIN EmptyBag = {}
    BY DEF EmptyBag, SetToBag
  <1>3. C = [n \in DOMAIN B \cup DOMAIN EmptyBag |->
               (IF n \in DOMAIN B THEN B[n] ELSE 0) + (IF n \in DOMAIN EmptyBag THEN EmptyBag[n] ELSE 0)]
    BY DEF (+)
  <1> HIDE DEF C
  <1>4. DOMAIN C = DOMAIN B /\ C = [n \in DOMAIN B |-> C[n]]
    BY <1>2, <1>3
  <1>5. \A n \in DOMAIN B : C[n] = B[n] + 0
    BY <1>2, <1>3, <1>4
  <1>6. \A n \in DOMAIN B : C[n] = B[n]
    BY <1>1, <1>5
  <1> QED
    BY <1>1, <1>4, <1>6 DEF C

-----------------------------------------------------------------------------
(* What is of which kind.                                                  *)

Ops == {"FIRST_LOAD", "REGISTER", "GAME_LIST", "JOIN", "CREATE", "LEAVE", "INFO", "LOG_OUT"}

Answers == {"asked", "ok", "refused", "invalid", "expired", "resumed", "fresh"}

Messages ==
    [op : Ops, game : Games \cup {None}, answer : Answers, list : SUBSET Games, age : Ages]

Notices == [game : Games, age : {"now", "before"}]

Pages ==
    [registered : BOOLEAN, sets : BOOLEAN, open : SUBSET Games, list : BOOLEAN, polls : Nat,
     hash : Games \cup {None}, autojoinGameId : Games \cup {None},
     hasAutojoinedGame : BOOLEAN, hasRetriedFirstLoad : BOOLEAN]

\* Nobody waits for the answer to a stray request; an operation on a game names it.
Sound(m) ==
    /\ m \in Messages
    /\ m.age = "stray" => m.answer = "asked"
    /\ m.op \in {"JOIN", "LEAVE", "INFO"} => m.game \in Games
    /\ m.op = "CREATE" /\ m.answer = "ok" => m.game \in Games

Mail(bag) == IsABag(bag) /\ \A m \in BagToSet(bag) : Sound(m)

SessionType ==
    /\ session \in {"none", "valid", "gone"}
    /\ at \in Games \cup {None} /\ (at # None => session = "valid" /\ at \in games)
    /\ games \subseteq Games
    /\ notices \in Seq(Notices)
    /\ Mail(inFlight)
    /\ page \in Pages
    /\ slips \subseteq {"hasty", "stray", "late", "lost"}

Live == {m \in BagToSet(inFlight) : m.age # "stray"}

-----------------------------------------------------------------------------

\* While the first answer is awaited, nothing else is under way and the page is as
\* it was loaded.
Loading ==
    \A m \in Live : m.op = "FIRST_LOAD" =>
        /\ m.age = "now" /\ m.answer \in {"asked", "expired", "resumed", "fresh"}
        /\ inFlight[m] = 1 /\ Live = {m}
        /\ ~page.registered /\ page.polls = 0 /\ page.open = {} /\ ~page.list
        /\ page.autojoinGameId = None /\ ~page.hasAutojoinedGame
        /\ m.answer = "asked" /\ page.hasRetriedFirstLoad => session # "gone"
        /\ m.answer = "expired" => ~page.hasRetriedFirstLoad /\ session # "gone"

SetsCome == page.sets \/ \E m \in Live : m.op = "FIRST_LOAD"

LoadInv ==
    /\ SessionType
    /\ "hasty" \notin slips => Loading
    /\ slips \cap {"hasty", "lost"} = {} => SetsCome

\* A registration that the page has not heard of is the only one.
Registering ==
    \A m \in Live : m.op = "REGISTER" =>
        /\ m.answer = "ok" => /\ ~page.registered /\ session = "valid" /\ inFlight[m] = 1
                              /\ \A n \in Live : n.op = "REGISTER" /\ n.answer = "ok" => n = m
        /\ m.answer = "asked" => /\ page.registered => session = "valid"
                                 /\ \A n \in Live : n.op # "LOG_OUT"

Polling ==
    /\ page.polls = IF page.registered THEN 1 ELSE 0
    /\ ~page.registered => page.open = {}
    /\ \A m \in Live : m.op \notin {"FIRST_LOAD", "REGISTER"} => page.registered
    /\ Registering

PollInv ==
    /\ SessionType
    /\ slips \cap {"hasty", "stray"} = {} => Loading /\ Polling

-----------------------------------------------------------------------------
\* What takes the page into a game, what takes it out.
Entry(m) == m.op \in {"JOIN", "CREATE"} /\ m.answer = "ok"

Exit(m) == (m.op = "LEAVE" /\ m.answer = "ok") \/ (m.op \in {"LEAVE", "INFO"} /\ m.answer = "invalid")

\* Something is under way that will be late.
Doomed ==
    \/ \E m \in Live : m.age = "before" /\ (Entry(m) \/ Exit(m))
    \/ \E i \in DOMAIN notices : notices[i].age = "before"

FirstAnswer ==
    \A m \in Live : m.op = "FIRST_LOAD" =>
        /\ \A i \in DOMAIN notices : notices[i].age = "before"
        /\ m.answer = "resumed" => session = "valid" /\ m.game = at
        /\ m.answer \in {"fresh", "expired"} => session # "valid"

Outside ==
    ~page.registered =>
        /\ page.open = {} /\ ~page.list
        /\ session = "valid" /\ (\A m \in Live : m.op # "FIRST_LOAD") =>
              /\ \E m \in Live : m.op = "REGISTER" /\ m.answer = "ok"
              /\ at = None /\ notices = <<>>

View ==
    page.registered =>
        /\ page.list <=> page.open = {}
        /\ \A g, h \in page.open : g = h
        /\ \A g \in page.open : page.hash = g \/ \E m \in Live : m.op = "LOG_OUT"

Current ==
    page.registered =>
        /\ \A m \in Live : m.age = "now" =>
              /\ m.op \in {"JOIN", "CREATE"} => page.open = {}
              /\ m.op \in {"LEAVE", "INFO"} => page.open \subseteq {m.game}
              /\ m.op = "GAME_LIST" /\ page.autojoinGameId # None /\ ~page.hasAutojoinedGame
                    => page.open = {}
        /\ \A i \in DOMAIN notices : notices[i].age = "now" => page.open \subseteq {notices[i].game}

Follows ==
    page.registered /\ session = "valid" =>
        /\ \A m \in Live : m.age = "now" /\ Entry(m) =>
              at = m.game \/ \E n \in Live : n.op = "LEAVE" /\ n.answer = "ok"
        /\ (\E m \in Live : m.age = "now" /\ Exit(m)) \/ (\E i \in DOMAIN notices : notices[i].age = "now")
              => at = None \/ Doomed \/ \E m \in Live : Entry(m)
        /\ at # None =>
              at \in page.open \/ Doomed \/ \E m \in Live : Entry(m) /\ m.game = at
        /\ \A g \in page.open : g # at =>
              notices # <<>> \/ \E m \in Live : Entry(m) \/ Exit(m)

Shows == FirstAnswer /\ Outside /\ View /\ Current /\ Follows

ViewInv ==
    /\ SessionType
    /\ slips = {} => Loading /\ Polling /\ Shows

-----------------------------------------------------------------------------
(* Messages that get another age.                                          *)

LEMMA AsFields ==
    ASSUME NEW m \in Messages, NEW age \in Ages
    PROVE  /\ As(m, age) \in Messages /\ As(m, age).age = age
           /\ As(m, age).op = m.op /\ As(m, age).game = m.game
           /\ As(m, age).answer = m.answer /\ As(m, age).list = m.list
           /\ As(As(m, age), m.age) = m
  BY DEF As, Messages

LEMMA CopiesCount ==
    ASSUME NEW B, IsABag(B), NEW m
    PROVE  Copies(m, B) \in Nat /\ (m \in BagToSet(B) => Copies(m, B) > 0)
  <1>1. B \in [DOMAIN B -> {n \in Nat : n > 0}]
    BY DEF IsABag
  <1> QED
    BY <1>1 DEF Copies, BagToSet

LEMMA ReagedMessages ==
    ASSUME NEW B, IsABag(B), BagToSet(B) \subseteq Messages, NEW new \in [Ages -> Ages]
    PROVE  /\ IsABag(Reaged(B, new))
           /\ BagToSet(Reaged(B, new)) = {As(n, new[n.age]) : n \in BagToSet(B)}
  <1> DEFINE C == Reaged(B, new)
             S == {As(n, new[n.age]) : n \in BagToSet(B)}
             From(m, age) == IF new[age] = m.age THEN Copies(As(m, age), B) ELSE 0
             Sum(m) == From(m, "now") + From(m, "before") + From(m, "stray")
  <1>1. C = [m \in S |-> Sum(m)]
    BY DEF Reaged
  <1>2. \A m, age : From(m, age) \in Nat
    BY CopiesCount
  <1>3. ASSUME NEW m \in S
        PROVE  Sum(m) \in Nat /\ Sum(m) > 0
    <2>1. PICK n \in BagToSet(B) : m = As(n, new[n.age])
      OBVIOUS
    <2>2. n \in Messages /\ n.age \in Ages /\ new[n.age] \in Ages
      BY DEF Messages
    <2>3. m.age = new[n.age] /\ As(m, n.age) = n
      BY <2>1, <2>2, AsFields
    <2>4. From(m, n.age) > 0
      BY <2>3, CopiesCount
    <2>5. n.age = "now" \/ n.age = "before" \/ n.age = "stray"
      BY <2>2 DEF Ages
    <2> HIDE DEF From
    <2> QED
      BY <1>2, <2>4, <2>5
  <1> HIDE DEF C, Sum, S
  <1>4. C = [m \in S |-> C[m]] /\ DOMAIN C = S /\ \A m \in S : C[m] \in {k \in Nat : k > 0}
    BY <1>1, <1>3
  <1>5. IsABag(C) /\ BagToSet(C) = S
    BY <1>4 DEF IsABag, BagToSet
  <1> QED
    BY <1>5 DEF C, S

\* A message whose age is no longer now.
Older(m) == As(m, IF m.age = "now" THEN "before" ELSE m.age)

LEMMA AgedMessages ==
    ASSUME NEW B, IsABag(B), BagToSet(B) \subseteq Messages
    PROVE  IsABag(Aged(B)) /\ BagToSet(Aged(B)) = {Older(n) : n \in BagToSet(B)}
  <1> DEFINE new == [age \in Ages |-> IF age = "now" THEN "before" ELSE age]
  <1>1. new \in [Ages -> Ages]
    BY DEF Ages
  <1>2. IsABag(Aged(B)) /\ BagToSet(Aged(B)) = {As(n, new[n.age]) : n \in BagToSet(B)}
    BY <1>1, ReagedMessages DEF Aged
  <1>3. \A n \in BagToSet(B) : As(n, new[n.age]) = Older(n)
    BY DEF Messages, Older
  <1> QED
    BY <1>2, <1>3

LEMMA OlderFields ==
    ASSUME NEW m, Sound(m)
    PROVE  /\ Sound(Older(m))
           /\ Older(m).op = m.op /\ Older(m).game = m.game /\ Older(m).answer = m.answer
           /\ Older(m).age # "now" /\ (Older(m).age = "stray" <=> m.age = "stray")
  <1>1. m \in Messages /\ m.age \in Ages
    BY DEF Sound, Messages
  <1>2. (IF m.age = "now" THEN "before" ELSE m.age) \in Ages
    BY <1>1 DEF Ages
  <1> QED
    BY <1>1, <1>2, AsFields DEF Older, Sound

-----------------------------------------------------------------------------
(* What a step does to the messages under way that are not stray.          *)

Counted(S) == \A n \in S : n \in Live' /\ inFlight'[n] = inFlight[n]

Keeps == Mail(inFlight)' /\ Live' = Live /\ Counted(Live)

Sends(r) == Mail(inFlight)' /\ Live' = Live \cup {r} /\ Counted(Live \ {r}) /\ (r \notin Live => inFlight'[r] = 1)

Forgets(m) == Mail(inFlight)' /\ Live' \subseteq Live /\ Counted(Live \ {m}) /\ (inFlight[m] = 1 => m \notin Live')

Replaces(m, r) ==
    /\ Mail(inFlight)' /\ r \in Live' /\ Live' \subseteq Live \cup {r}
    /\ Counted(Live \ {m, r})
    /\ inFlight[m] = 1 => m \notin Live'
    /\ r \notin Live => inFlight'[r] = 1

\* m is heard, what else is under way gets older, S is sent.
Enters(m, S) ==
    /\ Mail(inFlight)' /\ S \subseteq Live' /\ Live' \subseteq {Older(n) : n \in Live} \cup S
    /\ \A n \in Live : n # m => Older(n) \in Live'
    /\ inFlight[m] = 1 => Live' \subseteq {Older(n) : n \in Live \ {m}} \cup S

Restarts ==
    /\ Mail(inFlight)' /\ Live' = {Message("FIRST_LOAD", None)}
    /\ inFlight'[Message("FIRST_LOAD", None)] = 1

LEMMA NewMessage ==
    ASSUME NEW op \in Ops, NEW g \in Games \cup {None}, op \in {"JOIN", "LEAVE", "INFO"} => g \in Games
    PROVE  /\ Sound(Message(op, g)) /\ Message(op, g).op = op /\ Message(op, g).game = g
           /\ Message(op, g).answer = "asked" /\ Message(op, g).age = "now"
  BY DEF Message, Sound, Messages, Ops, Answers, Ages

\* The answer to a request.
Reply(m, answer, g, list) == [m EXCEPT !.answer = answer, !.game = g, !.list = list]

Fitting(m, answer, g, list) ==
    /\ answer \in Answers \ {"asked"} /\ g \in Games \cup {None} /\ list \subseteq Games
    /\ m.op \in {"JOIN", "LEAVE", "INFO"} => g \in Games
    /\ m.op = "CREATE" /\ answer = "ok" => g \in Games

LEMMA ReplyFields ==
    ASSUME NEW m, Sound(m), NEW answer, NEW g, NEW list, Fitting(m, answer, g, list), m.age # "stray"
    PROVE  LET r == Reply(m, answer, g, list) IN
           /\ Sound(r) /\ r.op = m.op /\ r.age = m.age
           /\ r.answer = answer /\ r.game = g /\ r.list = list
  BY DEF Reply, Sound, Messages, Fitting

LEMMA Asking ==
    ASSUME Mail(inFlight), NEW r, Sound(r), r.age # "stray",
           inFlight' = inFlight (+) SetToBag({r})
    PROVE  Sends(r)
  <1>1. Adds(inFlight, inFlight', r)
    BY AddOne DEF Mail
  <1>2. Mail(inFlight)' /\ Live' = Live \cup {r}
    BY <1>1 DEF Adds, Mail, Live
  <1>3. Counted(Live \ {r}) /\ (r \notin Live => inFlight'[r] = 1)
    BY <1>1, <1>2 DEF Adds, Counted, Live
  <1> QED
    BY <1>2, <1>3 DEF Sends

LEMMA Forgetting ==
    ASSUME Mail(inFlight), NEW m \in BagToSet(inFlight), inFlight' = Rest(m)
    PROVE  Forgets(m) /\ (m.age = "stray" => Keeps)
  <1>1. Drops(inFlight, inFlight', m)
    BY DropOne DEF Mail, Rest
  <1>2. Mail(inFlight)' /\ Live' \subseteq Live /\ Counted(Live \ {m})
    BY <1>1 DEF Drops, Mail, Live, Counted
  <1>3. inFlight[m] = 1 => m \notin Live'
    BY <1>1 DEF Drops, Live
  <1>4. m.age = "stray" => m \notin Live
    BY DEF Live
  <1> QED
    BY <1>2, <1>3, <1>4 DEF Forgets, Keeps, Counted

LEMMA Replacing ==
    ASSUME Mail(inFlight), NEW m \in BagToSet(inFlight), NEW r, Sound(r), r # m, r.age # "stray",
           inFlight' = Rest(m) (+) SetToBag({r})
    PROVE  Replaces(m, r)
  <1>1. Turns(inFlight, inFlight', m, r)
    BY TurnOne DEF Mail, Rest
  <1>2. Mail(inFlight)' /\ r \in Live' /\ Live' \subseteq Live \cup {r}
    BY <1>1 DEF Turns, Mail, Live
  <1>3. Counted(Live \ {m, r})
    BY <1>1 DEF Turns, Live, Counted
  <1>4. (inFlight[m] = 1 => m \notin Live') /\ (r \notin Live => inFlight'[r] = 1)
    BY <1>1 DEF Turns, Live
  <1> QED
    BY <1>2, <1>3, <1>4 DEF Replaces

LEMMA Answering ==
    ASSUME Mail(inFlight), NEW m \in BagToSet(inFlight), m.answer = "asked",
           NEW answer, NEW g, NEW list, Fitting(m, answer, g, list), Answered(m, answer, g, list)
    PROVE  /\ m.age = "stray" => Keeps
           /\ m.age # "stray" => Replaces(m, Reply(m, answer, g, list))
  <1>1. Sound(m)
    BY DEF Mail
  <1>2. CASE m.age = "stray"
    <2>1. inFlight' = Rest(m) (+) EmptyBag
      BY <1>2 DEF Answered, Rest
    <2>2. IsABag(Rest(m))
      BY DropOne DEF Mail, Rest, Drops
    <2>3. inFlight' = Rest(m)
      BY <2>1, <2>2, AddNone
    <2> QED
      BY <1>2, <2>3, Forgetting
  <1>3. CASE m.age # "stray"
    <2> DEFINE r == Reply(m, answer, g, list)
    <2>1. inFlight' = Rest(m) (+) SetToBag({r})
      BY <1>3 DEF Answered, Rest, Reply
    <2>2. Sound(r) /\ r.age = m.age /\ r.answer = answer
      BY <1>1, <1>3, ReplyFields
    <2>3. r # m
      BY <2>2 DEF Fitting
    <2> HIDE DEF r
    <2>4. Replaces(m, r)
      BY <1>3, <2>1, <2>2, <2>3, Replacing
    <2> QED
      BY <1>3, <2>4 DEF r
  <1> QED
    BY <1>2, <1>3

LEMMA OthersOlder ==
    ASSUME Mail(inFlight), NEW m \in BagToSet(inFlight), NEW B, B = Aged(Rest(m))
    PROVE  /\ Mail(B) /\ BagToSet(B) \subseteq {Older(n) : n \in BagToSet(inFlight)}
           /\ \A n \in BagToSet(inFlight) : n # m => Older(n) \in BagToSet(B)
           /\ inFlight[m] = 1 => BagToSet(B) \subseteq {Older(n) : n \in BagToSet(inFlight) \ {m}}
  <1> DEFINE R == Rest(m)
  <1>1. Drops(inFlight, R, m)
    BY DropOne DEF Mail, Rest
  <1> HIDE DEF R
  <1>2. IsABag(R) /\ BagToSet(R) \subseteq Messages
    BY <1>1 DEF Drops, Mail, Sound
  <1>3. B = Aged(R)
    BY DEF R
  <1>4. IsABag(B) /\ BagToSet(B) = {Older(n) : n \in BagToSet(R)}
    BY <1>2, <1>3, AgedMessages
  <1>5. \A n \in BagToSet(R) : Sound(n)
    BY <1>1 DEF Drops, Mail
  <1>6. Mail(B)
    BY <1>4, <1>5, OlderFields DEF Mail
  <1> QED
    BY <1>1, <1>4, <1>6 DEF Drops

LEMMA EntersWith ==
    ASSUME Mail(inFlight), NEW m \in BagToSet(inFlight), NEW S,
           Mail(inFlight)', \A s \in S : s.age # "stray",
           BagToSet(inFlight)' = BagToSet(Aged(Rest(m))) \cup S
    PROVE  Enters(m, S)
  <1> DEFINE B == Aged(Rest(m))
  <1>1. /\ BagToSet(B) \subseteq {Older(n) : n \in BagToSet(inFlight)}
        /\ \A n \in BagToSet(inFlight) : n # m => Older(n) \in BagToSet(B)
        /\ inFlight[m] = 1 => BagToSet(B) \subseteq {Older(n) : n \in BagToSet(inFlight) \ {m}}
    BY OthersOlder
  <1>2. BagToSet(inFlight)' = BagToSet(B) \cup S
    OBVIOUS
  <1> HIDE DEF B
  <1>3. \A n \in BagToSet(inFlight) : Older(n).age = "stray" <=> n.age = "stray"
    BY OlderFields DEF Mail
  <1>4. \A k : k \in Live' <=> k.age # "stray" /\ (k \in BagToSet(B) \/ k \in S)
    BY <1>2 DEF Live
  <1>5. ASSUME NEW k \in Live', k \notin S
        PROVE  k \in {Older(n) : n \in Live} /\ (inFlight[m] = 1 => k \in {Older(n) : n \in Live \ {m}})
    <2>1. PICK n \in BagToSet(inFlight) : k = Older(n) /\ (inFlight[m] = 1 => n # m)
      BY <1>1, <1>4, <1>5
    <2>2. n \in Live
      BY <1>3, <1>4, <2>1 DEF Live
    <2> QED
      BY <2>1, <2>2
  <1>6. ASSUME NEW n \in Live, n # m
        PROVE  Older(n) \in Live'
    BY <1>1, <1>3, <1>4, <1>6 DEF Live
  <1>7. S \subseteq Live'
    BY <1>4
  <1> QED
    BY <1>5, <1>6, <1>7 DEF Enters

LEMMA Entering ==
    ASSUME Mail(inFlight), NEW m \in BagToSet(inFlight), NEW r, Sound(r), r.age # "stray",
           inFlight' = Aged(Rest(m)) (+) SetToBag({r})
    PROVE  Enters(m, {r})
  <1> DEFINE B == Aged(Rest(m))
  <1>1. Mail(B)
    BY OthersOlder
  <1>2. inFlight' = B (+) SetToBag({r})
    OBVIOUS
  <1> HIDE DEF B
  <1>3. Adds(B, inFlight', r)
    BY <1>1, <1>2, AddOne DEF Mail
  <1>4. IsABag(inFlight') /\ BagToSet(inFlight)' = BagToSet(B) \cup {r}
    BY <1>3 DEF Adds
  <1>5. Mail(inFlight)'
    BY <1>1, <1>4 DEF Mail
  <1> USE DEF B
  <1> QED
    BY <1>4, <1>5, EntersWith

LEMMA EnteringTwice ==
    ASSUME Mail(inFlight), NEW m \in BagToSet(inFlight),
           NEW q, Sound(q), q.age # "stray", NEW r, Sound(r), r.age # "stray",
           inFlight' = (Aged(Rest(m)) (+) SetToBag({q})) (+) SetToBag({r})
    PROVE  Enters(m, {q, r})
  <1> DEFINE B == Aged(Rest(m))
             C == B (+) SetToBag({q})
  <1>1. Mail(B)
    BY OthersOlder
  <1>2. inFlight' = C (+) SetToBag({r})
    OBVIOUS
  <1> HIDE DEF B
  <1>3. IsABag(C) /\ BagToSet(C) = BagToSet(B) \cup {q}
    BY <1>1, AddOne DEF Mail, Adds
  <1> HIDE DEF C
  <1>4. Adds(C, inFlight', r)
    BY <1>2, <1>3, AddOne
  <1>5. IsABag(inFlight') /\ BagToSet(inFlight)' = BagToSet(B) \cup {q, r}
    BY <1>3, <1>4 DEF Adds
  <1>6. Mail(inFlight)'
    BY <1>1, <1>5 DEF Mail
  <1> DEFINE S == {q, r}
  <1>7. (\A s \in S : s.age # "stray") /\ BagToSet(inFlight)' = BagToSet(B) \cup S
    BY <1>5
  <1> HIDE DEF S
  <1> USE DEF B
  <1>8. Enters(m, S)
    BY <1>6, <1>7, EntersWith
  <1> QED
    BY <1>8 DEF S

\* What is left of the messages of the page that is gone.
LEMMA Restarting ==
    ASSUME NEW bag, Mail(bag), None \notin Games, LoadAgain(bag)
    PROVE  Restarts
  <1> DEFINE U == [m \in {n \in BagToSet(bag) : n.answer = "asked"} |-> bag[m]]
             new == [age \in Ages |-> "stray"]
             B == Reaged(U, new)
             f == Message("FIRST_LOAD", None)
  <1>1. /\ IsABag(U) /\ BagToSet(U) = {n \in BagToSet(bag) : n.answer = "asked"}
    <2>1. bag \in [DOMAIN bag -> {n \in Nat : n > 0}]
      BY DEF Mail, IsABag
    <2> QED
      BY <2>1 DEF IsABag, BagToSet
  <1>2. new \in [Ages -> Ages]
    BY DEF Ages
  <1>3. inFlight' = B (+) SetToBag({f})
    BY DEF LoadAgain, Sent
  <1>4. \A n \in BagToSet(U) : Sound(n) /\ n.answer = "asked"
    BY <1>1 DEF Mail
  <1>5. \A n \in BagToSet(U) : n \in Messages /\ n.age \in Ages
    BY <1>4 DEF Sound, Messages
  <1>6. IsABag(B) /\ BagToSet(B) = {As(n, new[n.age]) : n \in BagToSet(U)}
    <2> HIDE DEF U, new
    <2> QED
      BY <1>1, <1>2, <1>5, ReagedMessages
  <1>7. \A n \in BagToSet(U) : new[n.age] = "stray"
    BY <1>5
  <1> HIDE DEF U, new, B
  <1>8. \A k \in BagToSet(B) : \E n \in BagToSet(U) : k = As(n, "stray")
    BY <1>6, <1>7
  <1>9. \A k \in BagToSet(B) : Sound(k) /\ k.age = "stray"
    <2> TAKE k \in BagToSet(B)
    <2>1. PICK n \in BagToSet(U) : k = As(n, "stray")
      BY <1>8
    <2>2. "stray" \in Ages
      BY DEF Ages
    <2> QED
      BY <1>4, <1>5, <2>1, <2>2, AsFields DEF Sound
  <1>10. Sound(f) /\ f.age = "now"
    BY NewMessage DEF Ops
  <1> HIDE DEF f
  <1>11. Adds(B, inFlight', f)
    BY <1>3, <1>6, AddOne
  <1>12. Mail(inFlight)' /\ Live' = {f}
    BY <1>9, <1>10, <1>11 DEF Adds, Mail, Live
  <1>13. inFlight'[f] = 1
    BY <1>9, <1>10, <1>11 DEF Adds
  <1> QED
    BY <1>12, <1>13 DEF Restarts, f

-----------------------------------------------------------------------------
(* The page.                                                               *)

LEMMA LoadedFields ==
    ASSUME NEW hash \in Games \cup {None}
    PROVE  LET p == Loaded(hash) IN
           /\ p \in Pages /\ p.hash = hash
           /\ ~p.registered /\ ~p.sets /\ p.open = {} /\ ~p.list /\ p.polls = 0
           /\ p.autojoinGameId = None /\ ~p.hasAutojoinedGame /\ ~p.hasRetriedFirstLoad
  BY DEF Loaded, Pages

LEMMA ShownFields ==
    ASSUME NEW p \in Pages
    PROVE  LET q == Shown(p) IN
           /\ q \in Pages /\ q.sets
           /\ q.registered = p.registered /\ q.open = p.open /\ q.list = p.list /\ q.polls = p.polls
           /\ q.hash = p.hash /\ q.autojoinGameId = p.autojoinGameId
           /\ q.hasAutojoinedGame = p.hasAutojoinedGame /\ q.hasRetriedFirstLoad = p.hasRetriedFirstLoad
  BY DEF Shown, Pages

LEMMA RegisteredFields ==
    ASSUME NEW p \in Pages
    PROVE  LET q == Registered(p) IN
           /\ q \in Pages /\ q.registered /\ q.list /\ q.polls = p.polls + 1
           /\ q.sets = p.sets /\ q.open = p.open /\ q.hash = p.hash
           /\ q.hasAutojoinedGame = p.hasAutojoinedGame /\ q.hasRetriedFirstLoad = p.hasRetriedFirstLoad
  <1> DEFINE auto == IF p.hash # None THEN p.hash ELSE p.autojoinGameId
  <1>1. auto \in Games \cup {None} /\ p.polls + 1 \in Nat
    BY DEF Pages
  <1>2. Registered(p) = [p EXCEPT !.registered = TRUE, !.list = TRUE, !.polls = p.polls + 1,
                                  !.autojoinGameId = auto]
    BY DEF Registered, Pages
  <1> HIDE DEF auto
  <1> QED
    BY <1>1, <1>2 DEF Pages

LEMMA EnteredFields ==
    ASSUME NEW p \in Pages, NEW g \in Games
    PROVE  LET q == Entered(p, g) IN
           /\ q \in Pages /\ q.open = p.open \cup {g} /\ ~q.list /\ q.hash = g
           /\ q.registered = p.registered /\ q.sets = p.sets /\ q.polls = p.polls
           /\ q.autojoinGameId = p.autojoinGameId
           /\ q.hasAutojoinedGame = p.hasAutojoinedGame /\ q.hasRetriedFirstLoad = p.hasRetriedFirstLoad
  BY DEF Entered, Pages

LEMMA BackFields ==
    ASSUME NEW p \in Pages, NEW g \in Games
    PROVE  LET q == BackInLobby(p, g) IN
           /\ q \in Pages /\ q.open = p.open \ {g} /\ q.list
           /\ q.hash = IF g \in p.open THEN None ELSE p.hash
           /\ q.registered = p.registered /\ q.sets = p.sets /\ q.polls = p.polls
           /\ q.autojoinGameId = p.autojoinGameId
           /\ q.hasAutojoinedGame = p.hasAutojoinedGame /\ q.hasRetriedFirstLoad = p.hasRetriedFirstLoad
  BY DEF BackInLobby, Pages

\* A page that enters a game when it is loaded.
LEMMA ResumedFields ==
    ASSUME NEW p \in Pages, NEW g \in Games
    PROVE  LET q == [Entered(Registered(Shown(p)), g) EXCEPT !.hasAutojoinedGame = TRUE] IN
           /\ q \in Pages /\ q.registered /\ q.sets /\ q.open = p.open \cup {g} /\ ~q.list /\ q.hash = g
           /\ q.polls = p.polls + 1 /\ q.hasAutojoinedGame
           /\ q.hasRetriedFirstLoad = p.hasRetriedFirstLoad
  <1> DEFINE s == Shown(p)
             r == Registered(s)
             e == Entered(r, g)
  <1>1. s \in Pages /\ s.sets /\ s.open = p.open /\ s.polls = p.polls /\ s.hasRetriedFirstLoad = p.hasRetriedFirstLoad
    BY ShownFields
  <1> HIDE DEF s
  <1>2. /\ r \in Pages /\ r.registered /\ r.sets /\ r.open = p.open /\ r.polls = p.polls + 1
        /\ r.hasRetriedFirstLoad = p.hasRetriedFirstLoad
    BY <1>1, RegisteredFields
  <1> HIDE DEF r
  <1>3. /\ e \in Pages /\ e.registered /\ e.sets /\ e.open = p.open \cup {g} /\ e.polls = p.polls + 1
        /\ ~e.list /\ e.hash = g /\ e.hasRetriedFirstLoad = p.hasRetriedFirstLoad
    BY <1>2, EnteredFields
  <1> HIDE DEF e
  <1> DEFINE q == [e EXCEPT !.hasAutojoinedGame = TRUE]
  <1>4. /\ q \in Pages /\ q.registered /\ q.sets /\ q.open = p.open \cup {g} /\ ~q.list /\ q.hash = g
        /\ q.polls = p.polls + 1 /\ q.hasAutojoinedGame
        /\ q.hasRetriedFirstLoad = p.hasRetriedFirstLoad
    BY <1>3 DEF Pages
  <1> QED
    BY <1>4 DEF e, r, s

LEMMA AgedNoticesType ==
    ASSUME notices \in Seq(Notices)
    PROVE  /\ AgedNotices \in Seq(Notices) /\ DOMAIN AgedNotices = DOMAIN notices
           /\ \A i \in DOMAIN notices : AgedNotices[i].age = "before" /\ AgedNotices[i].game = notices[i].game
  <1>1. \A i \in DOMAIN notices : notices[i] \in Notices
    OBVIOUS
  <1>2. \A i \in DOMAIN notices : /\ AgedNotices[i] = [notices[i] EXCEPT !.age = "before"]
                                  /\ AgedNotices[i] \in Notices
    BY <1>1 DEF AgedNotices, Notices, Ages
  <1>3. AgedNotices \in Seq(Notices) /\ DOMAIN AgedNotices = DOMAIN notices
    <2>1. DOMAIN notices = 1..Len(notices) /\ Len(notices) \in Nat
      OBVIOUS
    <2> DEFINE F(i) == [notices[i] EXCEPT !.age = "before"]
    <2>2. \A i \in 1..Len(notices) : F(i) \in Notices
      BY <1>2, <2>1 DEF AgedNotices
    <2>3. AgedNotices = [i \in 1..Len(notices) |-> F(i)]
      BY <2>1 DEF AgedNotices
    <2> HIDE DEF F
    <2> QED
      BY <2>1, <2>2, <2>3
  <1> QED
    BY <1>1, <1>2, <1>3 DEF Notices

-----------------------------------------------------------------------------
(* What the steps do.                                                      *)

ClickEffects ==
    /\ RegisterClick => Sends(Message("REGISTER", None))
    /\ CreateClick => Sends(Message("CREATE", None))
    /\ LogoutClick => Sends(Message("LOG_OUT", None))
    /\ Reload => Restarts
    /\ \A g \in Games : /\ JoinClick(g) => Sends(Message("JOIN", g))
                        /\ LeaveClick(g) => Sends(Message("LEAVE", g))
    /\ ThrownOut => Sends(Message("GAME_LIST", None))

LEMMA Clicks == SessionType => ClickEffects
  <1> SUFFICES ASSUME SessionType PROVE ClickEffects
    OBVIOUS
  <1>1. Mail(inFlight) /\ None \notin Games
    BY GamesAssumption DEF SessionType
  <1>2. ASSUME NEW op \in Ops, NEW g \in Games \cup {None}, op \in {"JOIN", "LEAVE", "INFO"} => g \in Games,
               inFlight' = inFlight (+) Sent(op, g)
        PROVE  Sends(Message(op, g))
    <2> DEFINE r == Message(op, g)
    <2>1. Sound(r) /\ r.age = "now"
      BY <1>2, NewMessage
    <2>2. inFlight' = inFlight (+) SetToBag({r})
      BY <1>2 DEF Sent
    <2> HIDE DEF r
    <2>3. Sends(r)
      BY <1>1, <2>1, <2>2, Asking
    <2> QED
      BY <2>3 DEF r
  <1>3. {"REGISTER", "CREATE", "LOG_OUT", "JOIN", "LEAVE", "GAME_LIST"} \subseteq Ops
    BY DEF Ops
  <1>4. RegisterClick => Sends(Message("REGISTER", None))
    BY <1>2, <1>3 DEF RegisterClick, Ask
  <1>5. CreateClick => Sends(Message("CREATE", None))
    BY <1>2, <1>3 DEF CreateClick, Ask
  <1>6. LogoutClick => Sends(Message("LOG_OUT", None))
    BY <1>2, <1>3 DEF LogoutClick, Ask
  <1>7. ThrownOut => Sends(Message("GAME_LIST", None))
    BY <1>2, <1>3 DEF ThrownOut
  <1>8. \A g \in Games : JoinClick(g) => Sends(Message("JOIN", g))
    BY <1>2, <1>3 DEF JoinClick, Ask
  <1>9. \A g \in Games : LeaveClick(g) => Sends(Message("LEAVE", g))
    BY <1>2, <1>3 DEF LeaveClick, Ask
  <1>10. Reload => Restarts
    BY <1>1, Restarting DEF Reload
  <1> QED
    BY <1>4, <1>5, <1>6, <1>7, <1>8, <1>9, <1>10 DEF ClickEffects

\* The request m is answered; nobody hears the answer to a stray one.
Served(m, answer, g) ==
    /\ Mail(inFlight)'
    /\ m.age = "stray" => Keeps
    /\ m.age # "stray" => \E r : /\ Replaces(m, r) /\ r.op = m.op /\ r.age = m.age
                                 /\ r.answer = answer /\ r.game = g

LEMMA AnsweredServed ==
    ASSUME Mail(inFlight), NEW m \in BagToSet(inFlight), m.answer = "asked",
           NEW answer, NEW g, NEW list, Fitting(m, answer, g, list), Answered(m, answer, g, list)
    PROVE  Served(m, answer, g)
  <1>1. Sound(m)
    BY DEF Mail
  <1>2. /\ m.age = "stray" => Keeps
        /\ m.age # "stray" => Replaces(m, Reply(m, answer, g, list))
    BY Answering
  <1>3. CASE m.age = "stray"
    BY <1>2, <1>3 DEF Served, Keeps
  <1>4. CASE m.age # "stray"
    <2> DEFINE r == Reply(m, answer, g, list)
    <2>1. Replaces(m, r) /\ r.op = m.op /\ r.age = m.age /\ r.answer = answer /\ r.game = g
      BY <1>1, <1>2, <1>4, ReplyFields
    <2> HIDE DEF r
    <2>2. Mail(inFlight)'
      BY <2>1 DEF Replaces
    <2> QED
      BY <1>4, <2>1, <2>2 DEF Served
  <1> QED
    BY <1>3, <1>4

Unmoved == UNCHANGED <<session, at, games, notices, slips>>

ServeEffects(m) ==
    /\ ServeExpired(m) => Served(m, "expired", m.game)
    /\ ServeUnregistered(m) => Served(m, "refused", m.game)
    /\ ServeFirstLoad(m) => Served(m, IF session = "valid" THEN "resumed" ELSE "fresh", at)
    /\ ServeRegister(m) =>
          \/ /\ session' = "valid" /\ at' = None /\ notices' = <<>> /\ games' = games
             /\ slips' = slips \cup {x \in {"hasty", "stray"} :
                                        IF x = "hasty" THEN session = "valid" ELSE Strays(m)}
             /\ Served(m, "ok", None)
          \/ Unmoved /\ Served(m, "refused", None)
    /\ ServeList(m) => Served(m, "ok", None)
    /\ ServeJoin(m) =>
          \/ /\ m.game \in games /\ at = None /\ at' = m.game /\ Slip("stray", Strays(m))
             /\ UNCHANGED <<session, games, notices>> /\ Served(m, "ok", m.game)
          \/ Unmoved /\ \E answer \in {"refused", "invalid"} : Served(m, answer, m.game)
    /\ ServeCreate(m) =>
          \/ /\ at = None /\ Slip("stray", Strays(m)) /\ UNCHANGED <<session, notices>>
             /\ \E g \in Games : at' = g /\ games' = games \cup {g} /\ Served(m, "ok", g)
          \/ Unmoved /\ Served(m, "refused", None)
    /\ ServeLeave(m) =>
          \/ /\ m.game = at /\ at' = None /\ games' \in SUBSET games /\ Slip("stray", Strays(m))
             /\ UNCHANGED <<session, notices>> /\ Served(m, "ok", m.game)
          \/ /\ Unmoved
             /\ IF m.game \in games THEN Served(m, "refused", m.game)
                ELSE Served(m, "invalid", m.game)
    /\ ServeInfo(m) => Served(m, IF m.game \in games THEN "ok" ELSE "invalid", m.game)
    /\ ServeLogout(m) => Served(m, "ok", None)

LEMMA Serves ==
    ASSUME SessionType, NEW m \in BagToSet(inFlight), m.answer = "asked"
    PROVE  ServeEffects(m)
  <1>1. Mail(inFlight) /\ Sound(m) /\ games \subseteq Games /\ at \in Games \cup {None}
    BY DEF SessionType, Mail
  <1>2. m.game \in Games \cup {None} /\ {} \subseteq Games
    BY <1>1 DEF Sound, Messages
  <1>3. ASSUME NEW answer \in Answers \ {"asked"}, NEW g \in Games \cup {None}, NEW list, list \subseteq Games,
               m.op \in {"JOIN", "LEAVE", "INFO"} => g \in Games,
               m.op = "CREATE" /\ answer = "ok" => g \in Games, Answered(m, answer, g, list)
        PROVE  Served(m, answer, g)
    <2>1. Fitting(m, answer, g, list)
      BY <1>3 DEF Fitting
    <2> QED
      BY <1>1, <1>3, <2>1, AnsweredServed
  <1>4. ASSUME NEW answer \in Answers \ {"asked", "ok"}, Answered(m, answer, m.game, {})
        PROVE  Served(m, answer, m.game)
    <2>1. m.op \in {"JOIN", "LEAVE", "INFO"} => m.game \in Games
      BY <1>1 DEF Sound
    <2> QED
      BY <1>2, <1>3, <1>4, <2>1
  <1>5. {"ok", "refused", "invalid", "expired", "resumed", "fresh"} \subseteq Answers \ {"asked"}
    BY DEF Answers
  <1>6. ServeExpired(m) => Served(m, "expired", m.game)
    BY <1>4, <1>5 DEF ServeExpired
  <1>7. ServeUnregistered(m) => Served(m, "refused", m.game)
    BY <1>4, <1>5 DEF ServeUnregistered
  <1>8. ServeFirstLoad(m) => Served(m, IF session = "valid" THEN "resumed" ELSE "fresh", at)
    BY <1>1, <1>2, <1>3, <1>5 DEF ServeFirstLoad
  <1>9. ServeList(m) => Served(m, "ok", None)
    BY <1>1, <1>3, <1>5 DEF ServeList
  <1>10. ServeInfo(m) => Served(m, IF m.game \in games THEN "ok" ELSE "invalid", m.game)
    <2>1. m.op = "INFO" => m.game \in Games
      BY <1>1 DEF Sound
    <2> QED
      BY <1>2, <1>3, <1>5, <2>1 DEF ServeInfo
  <1>11. ServeLogout(m) => Served(m, "ok", None)
    BY <1>2, <1>3, <1>5 DEF ServeLogout
  <1>12. m.op = "REGISTER" /\ Answered(m, "ok", None, {}) => Served(m, "ok", None)
    BY <1>2, <1>3, <1>5
  <1>13. m.op = "REGISTER" /\ Answered(m, "refused", None, {}) => Served(m, "refused", None)
    BY <1>2, <1>3, <1>5
  <1>14. m.op \in {"JOIN", "LEAVE"} /\ Answered(m, "ok", m.game, {}) => Served(m, "ok", m.game)
    <2>1. m.op \in {"JOIN", "LEAVE"} => m.game \in Games
      BY <1>1 DEF Sound
    <2> QED
      BY <1>2, <1>3, <1>5, <2>1
  <1>15. \A g \in Games : m.op = "CREATE" /\ Answered(m, "ok", g, {}) => Served(m, "ok", g)
    BY <1>2, <1>3, <1>5
  <1>16. \A answer \in {"refused", "invalid"} : Answered(m, answer, m.game, {}) => Served(m, answer, m.game)
    BY <1>4, <1>5
  <1> HIDE DEF Served
  <1>17. ServeRegister(m) =>
          \/ /\ session' = "valid" /\ at' = None /\ notices' = <<>> /\ games' = games
             /\ slips' = slips \cup {x \in {"hasty", "stray"} :
                                        IF x = "hasty" THEN session = "valid" ELSE Strays(m)}
             /\ Served(m, "ok", None)
          \/ Unmoved /\ Served(m, "refused", None)
    BY <1>12, <1>13 DEF ServeRegister, Unmoved
  <1>18. ServeJoin(m) =>
          \/ /\ m.game \in games /\ at = None /\ at' = m.game /\ Slip("stray", Strays(m))
             /\ UNCHANGED <<session, games, notices>> /\ Served(m, "ok", m.game)
          \/ Unmoved /\ \E answer \in {"refused", "invalid"} : Served(m, answer, m.game)
    BY <1>14, <1>16 DEF ServeJoin, Unmoved
  <1>19. ServeCreate(m) =>
          \/ /\ at = None /\ Slip("stray", Strays(m)) /\ UNCHANGED <<session, notices>>
             /\ \E g \in Games : at' = g /\ games' = games \cup {g} /\ Served(m, "ok", g)
          \/ Unmoved /\ Served(m, "refused", None)
    <2> SUFFICES ASSUME ServeCreate(m)
                 PROVE  \/ /\ at = None /\ Slip("stray", Strays(m)) /\ UNCHANGED <<session, notices>>
                           /\ \E g \in Games : at' = g /\ games' = games \cup {g} /\ Served(m, "ok", g)
                        \/ Unmoved /\ Served(m, "refused", None)
      OBVIOUS
    <2>1. m.op = "CREATE" /\ UNCHANGED <<session, notices>>
      BY DEF ServeCreate
    <2>2. CASE /\ at = None /\ Slip("stray", Strays(m))
               /\ \E g \in Games \ games : at' = g /\ games' = games \cup {g} /\ Answered(m, "ok", g, {})
      <3>1. PICK g \in Games \ games : at' = g /\ games' = games \cup {g} /\ Answered(m, "ok", g, {})
        BY <2>2
      <3>2. Served(m, "ok", g)
        BY <1>15, <2>1, <3>1
      <3> QED
        BY <2>1, <2>2, <3>1, <3>2
    <2>3. CASE Answered(m, "refused", None, {}) /\ UNCHANGED <<at, games, slips>>
      <3>1. Served(m, "refused", None)
        BY <1>2, <1>3, <1>5, <2>1, <2>3
      <3> QED
        BY <2>1, <2>3, <3>1 DEF Unmoved
    <2> QED
      BY <2>2, <2>3 DEF ServeCreate
  <1>20. ServeLeave(m) =>
          \/ /\ m.game = at /\ at' = None /\ games' \in SUBSET games /\ Slip("stray", Strays(m))
             /\ UNCHANGED <<session, notices>> /\ Served(m, "ok", m.game)
          \/ /\ Unmoved
             /\ IF m.game \in games THEN Served(m, "refused", m.game)
                ELSE Served(m, "invalid", m.game)
    BY <1>14, <1>16 DEF ServeLeave, Unmoved
  <1> QED
    BY <1>6, <1>7, <1>8, <1>9, <1>10, <1>11, <1>17, <1>18, <1>19, <1>20 DEF ServeEffects

Resumes(m) == m.answer = "resumed" /\ ~IntoGame(m)

LearnEffects(m) ==
    /\ m.age # "stray"
    /\ LearnFirstLoad(m) =>
          \/ /\ IntoGame(m) /\ m.game \in Games
             /\ page' = [Entered(Registered(Shown(page)), m.game) EXCEPT !.hasAutojoinedGame = TRUE]
             /\ Enters(m, {Message("GAME_LIST", None), Message("INFO", m.game)}) /\ notices' = AgedNotices
          \/ /\ Resumes(m) /\ page' = Registered(Shown(page))
             /\ Replaces(m, Message("GAME_LIST", None)) /\ notices' = notices
          \/ m.answer = "fresh" /\ page' = Shown(page) /\ Forgets(m) /\ notices' = notices
          \/ /\ Retries(m) /\ page' = [page EXCEPT !.hasRetriedFirstLoad = TRUE]
             /\ Replaces(m, Message("FIRST_LOAD", None)) /\ notices' = notices
          \/ /\ m.answer \notin {"resumed", "fresh"} /\ ~Retries(m)
             /\ Forgets(m) /\ UNCHANGED <<page, notices>>
    /\ LearnRegister(m) =>
          \/ m.answer = "ok" /\ page' = Registered(page) /\ Replaces(m, Message("GAME_LIST", None))
          \/ m.answer # "ok" /\ page' = page /\ Forgets(m)
    /\ LearnList(m) =>
          \/ /\ page.autojoinGameId # None /\ ~page.hasAutojoinedGame
             /\ page' = [page EXCEPT !.autojoinGameId = None]
             /\ Replaces(m, Message("JOIN", page.autojoinGameId)) /\ Slip("late", m.age = "before")
          \/ /\ page.autojoinGameId # None /\ ~page.hasAutojoinedGame
             /\ page' = [page EXCEPT !.autojoinGameId = None, !.hash = None]
             /\ Forgets(m) /\ Slip("late", m.age = "before")
          \/ Forgets(m) /\ UNCHANGED <<page, slips>>
    /\ LearnListUnread(m) => Forgets(m)
    /\ LearnJoin(m) =>
          \/ /\ Entry(m) /\ m.game \in Games /\ page' = Entered(page, m.game)
             /\ Enters(m, {Message("INFO", m.game)}) /\ notices' = AgedNotices
             /\ Slip("late", m.age = "before")
          \/ m.answer # "ok" /\ Forgets(m) /\ UNCHANGED <<page, notices, slips>>
    /\ LearnLeave(m) =>
          \/ /\ Exit(m) /\ m.game \in Games /\ page' = BackInLobby(page, m.game)
             /\ Replaces(m, Message("GAME_LIST", None))
             /\ Slip("late", m.age = "before" \/ Overtakes)
          \/ ~Exit(m) /\ Forgets(m) /\ UNCHANGED <<page, slips>>
    /\ LearnLogout(m) => Restarts

LEMMA Learns ==
    ASSUME SessionType, NEW m \in BagToSet(inFlight), m.answer # "asked"
    PROVE  LearnEffects(m)
  <1>1. Mail(inFlight) /\ Sound(m) /\ page \in Pages
    BY DEF SessionType, Mail
  <1>2. m.age # "stray" /\ m.game \in Games \cup {None}
    BY <1>1 DEF Sound, Messages
  <1>3. ASSUME inFlight' = Rest(m) PROVE Forgets(m)
    BY <1>1, <1>3, Forgetting
  <1>4. ASSUME NEW op \in Ops, NEW g \in Games \cup {None}, op \in {"JOIN", "LEAVE", "INFO"} => g \in Games,
               inFlight' = Rest(m) (+) Sent(op, g)
        PROVE  Replaces(m, Message(op, g))
    <2> DEFINE r == Message(op, g)
    <2>1. Sound(r) /\ r.age = "now" /\ r.answer = "asked"
      BY <1>4, NewMessage
    <2>2. inFlight' = Rest(m) (+) SetToBag({r})
      BY <1>4 DEF Sent
    <2>3. r # m
      BY <2>1
    <2> HIDE DEF r
    <2>4. Replaces(m, r)
      BY <1>1, <2>1, <2>2, <2>3, Replacing
    <2> QED
      BY <2>4 DEF r
  <1>5. {"FIRST_LOAD", "GAME_LIST", "JOIN", "INFO"} \subseteq Ops
    BY DEF Ops
  <1>6. inFlight' = Rest(m) (+) Sent("GAME_LIST", None) => Replaces(m, Message("GAME_LIST", None))
    BY <1>4, <1>5
  <1>7. inFlight' = Rest(m) (+) Sent("FIRST_LOAD", None) => Replaces(m, Message("FIRST_LOAD", None))
    BY <1>4, <1>5
  <1>8. ASSUME m.game \in Games, inFlight' = Aged(Rest(m)) (+) Sent("INFO", m.game)
        PROVE  Enters(m, {Message("INFO", m.game)})
    <2> DEFINE r == Message("INFO", m.game)
    <2>1. Sound(r) /\ r.age = "now"
      BY <1>5, <1>8, NewMessage
    <2>2. inFlight' = Aged(Rest(m)) (+) SetToBag({r})
      BY <1>8 DEF Sent
    <2> HIDE DEF r
    <2>3. Enters(m, {r})
      BY <1>1, <2>1, <2>2, Entering
    <2> QED
      BY <2>3 DEF r
  <1>9. ASSUME m.game \in Games,
               inFlight' = Aged(Rest(m)) (+) Sent("GAME_LIST", None) (+) Sent("INFO", m.game)
        PROVE  Enters(m, {Message("GAME_LIST", None), Message("INFO", m.game)})
    <2> DEFINE q == Message("GAME_LIST", None)
               r == Message("INFO", m.game)
    <2>1. Sound(r) /\ r.age = "now" /\ Sound(q) /\ q.age = "now"
      BY <1>5, <1>9, NewMessage
    <2>2. inFlight' = (Aged(Rest(m)) (+) SetToBag({q})) (+) SetToBag({r})
      BY <1>9 DEF Sent
    <2> HIDE DEF r, q
    <2>3. Enters(m, {q, r})
      BY <1>1, <2>1, <2>2, EnteringTwice
    <2> QED
      BY <2>3 DEF q, r
  <1>10. LearnFirstLoad(m) =>
          \/ /\ IntoGame(m) /\ m.game \in Games
             /\ page' = [Entered(Registered(Shown(page)), m.game) EXCEPT !.hasAutojoinedGame = TRUE]
             /\ Enters(m, {Message("GAME_LIST", None), Message("INFO", m.game)}) /\ notices' = AgedNotices
          \/ /\ Resumes(m) /\ page' = Registered(Shown(page))
             /\ Replaces(m, Message("GAME_LIST", None)) /\ notices' = notices
          \/ m.answer = "fresh" /\ page' = Shown(page) /\ Forgets(m) /\ notices' = notices
          \/ /\ Retries(m) /\ page' = [page EXCEPT !.hasRetriedFirstLoad = TRUE]
             /\ Replaces(m, Message("FIRST_LOAD", None)) /\ notices' = notices
          \/ /\ m.answer \notin {"resumed", "fresh"} /\ ~Retries(m)
             /\ Forgets(m) /\ UNCHANGED <<page, notices>>
    <2> SUFFICES ASSUME LearnFirstLoad(m)
                 PROVE  \/ /\ IntoGame(m) /\ m.game \in Games
                           /\ page' = [Entered(Registered(Shown(page)), m.game) EXCEPT !.hasAutojoinedGame = TRUE]
                           /\ Enters(m, {Message("GAME_LIST", None), Message("INFO", m.game)})
                           /\ notices' = AgedNotices
                        \/ /\ Resumes(m) /\ page' = Registered(Shown(page))
                           /\ Replaces(m, Message("GAME_LIST", None)) /\ notices' = notices
                        \/ m.answer = "fresh" /\ page' = Shown(page) /\ Forgets(m) /\ notices' = notices
                        \/ /\ Retries(m) /\ page' = [page EXCEPT !.hasRetriedFirstLoad = TRUE]
                           /\ Replaces(m, Message("FIRST_LOAD", None)) /\ notices' = notices
                        \/ /\ m.answer \notin {"resumed", "fresh"} /\ ~Retries(m)
                           /\ Forgets(m) /\ UNCHANGED <<page, notices>>
      OBVIOUS
    <2>1. CASE IntoGame(m)
      <3>1. /\ page' = [Entered(Registered(Shown(page)), m.game) EXCEPT !.hasAutojoinedGame = TRUE]
            /\ inFlight' = Aged(Rest(m)) (+) Sent("GAME_LIST", None) (+) Sent("INFO", m.game)
            /\ notices' = AgedNotices
        BY <2>1 DEF LearnFirstLoad, IntoGame, Retries
      <3>2. m.game \in Games
        BY <1>2, <2>1 DEF IntoGame
      <3> QED
        BY <1>9, <2>1, <3>1, <3>2
    <2>2. CASE Resumes(m)
      <3>1. /\ page' = Registered(Shown(page)) /\ notices' = notices
            /\ inFlight' = Rest(m) (+) Sent("GAME_LIST", None)
        BY <2>2 DEF LearnFirstLoad, IntoGame, Retries, Resumes
      <3> QED
        BY <1>6, <2>2, <3>1
    <2>3. CASE m.answer = "fresh"
      <3>1. page' = Shown(page) /\ inFlight' = Rest(m) /\ notices' = notices
        BY <2>3 DEF LearnFirstLoad, IntoGame, Retries
      <3> QED
        BY <1>3, <2>3, <3>1
    <2>4. CASE Retries(m)
      <3>1. /\ page' = [page EXCEPT !.hasRetriedFirstLoad = TRUE] /\ notices' = notices
            /\ inFlight' = Rest(m) (+) Sent("FIRST_LOAD", None)
        BY <2>4 DEF LearnFirstLoad, IntoGame, Retries
      <3> QED
        BY <1>7, <2>4, <3>1
    <2>5. CASE m.answer \notin {"resumed", "fresh"} /\ ~Retries(m)
      <3>1. inFlight' = Rest(m) /\ UNCHANGED <<page, notices>>
        BY <2>5 DEF LearnFirstLoad, IntoGame, Retries
      <3> QED
        BY <1>3, <2>5, <3>1
    <2> QED
      BY <2>1, <2>2, <2>3, <2>4, <2>5 DEF Resumes
  <1>11. LearnRegister(m) =>
          \/ m.answer = "ok" /\ page' = Registered(page) /\ Replaces(m, Message("GAME_LIST", None))
          \/ m.answer # "ok" /\ page' = page /\ Forgets(m)
    BY <1>3, <1>6 DEF LearnRegister, Accepted
  <1>12. LearnList(m) =>
          \/ /\ page.autojoinGameId # None /\ ~page.hasAutojoinedGame
             /\ page' = [page EXCEPT !.autojoinGameId = None]
             /\ Replaces(m, Message("JOIN", page.autojoinGameId)) /\ Slip("late", m.age = "before")
          \/ /\ page.autojoinGameId # None /\ ~page.hasAutojoinedGame
             /\ page' = [page EXCEPT !.autojoinGameId = None, !.hash = None]
             /\ Forgets(m) /\ Slip("late", m.age = "before")
          \/ Forgets(m) /\ UNCHANGED <<page, slips>>
    <2>1. page.autojoinGameId \in Games \cup {None}
      BY <1>1 DEF Pages
    <2>2. page.autojoinGameId # None /\ inFlight' = Rest(m) (+) Sent("JOIN", page.autojoinGameId)
             => Replaces(m, Message("JOIN", page.autojoinGameId))
      BY <1>4, <1>5, <2>1
    <2> QED
      BY <1>3, <2>2 DEF LearnList
  <1>13. LearnListUnread(m) => Forgets(m)
    BY <1>3 DEF LearnListUnread
  <1>14. LearnJoin(m) =>
          \/ /\ Entry(m) /\ m.game \in Games /\ page' = Entered(page, m.game)
             /\ Enters(m, {Message("INFO", m.game)}) /\ notices' = AgedNotices
             /\ Slip("late", m.age = "before")
          \/ m.answer # "ok" /\ Forgets(m) /\ UNCHANGED <<page, notices, slips>>
    <2>1. m.op \in {"JOIN", "CREATE"} /\ m.answer = "ok" => m.game \in Games
      BY <1>1 DEF Sound
    <2> QED
      BY <1>3, <1>8, <2>1 DEF LearnJoin, Entry
  <1>15. LearnLeave(m) =>
          \/ /\ Exit(m) /\ m.game \in Games /\ page' = BackInLobby(page, m.game)
             /\ Replaces(m, Message("GAME_LIST", None))
             /\ Slip("late", m.age = "before" \/ Overtakes)
          \/ ~Exit(m) /\ Forgets(m) /\ UNCHANGED <<page, slips>>
    <2>1. m.op \in {"LEAVE", "INFO"} => m.game \in Games
      BY <1>1 DEF Sound
    <2> QED
      BY <1>3, <1>6, <2>1 DEF LearnLeave, Exit
  <1>16. LearnLogout(m) => Restarts
    <2>1. IsABag(Rest(m)) /\ BagToSet(Rest(m)) \subseteq BagToSet(inFlight)
      BY <1>1, DropOne DEF Mail, Rest, Drops
    <2>2. Mail(Rest(m))
      BY <1>1, <2>1 DEF Mail
    <2> QED
      BY <2>2, Restarting, GamesAssumption DEF LearnLogout
  <1> QED
    BY <1>2, <1>10, <1>11, <1>12, <1>13, <1>14, <1>15, <1>16 DEF LearnEffects

-----------------------------------------------------------------------------
(* Everything stays of its kind.                                           *)

LEMMA InitMail ==
    Init => Mail(inFlight) /\ Live = {Message("FIRST_LOAD", None)} /\ inFlight[Message("FIRST_LOAD", None)] = 1
  <1> SUFFICES ASSUME Init
               PROVE  Mail(inFlight) /\ Live = {Message("FIRST_LOAD", None)} /\ inFlight[Message("FIRST_LOAD", None)] = 1
    OBVIOUS
  <1> DEFINE f == Message("FIRST_LOAD", None)
  <1>1. Sound(f) /\ f.age = "now"
    BY NewMessage DEF Ops
  <1>2. inFlight = SetToBag({f})
    BY DEF Init, Sent
  <1> HIDE DEF f
  <1>3. IsABag(inFlight) /\ BagToSet(inFlight) = {f} /\ inFlight[f] = 1
    BY <1>2 DEF SetToBag, IsABag, BagToSet
  <1>4. Mail(inFlight) /\ Live = {f}
    BY <1>1, <1>3 DEF Mail, Live
  <1> QED
    BY <1>3, <1>4 DEF f

LEMMA InitType == Init => SessionType
  <1> SUFFICES ASSUME Init PROVE SessionType
    OBVIOUS
  <1>1. Mail(inFlight)
    BY InitMail
  <1>2. page \in Pages
    BY LoadedFields DEF Init
  <1>3. notices \in Seq(Notices)
    BY DEF Init
  <1> QED
    BY <1>1, <1>2, <1>3 DEF Init, SessionType

SlipNames == {"hasty", "stray", "late", "lost"}

LEMMA MailKept ==
    /\ \A r : Sends(r) => Mail(inFlight)'
    /\ \A m : Forgets(m) => Mail(inFlight)'
    /\ \A m, r : Replaces(m, r) => Mail(inFlight)'
    /\ \A m, S : Enters(m, S) => Mail(inFlight)'
    /\ Restarts => Mail(inFlight)'
    /\ \A m, answer, g : Served(m, answer, g) => Mail(inFlight)'
  BY DEF Sends, Forgets, Replaces, Enters, Restarts, Served

LEMMA ClickType ==
    ASSUME SessionType, RegisterClick \/ CreateClick \/ LogoutClick \/ (\E g \in Games : JoinClick(g) \/ LeaveClick(g))
    PROVE  SessionType'
  <1>1. Mail(inFlight)'
    BY Clicks, MailKept DEF ClickEffects
  <1>2. UNCHANGED <<session, at, games, notices>>
    BY DEF RegisterClick, CreateClick, LogoutClick, JoinClick, LeaveClick, Ask
  <1>3. page' \in Pages
    BY DEF SessionType, Pages, RegisterClick, CreateClick, LogoutClick, JoinClick, LeaveClick
  <1>4. slips' \subseteq SlipNames
    BY DEF SessionType, Slip, SlipNames, RegisterClick, CreateClick, LogoutClick, JoinClick, LeaveClick
  <1> QED
    BY <1>1, <1>2, <1>3, <1>4 DEF SessionType, SlipNames

LEMMA LoadType ==
    ASSUME SessionType, NEW bag, LoadAgain(bag), Restarts
    PROVE  SessionType'
  <1>1. Mail(inFlight)'
    BY MailKept
  <1>2. page' \in Pages
    <2>1. page.hash \in Games \cup {None}
      BY DEF SessionType, Pages
    <2> QED
      BY <2>1, LoadedFields DEF LoadAgain
  <1>3. notices' \in Seq(Notices)
    BY AgedNoticesType DEF SessionType, LoadAgain
  <1> QED
    BY <1>1, <1>2, <1>3 DEF SessionType, LoadAgain

LEMMA ServeType ==
    ASSUME SessionType, NEW m \in BagToSet(inFlight), Serve(m)
    PROVE  SessionType'
  <1>1. m.answer = "asked" /\ ServeEffects(m) /\ Sound(m)
    BY Serves DEF Serve, SessionType, Mail
  <1>2. page' = page
    BY DEF Serve, ServeExpired, ServeUnregistered, ServeFirstLoad, ServeRegister, ServeList, ServeJoin,
           ServeCreate, ServeLeave, ServeInfo, ServeLogout
  <1>3. <<>> \in Seq(Notices)
    OBVIOUS
  <1>4. m.op = "JOIN" => m.game \in Games
    BY <1>1 DEF Sound
  <1>5. ServeExpired(m) => SessionType'
    BY <1>1, <1>2, MailKept DEF SessionType, ServeEffects, ServeExpired
  <1>6. ServeUnregistered(m) \/ ServeFirstLoad(m) \/ ServeList(m) \/ ServeInfo(m) => SessionType'
    <2>1. ASSUME ServeUnregistered(m) \/ ServeFirstLoad(m) \/ ServeList(m) \/ ServeInfo(m)
          PROVE  Mail(inFlight)' /\ Unmoved
      BY <1>1, <2>1, MailKept
         DEF ServeEffects, Unmoved, ServeUnregistered, ServeFirstLoad, ServeList, ServeInfo
    <2> SUFFICES ASSUME ServeUnregistered(m) \/ ServeFirstLoad(m) \/ ServeList(m) \/ ServeInfo(m)
                 PROVE  SessionType'
      OBVIOUS
    <2>2. Mail(inFlight)' /\ UNCHANGED <<session, at, games, notices, page, slips>>
      BY <1>2, <2>1 DEF Unmoved
    <2> QED
      BY <2>2 DEF SessionType
  <1>7. ServeRegister(m) => SessionType'
    <2> SUFFICES ASSUME ServeRegister(m) PROVE SessionType'
      OBVIOUS
    <2>1. Mail(inFlight)'
      BY <1>1, MailKept DEF ServeEffects
    <2>2. slips' \subseteq SlipNames
      BY DEF SessionType, SlipNames, ServeRegister
    <2> QED
      BY <1>2, <1>3, <2>1, <2>2 DEF SessionType, ServeRegister, SlipNames
  <1>8. ServeJoin(m) => SessionType'
    BY <1>1, <1>2, <1>4, MailKept DEF SessionType, ServeEffects, ServeJoin, Slip
  <1>9. ServeCreate(m) => SessionType'
    <2> SUFFICES ASSUME ServeCreate(m) PROVE SessionType'
      OBVIOUS
    <2>1. Mail(inFlight)'
      BY <1>1, MailKept DEF ServeEffects
    <2> QED
      BY <1>2, <2>1 DEF SessionType, ServeCreate, Slip
  <1>10. ServeLeave(m) => SessionType'
    BY <1>1, <1>2, MailKept DEF SessionType, ServeEffects, ServeLeave, Slip
  <1>11. ServeLogout(m) => SessionType'
    BY <1>1, <1>2, <1>3, MailKept DEF SessionType, ServeEffects, ServeLogout, Slip
  <1> QED
    BY <1>5, <1>6, <1>7, <1>8, <1>9, <1>10, <1>11 DEF Serve

LEMMA LearnType ==
    ASSUME SessionType, NEW m \in BagToSet(inFlight), Learn(m)
    PROVE  SessionType'
  <1>1. m.answer # "asked" /\ LearnEffects(m) /\ page \in Pages
    BY Learns DEF Learn, SessionType
  <1>2. AgedNotices \in Seq(Notices)
    BY AgedNoticesType DEF SessionType
  <1>3. LearnFirstLoad(m) => SessionType'
    <2> SUFFICES ASSUME LearnFirstLoad(m) PROVE SessionType'
      OBVIOUS
    <2>1. Mail(inFlight)'
      BY <1>1, MailKept DEF LearnEffects
    <2>2. page' \in Pages
      <3>1. Shown(page) \in Pages
        BY <1>1, ShownFields
      <3>2. Registered(Shown(page)) \in Pages
        BY <3>1, RegisteredFields
      <3>3. m.game \in Games => [Entered(Registered(Shown(page)), m.game) EXCEPT !.hasAutojoinedGame = TRUE] \in Pages
        BY <1>1, ResumedFields
      <3>4. [page EXCEPT !.hasRetriedFirstLoad = TRUE] \in Pages
        BY <1>1 DEF Pages
      <3> QED
        BY <1>1, <3>1, <3>2, <3>3, <3>4 DEF LearnEffects
    <2>3. notices' \in Seq(Notices)
      BY <1>1, <1>2 DEF LearnEffects, SessionType
    <2> QED
      BY <2>1, <2>2, <2>3 DEF SessionType, LearnFirstLoad
  <1>4. LearnRegister(m) => SessionType'
    <2> SUFFICES ASSUME LearnRegister(m) PROVE SessionType'
      OBVIOUS
    <2>1. Mail(inFlight)' /\ page' \in Pages
      BY <1>1, MailKept, RegisteredFields DEF LearnEffects
    <2> QED
      BY <2>1 DEF SessionType, LearnRegister
  <1>5. LearnList(m) => SessionType'
    <2> SUFFICES ASSUME LearnList(m) PROVE SessionType'
      OBVIOUS
    <2>1. Mail(inFlight)'
      BY <1>1, MailKept DEF LearnEffects
    <2>2. [page EXCEPT !.autojoinGameId = None] \in Pages /\ [page EXCEPT !.autojoinGameId = None, !.hash = None] \in Pages
      BY <1>1 DEF Pages
    <2>3. page' \in Pages /\ slips' \subseteq SlipNames
      BY <1>1, <2>2 DEF LearnEffects, Slip, SessionType, SlipNames
    <2> QED
      BY <2>1, <2>3 DEF SessionType, LearnList, SlipNames
  <1>6. LearnListUnread(m) => SessionType'
    BY <1>1, MailKept DEF LearnEffects, SessionType, LearnListUnread
  <1>7. LearnJoin(m) => SessionType'
    <2> SUFFICES ASSUME LearnJoin(m) PROVE SessionType'
      OBVIOUS
    <2>1. Mail(inFlight)' /\ page' \in Pages
      BY <1>1, MailKept, EnteredFields DEF LearnEffects
    <2>2. notices' \in Seq(Notices) /\ slips' \subseteq SlipNames
      BY <1>1, <1>2 DEF LearnEffects, Slip, SessionType, SlipNames
    <2> QED
      BY <2>1, <2>2 DEF SessionType, LearnJoin, SlipNames
  <1>8. LearnLeave(m) => SessionType'
    <2> SUFFICES ASSUME LearnLeave(m) PROVE SessionType'
      OBVIOUS
    <2>1. Mail(inFlight)' /\ page' \in Pages
      BY <1>1, MailKept, BackFields DEF LearnEffects
    <2>2. slips' \subseteq SlipNames
      BY <1>1 DEF LearnEffects, Slip, SessionType, SlipNames
    <2> QED
      BY <2>1, <2>2 DEF SessionType, LearnLeave, SlipNames
  <1>9. LearnLogout(m) => SessionType'
    <2> SUFFICES ASSUME LearnLogout(m) PROVE SessionType'
      OBVIOUS
    <2>1. Restarts
      BY <1>1 DEF LearnEffects
    <2> QED
      BY <2>1, LoadType DEF LearnLogout
  <1> QED
    BY <1>3, <1>4, <1>5, <1>6, <1>7, <1>8, <1>9 DEF Learn

LEMMA Loses ==
    ASSUME SessionType, NEW m \in BagToSet(inFlight), Lose(m)
    PROVE  Forgets(m) /\ SessionType'
  <1>1. Forgets(m)
    BY Forgetting DEF SessionType, Lose
  <1>2. Mail(inFlight)'
    BY <1>1, MailKept
  <1>3. slips' \subseteq SlipNames
    BY DEF Lose, SessionType, SlipNames
  <1> QED
    BY <1>1, <1>2, <1>3 DEF Lose, SessionType, SlipNames

LEMMA ThrownOutType ==
    ASSUME SessionType, ThrownOut
    PROVE  /\ SessionType'
           /\ Len(notices) > 0 /\ Head(notices) = notices[1] /\ notices[1] \in Notices
           /\ Len(notices') = Len(notices) - 1 /\ \A i \in DOMAIN notices' : notices'[i] = notices[i + 1]
  <1>1. notices # <<>> /\ notices' = Tail(notices) /\ notices \in Seq(Notices)
    BY DEF ThrownOut, SessionType
  <1>2. /\ Len(notices) > 0 /\ Head(notices) = notices[1] /\ notices[1] \in Notices
        /\ Len(notices') = Len(notices) - 1 /\ \A i \in DOMAIN notices' : notices'[i] = notices[i + 1]
        /\ notices' \in Seq(Notices)
    BY <1>1
  <1>3. Head(notices).game \in Games
    BY <1>2 DEF Notices
  <1>4. page' \in Pages
    BY <1>3, BackFields DEF ThrownOut, SessionType
  <1>5. Mail(inFlight)'
    BY Clicks, MailKept DEF ClickEffects
  <1>6. slips' \subseteq SlipNames
    BY DEF ThrownOut, Slip, SessionType, SlipNames
  <1> QED
    BY <1>2, <1>4, <1>5, <1>6 DEF ThrownOut, SessionType, SlipNames

LEMMA ServerType ==
    ASSUME SessionType, Expire \/ KickIdle \/ (\E g \in Games : GameAppears(g) \/ GameVanishes(g)) \/ UNCHANGED vars
    PROVE  SessionType' /\ Keeps
  <1>1. UNCHANGED <<inFlight, page, slips>>
    BY DEF Expire, KickIdle, GameAppears, GameVanishes, vars
  <1>2. Keeps
    BY <1>1 DEF Keeps, Counted, Live, SessionType
  <1>3. Expire => SessionType'
    BY <1>1 DEF Expire, SessionType
  <1>4. KickIdle => SessionType'
    <2> SUFFICES ASSUME KickIdle PROVE SessionType'
      OBVIOUS
    <2>1. at \in Games
      BY DEF KickIdle, SessionType
    <2>2. [game |-> at, age |-> "now"] \in Notices
      BY <2>1 DEF Notices, Ages
    <2>3. notices' \in Seq(Notices)
      BY <2>2 DEF KickIdle, SessionType
    <2> QED
      BY <1>1, <2>3 DEF KickIdle, SessionType
  <1>5. \A g \in Games : GameAppears(g) \/ GameVanishes(g) => SessionType'
    BY <1>1 DEF GameAppears, GameVanishes, SessionType
  <1>6. UNCHANGED vars => SessionType'
    BY DEF vars, SessionType
  <1> QED
    BY <1>2, <1>3, <1>4, <1>5, <1>6

LEMMA StepType == SessionType /\ [Next]_vars => SessionType'
  <1> SUFFICES ASSUME SessionType, [Next]_vars PROVE SessionType'
    OBVIOUS
  <1>1. Reload => SessionType'
    <2> SUFFICES ASSUME Reload PROVE SessionType'
      OBVIOUS
    <2>1. Restarts
      BY Clicks DEF ClickEffects
    <2> QED
      BY <2>1, LoadType DEF Reload
  <1> QED
    BY <1>1, ClickType, ServeType, LearnType, Loses, ThrownOutType, ServerType DEF Next

-----------------------------------------------------------------------------
(* The first answer.                                                       *)

Again ==
    /\ Restarts /\ page' = Loaded(page.hash) /\ notices' = AgedNotices /\ slips' = {}
    /\ UNCHANGED <<session, at, games>>

LEMMA AgainOrKept ==
    ASSUME SessionType, [Next]_vars
    PROVE  Again \/ slips \subseteq slips'
  <1>1. Reload => Again
    BY Clicks DEF ClickEffects, Reload, LoadAgain, Again
  <1>2. ASSUME NEW m \in BagToSet(inFlight), Serve(m) PROVE slips \subseteq slips'
    BY <1>2 DEF Serve, ServeExpired, ServeUnregistered, ServeFirstLoad, ServeRegister, ServeList, ServeJoin,
                ServeCreate, ServeLeave, ServeInfo, ServeLogout, Slip
  <1>3. ASSUME NEW m \in BagToSet(inFlight), Learn(m) PROVE Again \/ slips \subseteq slips'
    <2>1. LearnEffects(m)
      BY <1>3, Learns DEF Learn
    <2>2. LearnLogout(m) => Again
      BY <2>1 DEF LearnEffects, LearnLogout, LoadAgain, Again
    <2>3. LearnFirstLoad(m) \/ LearnRegister(m) \/ LearnListUnread(m) => slips' = slips
      BY DEF LearnFirstLoad, LearnRegister, LearnListUnread
    <2>4. LearnList(m) \/ LearnJoin(m) \/ LearnLeave(m) => slips \subseteq slips'
      BY DEF LearnList, LearnJoin, LearnLeave, Slip
    <2> QED
      BY <1>3, <2>2, <2>3, <2>4 DEF Learn
  <1>4. RegisterClick \/ CreateClick \/ LogoutClick => slips \subseteq slips'
    BY DEF RegisterClick, CreateClick, LogoutClick, Slip
  <1>5. \A g \in Games : JoinClick(g) \/ LeaveClick(g) \/ GameAppears(g) \/ GameVanishes(g) => slips' = slips
    BY DEF JoinClick, LeaveClick, GameAppears, GameVanishes
  <1>6. \A m : Lose(m) => slips \subseteq slips'
    BY DEF Lose
  <1>7. Expire \/ KickIdle \/ ThrownOut \/ UNCHANGED vars => slips \subseteq slips'
    BY DEF Expire, KickIdle, ThrownOut, Slip, vars
  <1> QED
    BY <1>1, <1>2, <1>3, <1>4, <1>5, <1>6, <1>7 DEF Next

NoFirstLoad == \A m \in Live : m.op # "FIRST_LOAD"

LEMMA LoadingAgain == SessionType /\ Again => Loading' /\ SetsCome'
  <1> SUFFICES ASSUME SessionType, Again PROVE Loading' /\ SetsCome'
    OBVIOUS
  <1> DEFINE f == Message("FIRST_LOAD", None)
  <1>1. f.op = "FIRST_LOAD" /\ f.age = "now" /\ f.answer = "asked"
    BY NewMessage DEF Ops
  <1>2. Live' = {f} /\ inFlight'[f] = 1
    BY DEF Again, Restarts
  <1>3. page.hash \in Games \cup {None}
    BY DEF SessionType, Pages
  <1>4. /\ ~page'.registered /\ page'.polls = 0 /\ page'.open = {} /\ ~page'.list
        /\ page'.autojoinGameId = None /\ ~page'.hasAutojoinedGame /\ ~page'.hasRetriedFirstLoad
    BY <1>3, LoadedFields DEF Again
  <1> HIDE DEF f
  <1> QED
    BY <1>1, <1>2, <1>4 DEF Loading, SetsCome

LEMMA LoadingServed ==
    ASSUME SessionType, Loading, NEW m \in BagToSet(inFlight), Serve(m)
    PROVE  Loading'
  <1>1. /\ page' = page /\ m.answer = "asked" /\ ServeEffects(m)
        /\ session' # "gone" \/ session' = session
    BY Serves DEF Serve, ServeExpired, ServeUnregistered, ServeFirstLoad, ServeRegister, ServeList,
                  ServeJoin, ServeCreate, ServeLeave, ServeInfo, ServeLogout
  <1>2. CASE m.age = "stray"
    <2>1. Keeps
      BY <1>1, <1>2 DEF Serve, ServeEffects, Served
    <2> QED
      BY <1>1, <2>1 DEF Loading, Keeps, Counted
  <1>3. CASE m.age # "stray" /\ m.op # "FIRST_LOAD"
    <2>1. PICK r : Replaces(m, r) /\ r.op = m.op
      BY <1>1, <1>3 DEF Serve, ServeEffects, Served
    <2>2. NoFirstLoad
      BY <1>3 DEF Loading, NoFirstLoad, Live
    <2>3. NoFirstLoad'
      BY <1>3, <2>1, <2>2 DEF NoFirstLoad, Replaces
    <2> QED
      BY <2>3 DEF Loading, NoFirstLoad
  <1>4. CASE m.age # "stray" /\ m.op = "FIRST_LOAD"
    <2>1. m \in Live
      BY <1>4 DEF Live
    <2>2. Live = {m} /\ inFlight[m] = 1 /\ m.age = "now"
      BY <1>4, <2>1 DEF Loading
    <2>3. PICK r : /\ Replaces(m, r) /\ r.op = "FIRST_LOAD" /\ r.age = "now"
                   /\ \/ r.answer = "expired" /\ session = "gone" /\ session' = "none"
                      \/ r.answer \in {"resumed", "fresh"} /\ session # "gone" /\ session' = session
      <3>1. ServeExpired(m) \/ ServeFirstLoad(m)
        BY <1>4 DEF Serve, ServeUnregistered, ServeRegister, ServeList, ServeJoin, ServeCreate,
                    ServeLeave, ServeInfo, ServeLogout
      <3> QED
        BY <1>1, <1>4, <2>2, <3>1 DEF ServeEffects, Served, ServeExpired, ServeFirstLoad
    <2>4. r # m
      BY <1>1, <2>3
    <2>5. Live' = {r} /\ inFlight'[r] = 1
      BY <2>2, <2>3, <2>4 DEF Replaces
    <2>6. r.answer = "expired" => ~page.hasRetriedFirstLoad
      BY <1>1, <1>4, <2>1, <2>3 DEF Loading
    <2> QED
      BY <1>1, <1>4, <2>1, <2>3, <2>5, <2>6 DEF Loading
  <1> QED
    BY <1>2, <1>3, <1>4

\* What the page makes of the first answer: there is none any more, or the next
\* first request is under way.
LEMMA LoadingHeard ==
    ASSUME SessionType, Loading, NEW m \in BagToSet(inFlight), Learn(m), LearnFirstLoad(m)
    PROVE  /\ Loading'
           /\ \/ NoFirstLoad' /\ page'.sets
              \/ SetsCome' /\ ~NoFirstLoad'
  <1>1. m \in Live /\ m.op = "FIRST_LOAD" /\ LearnEffects(m) /\ m.answer # "asked" /\ page \in Pages
    BY Learns DEF Learn, LearnFirstLoad, Live, LearnEffects, SessionType
  <1>2. /\ Live = {m} /\ inFlight[m] = 1 /\ m.answer \in {"expired", "resumed", "fresh"}
        /\ m.answer = "expired" => ~page.hasRetriedFirstLoad /\ session # "gone"
    BY <1>1 DEF Loading
  <1>3. /\ Message("GAME_LIST", None).op = "GAME_LIST"
        /\ \A g \in Games : Message("INFO", g).op = "INFO"
    BY NewMessage DEF Ops
  <1>4. CASE IntoGame(m)
    <2> DEFINE S == {Message("GAME_LIST", None), Message("INFO", m.game)}
    <2> HIDE DEF S
    <2>0. /\ m.game \in Games /\ Enters(m, S)
          /\ page' = [Entered(Registered(Shown(page)), m.game) EXCEPT !.hasAutojoinedGame = TRUE]
      BY <1>1, <1>4 DEF LearnEffects, IntoGame, Resumes, Retries, S
    <2>1. m.game \in Games /\ Live' \subseteq S
      BY <1>2, <2>0 DEF Enters
    <2>2. NoFirstLoad'
      BY <1>3, <2>1 DEF NoFirstLoad, S
    <2>3. page'.sets
      BY <1>1, <2>0, ResumedFields
    <2> QED
      BY <2>2, <2>3 DEF NoFirstLoad, Loading
  <1>5. CASE Resumes(m)
    <2>1. Live' \subseteq {Message("GAME_LIST", None)} /\ page' = Registered(Shown(page))
      BY <1>1, <1>2, <1>5 DEF LearnEffects, Replaces, IntoGame, Resumes, Retries
    <2>2. NoFirstLoad'
      BY <1>3, <2>1 DEF NoFirstLoad
    <2>3. page'.sets
      <3>1. Shown(page) \in Pages /\ Shown(page).sets
        BY <1>1, ShownFields
      <3> QED
        BY <2>1, <3>1, RegisteredFields
    <2> QED
      BY <2>2, <2>3 DEF NoFirstLoad, Loading
  <1>6. CASE m.answer = "fresh"
    <2>1. Live' = {} /\ page' = Shown(page)
      BY <1>1, <1>2, <1>6 DEF LearnEffects, Forgets, IntoGame, Resumes, Retries
    <2>2. page'.sets
      BY <1>1, <2>1, ShownFields
    <2> QED
      BY <2>1, <2>2 DEF NoFirstLoad, Loading
  <1>7. CASE m.answer = "expired"
    <2> DEFINE f == Message("FIRST_LOAD", None)
    <2>1. f.op = "FIRST_LOAD" /\ f.age = "now" /\ f.answer = "asked"
      BY NewMessage DEF Ops
    <2>2. Replaces(m, f) /\ page' = [page EXCEPT !.hasRetriedFirstLoad = TRUE] /\ session' = session
      BY <1>1, <1>2, <1>7 DEF LearnEffects, LearnFirstLoad, IntoGame, Resumes, Retries
    <2>3. f # m
      BY <1>1, <2>1
    <2> HIDE DEF f
    <2>4. Live' = {f} /\ inFlight'[f] = 1
      BY <1>2, <2>2, <2>3 DEF Replaces
    <2>5. /\ page'.registered = page.registered /\ page'.polls = page.polls /\ page'.open = page.open
          /\ page'.list = page.list /\ page'.autojoinGameId = page.autojoinGameId
          /\ page'.hasAutojoinedGame = page.hasAutojoinedGame
      BY <1>1, <2>2 DEF Pages
    <2>6. Loading'
      BY <1>1, <1>2, <1>7, <2>1, <2>2, <2>4, <2>5 DEF Loading
    <2>7. SetsCome' /\ ~NoFirstLoad'
      BY <2>1, <2>4 DEF SetsCome, NoFirstLoad
    <2> QED
      BY <2>6, <2>7
  <1> QED
    BY <1>2, <1>4, <1>5, <1>6, <1>7 DEF Resumes

\* Whatever else happens to the messages, no first request comes up.
LEMMA NoneComes ==
    ASSUME SessionType, NoFirstLoad
    PROVE  /\ \A r : Sends(r) /\ r.op # "FIRST_LOAD" => NoFirstLoad'
           /\ \A m : Forgets(m) => NoFirstLoad'
           /\ \A m, r : Replaces(m, r) /\ r.op # "FIRST_LOAD" => NoFirstLoad'
           /\ \A m, S : Enters(m, S) /\ (\A s \in S : s.op # "FIRST_LOAD") => NoFirstLoad'
  <1>1. \A n \in Live : Sound(n)
    BY DEF SessionType, Mail, Live
  <1>2. \A n \in Live : Older(n).op # "FIRST_LOAD"
    BY <1>1, OlderFields DEF NoFirstLoad
  <1> QED
    BY <1>2 DEF NoFirstLoad, Sends, Forgets, Replaces, Enters

LEMMA LoadingElse ==
    ASSUME SessionType, NoFirstLoad, NEW m \in BagToSet(inFlight), Learn(m), ~LearnFirstLoad(m), ~LearnLogout(m)
    PROVE  NoFirstLoad'
  <1>1. LearnEffects(m) /\ page.autojoinGameId \in Games \cup {None}
    BY Learns DEF Learn, SessionType, Pages
  <1>2. /\ Message("GAME_LIST", None).op = "GAME_LIST"
        /\ \A g \in Games : Message("INFO", g).op = "INFO" /\ Message("JOIN", g).op = "JOIN"
    BY NewMessage DEF Ops
  <1>3. LearnRegister(m) \/ LearnListUnread(m) \/ LearnLeave(m) => NoFirstLoad'
    BY <1>1, <1>2, NoneComes DEF LearnEffects
  <1>4. LearnList(m) => NoFirstLoad'
    BY <1>1, <1>2, NoneComes DEF LearnEffects
  <1>5. LearnJoin(m) => NoFirstLoad'
    BY <1>1, <1>2, NoneComes DEF LearnEffects
  <1> QED
    BY <1>3, <1>4, <1>5 DEF Learn

LEMMA LoadingStep ==
    ASSUME SessionType, [Next]_vars, "hasty" \notin slips', "hasty" \notin slips => Loading
    PROVE  Loading'
  <1>1. CASE Again
    BY <1>1, LoadingAgain
  <1>2. CASE ~Again
    <2>1. Loading /\ slips \subseteq slips'
      BY <1>2, AgainOrKept
    <2>2. NoFirstLoad' => Loading'
      BY DEF NoFirstLoad, Loading
    <2>4. \A m \in Live : m.op = "FIRST_LOAD" =>
             Live = {m} /\ ~page.registered /\ page.polls = 0 /\ page.open = {}
      BY <2>1 DEF Loading
    <2>5. \A op \in {"REGISTER", "CREATE", "LOG_OUT", "GAME_LIST"} : Message(op, None).op = op
      BY NewMessage DEF Ops
    <2>6. \A op \in {"JOIN", "LEAVE"}, g \in Games : Message(op, g).op = op
      BY NewMessage DEF Ops
    <2>7. CASE RegisterClick
      <3>1. NoFirstLoad
        BY <2>7 DEF RegisterClick, Slip, UnderWay, NoFirstLoad, Live
      <3> QED
        BY <2>2, <2>5, <2>7, <3>1, NoneComes, Clicks DEF ClickEffects
    <2>8. CASE CreateClick \/ LogoutClick \/ ThrownOut
      <3>1. NoFirstLoad
        BY <2>4, <2>8 DEF CreateClick, LogoutClick, ThrownOut, InLobby, NoFirstLoad
      <3> QED
        BY <2>2, <2>5, <2>8, <3>1, NoneComes, Clicks DEF ClickEffects
    <2>9. ASSUME NEW g \in Games, JoinClick(g) \/ LeaveClick(g) PROVE Loading'
      <3>1. NoFirstLoad
        BY <2>4, <2>9 DEF JoinClick, LeaveClick, InLobby, NoFirstLoad
      <3> QED
        BY <2>2, <2>6, <2>9, <3>1, NoneComes, Clicks DEF ClickEffects
    <2>10. ASSUME NEW m \in BagToSet(inFlight), Learn(m) PROVE Loading'
      <3>1. CASE LearnFirstLoad(m)
        BY <2>1, <2>10, <3>1, LoadingHeard
      <3>2. CASE LearnLogout(m)
        <4>1. Again
          BY <2>10, <3>2, Learns DEF Learn, LearnEffects, LearnLogout, LoadAgain, Again
        <4> QED
          BY <1>2, <4>1
      <3>3. CASE ~LearnFirstLoad(m) /\ ~LearnLogout(m)
        <4>1. m \in Live /\ m.op # "FIRST_LOAD"
          BY <2>10, <3>3, Learns
             DEF Learn, LearnEffects, Live, LearnRegister, LearnList, LearnListUnread, LearnJoin, LearnLeave
        <4>2. NoFirstLoad
          BY <2>4, <4>1 DEF NoFirstLoad
        <4> QED
          BY <2>2, <2>10, <3>3, <4>2, LoadingElse
      <3> QED
        BY <3>1, <3>2, <3>3
    <2>11. ASSUME NEW m \in BagToSet(inFlight), Lose(m) PROVE Loading'
      <3>1. Forgets(m) /\ m \in Live
        BY <2>11, Loses DEF Lose, Live
      <3>2. NoFirstLoad'
        BY <2>1, <3>1 DEF Loading, NoFirstLoad, Forgets
      <3> QED
        BY <2>2, <3>2
    <2>12. CASE Expire
      <3>1. Live = {}
        BY <2>12 DEF Expire, Live, BagToSet, EmptyBag, SetToBag
      <3>2. Live' = {}
        BY <2>12, <3>1, ServerType DEF Keeps
      <3> QED
        BY <3>2 DEF Loading
    <2>13. CASE KickIdle \/ (\E g \in Games : GameAppears(g) \/ GameVanishes(g)) \/ UNCHANGED vars
      <3>1. Keeps /\ session' = session /\ page' = page
        BY <2>13, ServerType DEF KickIdle, GameAppears, GameVanishes, vars
      <3> QED
        BY <2>1, <3>1 DEF Loading, Keeps, Counted
    <2>14. CASE Reload
      BY <1>2, <2>14, Clicks DEF ClickEffects, Reload, LoadAgain, Again
    <2> QED
      BY <2>1, <2>7, <2>8, <2>9, <2>10, <2>11, <2>12, <2>13, <2>14, LoadingServed DEF Next
  <1> QED
    BY <1>1, <1>2

LEMMA SetsStay ==
    ASSUME SessionType, [Next]_vars, ~Again
    PROVE  page.sets => page'.sets
  <1> SUFFICES ASSUME page.sets PROVE page'.sets
    OBVIOUS
  <1>1. page \in Pages
    BY DEF SessionType
  <1>2. Reload => Again
    BY Clicks DEF ClickEffects, Reload, LoadAgain, Again
  <1>3. RegisterClick \/ CreateClick \/ LogoutClick => page'.sets
    BY <1>1 DEF RegisterClick, CreateClick, LogoutClick, Pages
  <1>4. \A g \in Games : JoinClick(g) \/ LeaveClick(g) \/ GameAppears(g) \/ GameVanishes(g) => page'.sets
    BY DEF JoinClick, LeaveClick, GameAppears, GameVanishes
  <1>5. ASSUME NEW m \in BagToSet(inFlight), Serve(m) PROVE page'.sets
    BY <1>5 DEF Serve, ServeExpired, ServeUnregistered, ServeFirstLoad, ServeRegister, ServeList, ServeJoin,
                ServeCreate, ServeLeave, ServeInfo, ServeLogout
  <1>6. ASSUME NEW m \in BagToSet(inFlight), Learn(m) PROVE page'.sets
    <2>1. LearnEffects(m)
      BY <1>6, Learns DEF Learn
    <2>2. Shown(page) \in Pages /\ Shown(page).sets /\ Registered(page).sets
      BY <1>1, ShownFields, RegisteredFields
    <2>3. Registered(Shown(page)).sets
      BY <2>2, RegisteredFields
    <2>4. [page EXCEPT !.hasRetriedFirstLoad = TRUE].sets
      BY <1>1 DEF Pages
    <2>5. \A g \in Games : /\ Entered(page, g).sets /\ BackInLobby(page, g).sets
                           /\ [Entered(Registered(Shown(page)), g) EXCEPT !.hasAutojoinedGame = TRUE].sets
      BY <1>1, EnteredFields, BackFields, ResumedFields
    <2>6. [page EXCEPT !.autojoinGameId = None].sets /\ [page EXCEPT !.autojoinGameId = None, !.hash = None].sets
      BY <1>1 DEF Pages
    <2>7. CASE LearnFirstLoad(m)
      BY <2>1, <2>2, <2>3, <2>4, <2>5, <2>7 DEF LearnEffects
    <2>8. CASE LearnRegister(m) \/ LearnList(m) \/ LearnListUnread(m)
      BY <2>1, <2>2, <2>6, <2>8 DEF LearnEffects, LearnListUnread
    <2>9. CASE LearnJoin(m) \/ LearnLeave(m)
      BY <2>1, <2>5, <2>9 DEF LearnEffects
    <2>10. LearnLogout(m) => Again
      BY <2>1 DEF LearnEffects, LearnLogout, LoadAgain, Again
    <2> QED
      BY <1>6, <2>7, <2>8, <2>9, <2>10 DEF Learn
  <1>7. \A m : Lose(m) => page'.sets
    BY DEF Lose
  <1>8. Expire \/ KickIdle \/ UNCHANGED vars => page'.sets
    BY DEF Expire, KickIdle, vars
  <1>9. ThrownOut => page'.sets
    <2>1. ThrownOut => Head(notices).game \in Games
      BY ThrownOutType DEF Notices
    <2> QED
      BY <1>1, <2>1, BackFields DEF ThrownOut
  <1> QED
    BY <1>2, <1>3, <1>4, <1>5, <1>6, <1>7, <1>8, <1>9 DEF Next

LEMMA SetsStep ==
    ASSUME SessionType, [Next]_vars, slips' \cap {"hasty", "lost"} = {},
           "hasty" \notin slips => Loading, slips \cap {"hasty", "lost"} = {} => SetsCome
    PROVE  SetsCome'
  <1>1. CASE Again
    BY <1>1, LoadingAgain
  <1>2. CASE ~Again /\ page.sets
    BY <1>2, SetsStay DEF SetsCome
  <1>3. CASE ~Again /\ ~page.sets
    <2>1. Loading /\ SetsCome /\ slips \subseteq slips'
      BY <1>3, AgainOrKept
    <2>2. PICK n \in Live : n.op = "FIRST_LOAD"
      BY <1>3, <2>1 DEF SetsCome
    <2>3. Live = {n} /\ ~page.registered /\ page.open = {} /\ page.polls = 0
      BY <2>1, <2>2 DEF Loading
    <2>4. Keeps => SetsCome'
      BY <2>2 DEF Keeps, SetsCome
    <2>5. \A r : Sends(r) => SetsCome'
      BY <2>2 DEF Sends, SetsCome
    <2>6. RegisterClick => SetsCome'
      BY <2>5, Clicks DEF ClickEffects
    <2>7. ~CreateClick /\ ~LogoutClick /\ ~ThrownOut /\ \A g \in Games : ~JoinClick(g) /\ ~LeaveClick(g)
      BY <2>3 DEF CreateClick, LogoutClick, ThrownOut, JoinClick, LeaveClick, InLobby
    <2>8. ASSUME NEW m \in BagToSet(inFlight), Serve(m) PROVE SetsCome'
      <3>1. ServeEffects(m)
        BY <2>8, Serves DEF Serve
      <3>2. CASE m.age = "stray"
        BY <2>4, <2>8, <3>1, <3>2 DEF Serve, ServeEffects, Served
      <3>3. CASE m.age # "stray"
        <4>1. PICK r : Replaces(m, r) /\ r.op = m.op
          BY <2>8, <3>1, <3>3 DEF Serve, ServeEffects, Served
        <4>2. m = n
          BY <2>3, <3>3 DEF Live
        <4> QED
          BY <2>2, <4>1, <4>2 DEF Replaces, SetsCome
      <3> QED
        BY <3>2, <3>3
    <2>9. ASSUME NEW m \in BagToSet(inFlight), Learn(m) PROVE SetsCome'
      <3>1. m \in Live /\ LearnEffects(m)
        BY <2>9, Learns DEF Learn, LearnEffects, Live
      <3>2. m = n
        BY <2>3, <3>1
      <3>3. LearnFirstLoad(m)
        BY <2>2, <2>9, <3>2
           DEF Learn, LearnRegister, LearnList, LearnListUnread, LearnJoin, LearnLeave, LearnLogout
      <3> QED
        BY <2>1, <2>9, <3>3, LoadingHeard DEF SetsCome
    <2>10. \A m : ~Lose(m)
      BY DEF Lose
    <2>11. Expire \/ KickIdle \/ (\E g \in Games : GameAppears(g) \/ GameVanishes(g)) \/ UNCHANGED vars => SetsCome'
      BY <2>4, ServerType
    <2>12. Reload => Again
      BY Clicks DEF ClickEffects, Reload, LoadAgain, Again
    <2> QED
      BY <1>3, <2>6, <2>7, <2>8, <2>9, <2>10, <2>11, <2>12 DEF Next
  <1> QED
    BY <1>1, <1>2, <1>3

LEMMA InitLoads == Init => Loading /\ SetsCome
  <1> SUFFICES ASSUME Init PROVE Loading /\ SetsCome
    OBVIOUS
  <1> DEFINE f == Message("FIRST_LOAD", None)
  <1>1. Live = {f} /\ inFlight[f] = 1 /\ f.op = "FIRST_LOAD" /\ f.age = "now" /\ f.answer = "asked"
    BY InitMail, NewMessage DEF Ops
  <1> HIDE DEF f
  <1>2. /\ ~page.registered /\ page.polls = 0 /\ page.open = {} /\ ~page.list
        /\ page.autojoinGameId = None /\ ~page.hasAutojoinedGame /\ ~page.hasRetriedFirstLoad
    BY LoadedFields DEF Init
  <1> QED
    BY <1>1, <1>2 DEF Loading, SetsCome

\* A registered page knows the card sets, unless the user was hasty or something was
\* lost (SetsKnown): until the first answer is there nothing else is under way, and
\* the first answer that is none is asked for once more.
THEOREM SetsAlwaysKnown == Spec => []SetsKnown
  <1>1. Init => LoadInv
    BY InitType, InitLoads DEF LoadInv
  <1>2. LoadInv /\ [Next]_vars => LoadInv'
    BY StepType, LoadingStep, SetsStep DEF LoadInv
  <1>3. LoadInv => SetsKnown
    BY DEF LoadInv, SetsKnown, SetsCome, Loading
  <1> QED
    BY <1>1, <1>2, <1>3, PTL DEF Spec

-----------------------------------------------------------------------------
(* Registrations and the poll loop.                                        *)

PageStays ==
    /\ page'.registered = page.registered /\ page'.polls = page.polls
    /\ page'.open \subseteq page.open \/ page.registered

LEMMA PollingForgets ==
    ASSUME Polling, NEW m, Forgets(m), session' = session, PageStays
    PROVE  Polling'
  <1>1. /\ page'.polls = IF page'.registered THEN 1 ELSE 0
        /\ ~page'.registered => page'.open = {}
    BY DEF Polling, PageStays
  <1>2. \A n \in Live' : n \in Live /\ (n # m => inFlight'[n] = inFlight[n])
    BY DEF Forgets, Counted
  <1>3. \A n \in Live' : n.op \notin {"FIRST_LOAD", "REGISTER"} => page'.registered
    BY <1>2 DEF Polling, PageStays
  <1>4. Registering'
    BY <1>2 DEF Polling, PageStays, Registering, Forgets
  <1> QED
    BY <1>1, <1>3, <1>4 DEF Polling

LEMMA PollingSends ==
    ASSUME Polling, page.registered, session' = session, PageStays,
           NEW r, r.answer = "asked", r.op \notin {"FIRST_LOAD", "REGISTER", "LOG_OUT"},
           Sends(r) \/ \E m : Replaces(m, r)
    PROVE  Polling'
  <1>1. /\ page'.polls = IF page'.registered THEN 1 ELSE 0
        /\ page'.registered
    BY DEF Polling, PageStays
  <1>2. Live' \subseteq Live \cup {r}
    BY DEF Sends, Replaces
  <1>3. Registering'
    BY <1>1, <1>2 DEF Polling, PageStays, Registering
  <1> QED
    BY <1>1, <1>3 DEF Polling

LEMMA PollingKeeps ==
    ASSUME Polling, Keeps, page' = page,
           \/ session' = session
           \/ \A m \in Live : m.op # "REGISTER" \/ m.answer \notin {"asked", "ok"}
           \/ session # "valid"
    PROVE  Polling'
  <1>1. Live' = Live /\ \A n \in Live : inFlight'[n] = inFlight[n]
    BY DEF Keeps, Counted
  <1>2. Registering'
    BY <1>1 DEF Polling, Registering
  <1> QED
    BY <1>1, <1>2 DEF Polling

\* The answer to a request other than a registration.
LEMMA PollingReplies ==
    ASSUME Polling, NEW m \in Live, NEW r, Replaces(m, r), r.op = m.op, page' = page, m.answer = "asked",
           m.op = "REGISTER" => r.answer \notin {"ok", "asked"},
           \/ session' = session
           \/ session # "valid"
           \/ \A n \in Live : n.op # "REGISTER" \/ n.answer \notin {"asked", "ok"}
    PROVE  Polling'
  <1>1. Live' \subseteq Live \cup {r} /\ \A n \in Live : n # m /\ n # r => inFlight'[n] = inFlight[n]
    BY DEF Replaces, Counted
  <1>2. ASSUME NEW n \in Live', n.op = "REGISTER", n.answer = "ok"
        PROVE  n \in Live /\ n # m /\ n # r
    BY <1>1, <1>2
  <1>3. ASSUME NEW n \in Live', n.op = "REGISTER", n.answer = "asked"
        PROVE  n \in Live
    BY <1>1, <1>3
  <1>4. ASSUME NEW n \in Live', n.op = "LOG_OUT"
        PROVE  \E k \in Live : k.op = "LOG_OUT"
    BY <1>1, <1>4
  <1>5. Registering'
    BY <1>1, <1>2, <1>3, <1>4 DEF Polling, Registering
  <1>6. \A n \in Live' : n.op \notin {"FIRST_LOAD", "REGISTER"} => page'.registered
    BY <1>1 DEF Polling
  <1> QED
    BY <1>5, <1>6 DEF Polling

LEMMA PollingServed ==
    ASSUME SessionType, Loading, Polling, NEW m \in BagToSet(inFlight), Serve(m),
           slips' \cap {"hasty", "stray"} = {}
    PROVE  Polling'
  <1>1. page' = page /\ m.answer = "asked" /\ ServeEffects(m)
    BY Serves DEF Serve, ServeExpired, ServeUnregistered, ServeFirstLoad, ServeRegister, ServeList,
                  ServeJoin, ServeCreate, ServeLeave, ServeInfo, ServeLogout
  <1>2. CASE m.age = "stray"
    <2>1. Keeps
      BY <1>1, <1>2 DEF Serve, ServeEffects, Served
    <2>2. ~Strays(m) => \A n \in Live : n.op # "REGISTER"
      BY <1>2 DEF Strays, Loading, Live
    <2>3. CASE ServeExpired(m)
      BY <1>1, <2>1, <2>3, PollingKeeps DEF ServeExpired
    <2>4. CASE ServeRegister(m) \/ ServeLogout(m)
      <3>1. ~Strays(m) \/ session' = session
        BY <2>4 DEF ServeRegister, ServeLogout, Slip
      <3> QED
        BY <1>1, <2>1, <2>2, <3>1, PollingKeeps
    <2>5. CASE ServeUnregistered(m) \/ ServeFirstLoad(m) \/ ServeList(m) \/ ServeJoin(m)
               \/ ServeCreate(m) \/ ServeLeave(m) \/ ServeInfo(m)
      <3>1. session' = session
        BY <2>5 DEF ServeUnregistered, ServeFirstLoad, ServeList, ServeJoin, ServeCreate, ServeLeave, ServeInfo
      <3> QED
        BY <1>1, <2>1, <3>1, PollingKeeps
    <2> QED
      BY <2>3, <2>4, <2>5 DEF Serve
  <1>3. CASE m.age # "stray"
    <2>1. m \in Live
      BY <1>3 DEF Live
    <2>2. CASE ServeExpired(m)
      <3>1. PICK r : Replaces(m, r) /\ r.op = m.op /\ r.answer = "expired"
        BY <1>1, <1>3, <2>2 DEF ServeEffects, Served
      <3> QED
        BY <1>1, <2>1, <2>2, <3>1, PollingReplies DEF ServeExpired
    <2>3. CASE ServeUnregistered(m) \/ ServeFirstLoad(m) \/ ServeList(m) \/ ServeJoin(m)
               \/ ServeCreate(m) \/ ServeLeave(m) \/ ServeInfo(m)
      <3>1. session' = session /\ m.op # "REGISTER"
        BY <2>3 DEF ServeUnregistered, ServeFirstLoad, ServeList, ServeJoin, ServeCreate, ServeLeave, ServeInfo
      <3>2. PICK r : Replaces(m, r) /\ r.op = m.op
        BY <1>1, <1>3, <2>3 DEF ServeEffects, Served
      <3> QED
        BY <1>1, <2>1, <3>1, <3>2, PollingReplies
    <2>4. CASE ServeLogout(m)
      <3>1. PICK r : Replaces(m, r) /\ r.op = m.op
        BY <1>1, <1>3, <2>4 DEF ServeEffects, Served
      <3>2. m.op = "LOG_OUT" /\ page.registered
        BY <2>1, <2>4 DEF Polling, ServeLogout
      <3>3. \A n \in Live : n.op # "REGISTER" \/ n.answer \notin {"asked", "ok"}
        BY <2>1, <3>2 DEF Polling, Registering
      <3> QED
        BY <1>1, <2>1, <3>1, <3>2, <3>3, PollingReplies
    <2>5. CASE ServeRegister(m)
      <3>1. m.op = "REGISTER" /\ session # "gone"
        BY <2>5 DEF ServeRegister
      <3>2. CASE Unmoved /\ Served(m, "refused", None)
        <4>1. PICK r : Replaces(m, r) /\ r.op = m.op /\ r.answer = "refused"
          BY <1>3, <3>2 DEF Served
        <4> QED
          BY <1>1, <2>1, <3>2, <4>1, PollingReplies DEF Unmoved
      <3>3. CASE session' = "valid" /\ session # "valid" /\ Served(m, "ok", None)
        <4>1. PICK r : Replaces(m, r) /\ r.op = m.op /\ r.answer = "ok"
          BY <1>3, <3>3 DEF Served
        <4>2. ~page.registered /\ \A n \in Live : n.op = "REGISTER" => n.answer # "ok"
          BY <1>1, <2>1, <3>1, <3>3 DEF Polling, Registering
        <4>3. r \notin Live
          BY <3>1, <4>1, <4>2
        <4>4. Live' \subseteq Live \cup {r} /\ inFlight'[r] = 1
          BY <4>1, <4>3 DEF Replaces
        <4>5. \A n \in Live' : n.op = "REGISTER" /\ n.answer = "ok" => n = r
          BY <4>2, <4>4
        <4>6. \A n \in Live' : n.op \in {"FIRST_LOAD", "REGISTER"}
          BY <3>1, <4>1, <4>2, <4>4 DEF Polling
        <4>7. Registering'
          BY <1>1, <3>3, <4>2, <4>4, <4>5, <4>6 DEF Registering
        <4> QED
          BY <1>1, <4>6, <4>7 DEF Polling
      <3>4. session = "valid" => ~(session' = "valid" /\ slips' = slips \cup {x \in {"hasty", "stray"} :
                                        IF x = "hasty" THEN session = "valid" ELSE Strays(m)})
        OBVIOUS
      <3> QED
        BY <1>1, <2>5, <3>2, <3>3, <3>4 DEF ServeEffects
    <2> QED
      BY <2>2, <2>3, <2>4, <2>5 DEF Serve
  <1> QED
    BY <1>2, <1>3

LEMMA PollingHeard ==
    ASSUME SessionType, Loading, Polling, NEW m \in BagToSet(inFlight), Learn(m), ~LearnLogout(m)
    PROVE  Polling'
  <1>1. LearnEffects(m) /\ m.answer # "asked" /\ page \in Pages
    BY Learns DEF Learn, SessionType
  <1>2. m \in Live
    BY <1>1 DEF LearnEffects, Live
  <1>3. /\ \A op \in {"GAME_LIST", "FIRST_LOAD"} : Message(op, None).op = op /\ Message(op, None).answer = "asked"
        /\ \A op \in {"INFO", "JOIN"}, g \in Games : Message(op, g).op = op /\ Message(op, g).answer = "asked"
    BY NewMessage DEF Ops
  <1>4. CASE LearnFirstLoad(m)
    <2>1. /\ Live = {m} /\ inFlight[m] = 1 /\ ~page.registered /\ page.polls = 0 /\ page.open = {}
          /\ page.polls + 1 = 1
      BY <1>2, <1>4 DEF LearnFirstLoad, Loading
    <2>2. CASE IntoGame(m)
      <3> DEFINE S == {Message("GAME_LIST", None), Message("INFO", m.game)}
      <3> HIDE DEF S
      <3>1. /\ m.game \in Games /\ Enters(m, S)
            /\ page' = [Entered(Registered(Shown(page)), m.game) EXCEPT !.hasAutojoinedGame = TRUE]
        BY <1>1, <1>4, <2>2 DEF LearnEffects, IntoGame, Resumes, Retries, S
      <3>2. page'.registered /\ page'.polls = 1
        BY <1>1, <2>1, <3>1, ResumedFields
      <3>3. Live' \subseteq S
        BY <2>1, <3>1 DEF Enters
      <3>4. \A n \in Live' : n.op \in {"GAME_LIST", "INFO"}
        BY <1>3, <3>1, <3>3 DEF S
      <3> QED
        BY <3>2, <3>4 DEF Polling, Registering
    <2>3. CASE Resumes(m)
      <3>1. page' = Registered(Shown(page)) /\ Live' \subseteq {Message("GAME_LIST", None)}
        BY <1>1, <1>4, <2>1, <2>3 DEF LearnEffects, Replaces, IntoGame, Resumes, Retries
      <3>2. Shown(page) \in Pages /\ Shown(page).polls = page.polls
        BY <1>1, ShownFields
      <3>3. page'.registered /\ page'.polls = 1
        BY <2>1, <3>1, <3>2, RegisteredFields
      <3> QED
        BY <1>3, <3>1, <3>3 DEF Polling, Registering
    <2>4. CASE m.answer = "fresh"
      <3>1. page' = Shown(page) /\ Live' = {}
        BY <1>1, <1>4, <2>1, <2>4 DEF LearnEffects, Forgets, IntoGame, Resumes, Retries
      <3>2. ~page'.registered /\ page'.polls = 0 /\ page'.open = {}
        BY <1>1, <2>1, <3>1, ShownFields
      <3> QED
        BY <3>1, <3>2 DEF Polling, Registering
    <2>5. CASE Retries(m)
      <3>1. page' = [page EXCEPT !.hasRetriedFirstLoad = TRUE] /\ Live' \subseteq {Message("FIRST_LOAD", None)}
        BY <1>1, <1>4, <2>1, <2>5 DEF LearnEffects, Replaces, IntoGame, Resumes, Retries
      <3>2. ~page'.registered /\ page'.polls = 0 /\ page'.open = {}
        BY <1>1, <2>1, <3>1 DEF Pages
      <3> QED
        BY <1>3, <3>1, <3>2 DEF Polling, Registering
    <2>6. CASE m.answer \notin {"resumed", "fresh"} /\ ~Retries(m)
      <3>1. page' = page /\ Live' = {}
        BY <1>1, <1>4, <2>1, <2>6 DEF LearnEffects, Forgets, IntoGame, Resumes, Retries
      <3> QED
        BY <2>1, <3>1 DEF Polling, Registering
    <2> QED
      BY <2>2, <2>3, <2>4, <2>5, <2>6 DEF Resumes
  <1>5. CASE LearnRegister(m)
    <2>1. session' = session /\ m.op = "REGISTER"
      BY <1>5 DEF LearnRegister
    <2>2. CASE page' = page /\ Forgets(m)
      BY <2>1, <2>2, PollingForgets DEF PageStays
    <2>3. CASE m.answer = "ok" /\ page' = Registered(page) /\ Replaces(m, Message("GAME_LIST", None))
      <3> DEFINE r == Message("GAME_LIST", None)
      <3>1. /\ ~page.registered /\ session = "valid" /\ inFlight[m] = 1
            /\ \A n \in Live : n.op = "REGISTER" /\ n.answer = "ok" => n = m
            /\ \A n \in Live : n.op # "LOG_OUT"
        BY <1>2, <2>1, <2>3 DEF Polling, Registering
      <3>2. page'.registered /\ page'.polls = 1
        BY <1>1, <2>3, <3>1, RegisteredFields DEF Polling
      <3>3. r.op = "GAME_LIST"
        BY <1>3
      <3>4. Replaces(m, r)
        BY <2>3
      <3> HIDE DEF r
      <3>5. Live' \subseteq (Live \ {m}) \cup {r}
        BY <3>1, <3>4, <1>2, <2>1, <3>3 DEF Replaces
      <3>6. Registering'
        BY <2>1, <3>1, <3>3, <3>5 DEF Registering
      <3> QED
        BY <3>2, <3>6 DEF Polling
    <2> QED
      BY <1>1, <1>5, <2>2, <2>3 DEF LearnEffects
  <1>6. CASE LearnList(m)
    <2>1. session' = session /\ page.registered /\ page.autojoinGameId \in Games \cup {None}
      BY <1>1, <1>2, <1>6 DEF LearnList, Polling, Pages
    <2>2. PageStays
      BY <1>1, <1>6 DEF LearnEffects, Pages, PageStays
    <2>3. Forgets(m) => Polling'
      BY <2>1, <2>2, PollingForgets
    <2>4. page.autojoinGameId # None /\ Replaces(m, Message("JOIN", page.autojoinGameId)) => Polling'
      BY <1>3, <2>1, <2>2, PollingSends
    <2> QED
      BY <1>1, <1>6, <2>3, <2>4 DEF LearnEffects
  <1>7. CASE LearnListUnread(m)
    BY <1>1, <1>7, PollingForgets DEF LearnEffects, LearnListUnread, PageStays
  <1>8. CASE LearnLeave(m)
    <2>1. session' = session /\ page.registered
      BY <1>2, <1>8 DEF LearnLeave, Polling
    <2>2. PageStays
      <3>1. page' = page \/ (m.game \in Games /\ page' = BackInLobby(page, m.game))
        BY <1>1, <1>8 DEF LearnEffects
      <3>2. CASE page' = page
        BY <2>1, <3>2 DEF PageStays
      <3>3. CASE m.game \in Games /\ page' = BackInLobby(page, m.game)
        <4>1. page \in Pages
          BY <1>1
        <4> QED
          BY <2>1, <3>3, <4>1, BackFields DEF PageStays
      <3> QED
        BY <3>1, <3>2, <3>3
    <2>3. Forgets(m) => Polling'
      BY <2>1, <2>2, PollingForgets
    <2>4. Replaces(m, Message("GAME_LIST", None)) => Polling'
      BY <1>3, <2>1, <2>2, PollingSends
    <2> QED
      BY <1>1, <1>8, <2>3, <2>4 DEF LearnEffects
  <1>9. CASE LearnJoin(m)
    <2>1. session' = session /\ page.registered /\ page.polls = 1
      BY <1>2, <1>9 DEF LearnJoin, Polling
    <2>2. CASE m.answer # "ok" /\ Forgets(m) /\ UNCHANGED <<page, notices, slips>>
      BY <2>1, <2>2, PollingForgets DEF PageStays
    <2>3. CASE m.game \in Games /\ page' = Entered(page, m.game) /\ Enters(m, {Message("INFO", m.game)})
      <3>1. page'.registered /\ page'.polls = 1
        BY <1>1, <2>1, <2>3, EnteredFields
      <3>2. \A n \in Live : Older(n).op = n.op /\ Older(n).answer = n.answer
        BY OlderFields DEF SessionType, Mail, Live
      <3>3. \A k \in Live' : k.op = "INFO" \/ \E n \in Live : k.op = n.op /\ k.answer = n.answer
        BY <1>3, <2>3, <3>2 DEF Enters
      <3>4. \A n \in Live : n.op = "REGISTER" => n.answer # "ok" /\ (n.answer = "asked" => session = "valid")
        BY <2>1 DEF Polling, Registering
      <3>5. \A n, k \in Live : n.op = "REGISTER" /\ n.answer = "asked" => k.op # "LOG_OUT"
        BY DEF Polling, Registering
      <3>6. Registering'
        BY <2>1, <3>3, <3>4, <3>5 DEF Registering
      <3> QED
        BY <3>1, <3>6 DEF Polling
    <2> QED
      BY <1>1, <1>9, <2>2, <2>3 DEF LearnEffects
  <1> QED
    BY <1>4, <1>5, <1>6, <1>7, <1>8, <1>9 DEF Learn

LEMMA PollingStep ==
    ASSUME SessionType, [Next]_vars, slips' \cap {"hasty", "stray"} = {},
           slips \cap {"hasty", "stray"} = {} => Loading /\ Polling
    PROVE  Polling'
  <1>1. CASE Again
    <2>1. page.hash \in Games \cup {None}
      BY DEF SessionType, Pages
    <2>2. ~page'.registered /\ page'.polls = 0 /\ page'.open = {}
      BY <1>1, <2>1, LoadedFields DEF Again
    <2>3. \A n \in Live' : n.op = "FIRST_LOAD"
      BY <1>1, NewMessage DEF Again, Restarts, Ops
    <2> QED
      BY <2>2, <2>3 DEF Polling, Registering
  <1>2. CASE ~Again
    <2>1. Loading /\ Polling /\ slips \subseteq slips' /\ page \in Pages
      BY <1>2, AgainOrKept DEF SessionType
    <2>2. \A op \in {"REGISTER", "CREATE", "LOG_OUT", "GAME_LIST"} :
             Message(op, None).op = op /\ Message(op, None).answer = "asked"
      BY NewMessage DEF Ops
    <2>3. \A op \in {"JOIN", "LEAVE"}, g \in Games :
             Message(op, g).op = op /\ Message(op, g).answer = "asked"
      BY NewMessage DEF Ops
    <2>4. CASE RegisterClick
      <3> DEFINE r == Message("REGISTER", None)
      <3>1. r.op = "REGISTER" /\ r.answer = "asked" /\ Sends(r)
        BY <2>2, <2>4, Clicks DEF ClickEffects
      <3>2. page' = page /\ session' = session /\ ~page.registered
        BY <2>4 DEF RegisterClick, Ask
      <3> HIDE DEF r
      <3>3. Live' = Live \cup {r} /\ \A n \in Live : n # r => inFlight'[n] = inFlight[n]
        BY <3>1 DEF Sends, Counted
      <3>4. \A n \in Live' : n.op # "LOG_OUT"
        BY <2>1, <3>1, <3>2, <3>3 DEF Polling
      <3>5. Registering'
        BY <2>1, <3>1, <3>2, <3>3, <3>4 DEF Polling, Registering
      <3> QED
        BY <2>1, <3>1, <3>2, <3>3, <3>5 DEF Polling
    <2>5. CASE CreateClick
      BY <2>1, <2>2, <2>5, Clicks, PollingSends DEF ClickEffects, CreateClick, Ask, InLobby, PageStays
    <2>6. ASSUME NEW g \in Games, JoinClick(g) \/ LeaveClick(g) PROVE Polling'
      <3>1. page.registered /\ session' = session /\ page' = page
        BY <2>1, <2>6 DEF JoinClick, LeaveClick, Ask, InLobby, Polling
      <3> QED
        BY <2>1, <2>3, <2>6, <3>1, Clicks, PollingSends DEF ClickEffects, PageStays
    <2>7. CASE LogoutClick
      <3> DEFINE r == Message("LOG_OUT", None)
      <3>1. r.op = "LOG_OUT" /\ Sends(r)
        BY <2>2, <2>7, Clicks DEF ClickEffects
      <3>2. /\ page'.registered = page.registered /\ page'.polls = page.polls /\ page'.open = page.open
            /\ session' = session /\ page.registered
        BY <2>1, <2>7 DEF LogoutClick, Ask, Pages
      <3>3. \A n \in Live : n.op # "REGISTER"
        BY <2>7 DEF LogoutClick, Slip, UnderWay, Live
      <3> HIDE DEF r
      <3>4. \A n \in Live' : n.op # "REGISTER"
        BY <3>1, <3>3 DEF Sends
      <3> QED
        BY <2>1, <3>2, <3>4 DEF Polling, Registering
    <2>8. CASE ThrownOut
      <3>1. page.registered /\ session' = session
        BY <2>1, <2>8 DEF ThrownOut, Polling
      <3>2. Head(notices).game \in Games
        BY <2>8, ThrownOutType DEF Notices
      <3>3. PageStays
        BY <2>1, <2>8, <3>1, <3>2, BackFields DEF ThrownOut, PageStays
      <3> QED
        BY <2>1, <2>2, <2>8, <3>1, <3>3, Clicks, PollingSends DEF ClickEffects
    <2>9. ASSUME NEW m \in BagToSet(inFlight), Learn(m) PROVE Polling'
      <3>1. LearnLogout(m) => Again
        BY <2>9, Learns DEF Learn, LearnEffects, LearnLogout, LoadAgain, Again
      <3> QED
        BY <1>2, <2>1, <2>9, <3>1, PollingHeard
    <2>10. ASSUME NEW m \in BagToSet(inFlight), Lose(m) PROVE Polling'
      BY <2>1, <2>10, Loses, PollingForgets DEF Lose, PageStays
    <2>11. CASE Expire
      <3>1. Live = {}
        BY <2>11 DEF Expire, Live, BagToSet, EmptyBag, SetToBag
      <3> QED
        BY <2>1, <2>11, <3>1, ServerType, PollingKeeps DEF Expire
    <2>12. CASE KickIdle \/ (\E g \in Games : GameAppears(g) \/ GameVanishes(g)) \/ UNCHANGED vars
      <3>1. Keeps /\ session' = session /\ page' = page
        BY <2>12, ServerType DEF KickIdle, GameAppears, GameVanishes, vars
      <3> QED
        BY <2>1, <3>1, PollingKeeps
    <2>13. Reload => Again
      BY Clicks DEF ClickEffects, Reload, LoadAgain, Again
    <2> QED
      BY <1>2, <2>1, <2>4, <2>5, <2>6, <2>7, <2>8, <2>9, <2>10, <2>11, <2>12, <2>13, PollingServed DEF Next
  <1> QED
    BY <1>1, <1>2

LEMMA InitPolling == Init => Polling
  <1> SUFFICES ASSUME Init PROVE Polling
    OBVIOUS
  <1>1. \A m \in Live : m.op = "FIRST_LOAD"
    BY InitMail, NewMessage DEF Ops
  <1>2. ~page.registered /\ page.polls = 0 /\ page.open = {}
    BY LoadedFields DEF Init
  <1> QED
    BY <1>1, <1>2 DEF Polling, Registering

\* There is one poll loop, unless the user was hasty or a request of an earlier page
\* came in between (OnePoll): a registration that the page has not heard of is the
\* only one, and a page that has heard of one is registered no more.
THEOREM PollsOnce == Spec => []OnePoll
  <1>1. Init => PollInv
    BY InitType, InitLoads, InitPolling DEF PollInv
  <1>2. PollInv /\ [Next]_vars => PollInv'
    <2> SUFFICES ASSUME PollInv, [Next]_vars PROVE PollInv'
      OBVIOUS
    <2>1. SessionType'
      BY StepType DEF PollInv
    <2>2. ASSUME slips' \cap {"hasty", "stray"} = {} PROVE Loading' /\ Polling'
      <3>1. Polling'
        BY <2>2, PollingStep DEF PollInv
      <3>2. CASE Again
        BY <3>1, <3>2, LoadingAgain DEF PollInv
      <3>3. CASE ~Again
        <4>1. slips \cap {"hasty", "stray"} = {} /\ "hasty" \notin slips'
          BY <2>2, <3>3, AgainOrKept DEF PollInv
        <4> QED
          BY <3>1, <4>1, LoadingStep DEF PollInv
      <3> QED
        BY <3>2, <3>3
    <2> QED
      BY <2>1, <2>2 DEF PollInv
  <1>3. PollInv => OnePoll
    BY DEF PollInv, Polling, OnePoll
  <1> QED
    BY <1>1, <1>2, <1>3, PTL DEF Spec

-----------------------------------------------------------------------------
(* The game that the page shows.                                           *)

\* A message that neither takes the page into a game nor out of one, and that suits
\* the game the page is in.
Suits(m) ==
    /\ m.op # "FIRST_LOAD" /\ ~Entry(m)
    /\ m.age = "now" =>
          /\ m.op \in {"JOIN", "CREATE"} => page.open = {}
          /\ m.op \in {"LEAVE", "INFO"} => page.open \subseteq {m.game}
          /\ m.op = "GAME_LIST" /\ page.autojoinGameId # None /\ ~page.hasAutojoinedGame
                => page.open = {}

\* Nothing that decides about the game of the page is forgotten.
Remembers ==
    /\ \A m \in Live : \/ Entry(m) \/ Exit(m)
                       \/ m.op = "REGISTER" /\ m.answer = "ok"
                       => m \in Live'
    /\ (\E m \in Live : m.op = "LOG_OUT") => \E m \in Live' : m.op = "LOG_OUT"

\* The page stays where it is.
SameView ==
    /\ page'.registered = page.registered /\ page'.open = page.open /\ page'.list = page.list
    /\ \/ page'.hash = page.hash \/ page.open = {} \/ \E m \in Live' : m.op = "LOG_OUT"
    /\ \/ page'.autojoinGameId = page.autojoinGameId /\ page'.hasAutojoinedGame = page.hasAutojoinedGame
       \/ page'.autojoinGameId = None

LEMMA ShowsKeeps ==
    ASSUME Shows, Live' = Live, UNCHANGED <<session, at, notices, page>>
    PROVE  Shows'
  BY DEF Shows, FirstAnswer, Outside, View, Current, Follows, Doomed

\* Nothing that decides about the game is heard, nothing moves at the server; the answer
\* that the user is out of a game comes only when he is, or is about to enter another.
LEMMA ShowsCalm ==
    ASSUME Shows, NoFirstLoad, UNCHANGED <<at, notices>>, session' = session \/ session' # "valid",
           Remembers, SameView, \A m \in Live' : m \in Live \/ Suits(m),
           \A m \in Live' : Exit(m) /\ m.age = "now" /\ page.registered /\ session = "valid" =>
               \/ at = None \/ Doomed
               \/ \E n \in Live : (Exit(n) /\ n.age = "now") \/ Entry(n)
    PROVE  Shows'
  <1>1. FirstAnswer'
    BY DEF NoFirstLoad, FirstAnswer, Suits
  <1>2. Outside'
    BY DEF Shows, Outside, NoFirstLoad, Remembers, SameView
  <1>3. View'
    BY DEF Shows, View, Remembers, SameView
  <1>4. Current'
    BY DEF Shows, Current, Suits, SameView
  <1>5. Doomed => Doomed'
    BY DEF Doomed, Remembers
  <1>6. \A m \in Live' : Entry(m) => m \in Live
    BY DEF Suits
  <1>7. \A m \in Live : Entry(m) \/ Exit(m) => m \in Live'
    BY DEF Remembers
  <1>8. ASSUME page.registered, session = "valid", NEW m \in Live', m.age = "now", Entry(m)
        PROVE  at = m.game \/ \E n \in Live' : n.op = "LEAVE" /\ n.answer = "ok"
    <2>1. at = m.game \/ \E n \in Live : n.op = "LEAVE" /\ n.answer = "ok"
      BY <1>6, <1>8 DEF Shows, Follows
    <2> QED
      BY <1>7, <2>1 DEF Exit
  <1>9. ASSUME page.registered, session = "valid",
               \/ \E m \in Live' : m.age = "now" /\ Exit(m)
               \/ \E i \in DOMAIN notices : notices[i].age = "now"
        PROVE  at = None \/ Doomed' \/ \E m \in Live' : Entry(m)
    <2>1. at = None \/ Doomed \/ \E m \in Live : Entry(m)
      BY <1>9 DEF Shows, Follows
    <2> QED
      BY <1>5, <1>7, <2>1
  <1>10. ASSUME page.registered, session = "valid", at # None
         PROVE  at \in page.open \/ Doomed' \/ \E m \in Live' : Entry(m) /\ m.game = at
    BY <1>5, <1>7, <1>10 DEF Shows, Follows
  <1>11. ASSUME page.registered, session = "valid", NEW g \in page.open, g # at
         PROVE  notices # <<>> \/ \E m \in Live' : Entry(m) \/ Exit(m)
    BY <1>7, <1>11 DEF Shows, Follows
  <1>12. Follows'
    BY <1>8, <1>9, <1>10, <1>11 DEF Follows, SameView
  <1> QED
    BY <1>1, <1>2, <1>3, <1>4, <1>12 DEF Shows

\* A page that is in no game and has nothing but requests under way.
LEMMA ShowsReset ==
    ASSUME page'.registered => /\ page'.list /\ page'.open = {}
                               /\ session' = "valid" => at' = None \/ Doomed',
           ~page'.registered => page'.open = {} /\ ~page'.list /\ session' # "valid",
           NoFirstLoad', \A m \in Live' : ~Entry(m)
    PROVE  Shows'
  BY DEF Shows, FirstAnswer, NoFirstLoad, Outside, View, Current, Follows

LEMMA ReplyRemembers ==
    ASSUME NEW m \in Live, m.answer = "asked", NEW r, Replaces(m, r), r.op = m.op
    PROVE  Remembers
  <1>1. r \in Live' /\ \A n \in Live : n # m /\ n # r => n \in Live'
    BY DEF Replaces, Counted
  <1>2. \A n \in Live : Entry(n) \/ Exit(n) \/ (n.op = "REGISTER" /\ n.answer = "ok") => n # m
    BY DEF Entry, Exit
  <1> QED
    BY <1>1, <1>2 DEF Remembers

LEMMA ReplySuits ==
    ASSUME Shows, NEW m \in Live, m.op # "FIRST_LOAD", NEW r, r.op = m.op, r.age = m.age, ~Entry(r),
           m.op \in {"LEAVE", "INFO"} => r.game = m.game
    PROVE  Suits(r)
  <1>1. CASE page.registered
    BY <1>1 DEF Shows, Current, Suits
  <1>2. CASE ~page.registered
    BY <1>2 DEF Shows, Outside, Suits
  <1> QED
    BY <1>1, <1>2

\* A request is answered and nothing else happens.
LEMMA ShowsReplied ==
    ASSUME Shows, NoFirstLoad, NEW m \in Live, m.answer = "asked",
           NEW r, Replaces(m, r), r.op = m.op, r.age = m.age, ~Entry(r),
           m.op \in {"LEAVE", "INFO"} => r.game = m.game,
           UNCHANGED <<at, notices, page>>, session' = session \/ session' # "valid",
           Exit(r) /\ r.age = "now" /\ page.registered /\ session = "valid" =>
               at = None \/ Doomed \/ \E n \in Live : Entry(n)
    PROVE  Shows'
  <1>1. Suits(r)
    BY ReplySuits DEF NoFirstLoad
  <1>2. Remembers
    BY ReplyRemembers
  <1>3. SameView
    BY DEF SameView
  <1>4. \A n \in Live' : n \in Live \/ n = r
    BY DEF Replaces
  <1>5. \A n \in Live' : n \in Live \/ Suits(n)
    BY <1>1, <1>4
  <1>6. \A n \in Live' : Exit(n) /\ n.age = "now" /\ page.registered /\ session = "valid" =>
            \/ at = None \/ Doomed
            \/ \E k \in Live : (Exit(k) /\ k.age = "now") \/ Entry(k)
    BY <1>4
  <1> QED
    BY <1>2, <1>3, <1>5, <1>6, ShowsCalm

\* The user enters a game.
LEMMA ShowsJoined ==
    ASSUME SessionType, Shows, NoFirstLoad, NEW m \in Live, m.answer = "asked", m.op \in {"JOIN", "CREATE"},
           NEW r, Replaces(m, r), r.op = m.op, r.age = m.age, r.answer = "ok",
           page.registered, session = "valid", at = None, at' = r.game, r.game \in Games,
           UNCHANGED <<session, notices, page>>
    PROVE  Shows'
  <1>1. Remembers
    BY ReplyRemembers
  <1>2. \A n \in Live' : n \in Live \/ n = r
    BY DEF Replaces
  <1>3. r \in Live' /\ Entry(r) /\ r.op # "FIRST_LOAD"
    BY DEF Replaces, Entry
  <1>4. FirstAnswer' /\ Outside'
    BY <1>2, <1>3 DEF FirstAnswer, Outside, NoFirstLoad
  <1>5. View'
    BY <1>1 DEF Shows, View, Remembers
  <1>6. Current'
    BY <1>2 DEF Shows, Current
  <1>7. ASSUME NEW n \in Live', n.age = "now", Entry(n)
        PROVE  at' = n.game \/ \E k \in Live' : k.op = "LEAVE" /\ k.answer = "ok"
    <2>1. CASE n = r
      BY <2>1
    <2>2. CASE n # r
      <3>1. n \in Live /\ Sound(n)
        BY <1>2, <2>2 DEF SessionType, Mail, Live
      <3>2. n.game \in Games
        BY <1>7, <3>1 DEF Sound, Entry
      <3>3. n.game # None
        BY <3>2, GamesAssumption
      <3>4. PICK k \in Live : k.op = "LEAVE" /\ k.answer = "ok"
        BY <1>7, <3>1, <3>3 DEF Shows, Follows
      <3>5. k \in Live'
        BY <1>1, <3>4 DEF Remembers, Exit
      <3> QED
        BY <3>4, <3>5
    <2> QED
      BY <2>1, <2>2
  <1>8. Follows'
    BY <1>3, <1>7 DEF Follows
  <1> QED
    BY <1>4, <1>5, <1>6, <1>8 DEF Shows

\* The user leaves the game.
LEMMA ShowsLeft ==
    ASSUME SessionType, Shows, NoFirstLoad, NEW m \in Live, m.answer = "asked", m.op = "LEAVE",
           NEW r, Replaces(m, r), r.op = m.op, r.age = m.age, r.answer = "ok", r.game = m.game,
           page.registered, session = "valid", at' = None, UNCHANGED <<session, notices, page>>
    PROVE  Shows'
  <1>1. Remembers
    BY ReplyRemembers
  <1>2. \A n \in Live' : n \in Live \/ n = r
    BY DEF Replaces
  <1>3. r \in Live' /\ Exit(r) /\ r.op # "FIRST_LOAD"
    BY DEF Replaces, Exit
  <1>4. FirstAnswer' /\ Outside'
    BY <1>2, <1>3 DEF FirstAnswer, Outside, NoFirstLoad
  <1>5. View'
    BY <1>1 DEF Shows, View, Remembers
  <1>6. Current'
    BY <1>2 DEF Shows, Current
  <1>7. Follows'
    BY <1>3 DEF Follows
  <1> QED
    BY <1>4, <1>5, <1>6, <1>7 DEF Shows

\* The first request is answered.
LEMMA ShowsLoaded ==
    ASSUME SessionType, Loading, Shows, NEW m \in Live, m.answer = "asked", m.op = "FIRST_LOAD", Serve(m)
    PROVE  Shows'
  <1>1. page' = page /\ ServeEffects(m) /\ m.age # "stray"
    BY Serves DEF Serve, Live, ServeExpired, ServeUnregistered, ServeFirstLoad, ServeRegister, ServeList,
                  ServeJoin, ServeCreate, ServeLeave, ServeInfo, ServeLogout
  <1>2. Live = {m} /\ inFlight[m] = 1 /\ ~page.registered
    BY DEF Loading
  <1>3. ServeExpired(m) \/ ServeFirstLoad(m)
    BY DEF Serve, ServeUnregistered, ServeRegister, ServeList, ServeJoin, ServeCreate,
           ServeLeave, ServeInfo, ServeLogout
  <1>4. PICK r : /\ Replaces(m, r) /\ r.op = "FIRST_LOAD"
                 /\ \/ r.answer = "expired" /\ session' = "none"
                    \/ r.answer = "resumed" /\ session = "valid" /\ session' = "valid" /\ r.game = at
                    \/ r.answer = "fresh" /\ session # "valid" /\ session' = session
                 /\ UNCHANGED <<at, notices>>
    BY <1>1, <1>3 DEF ServeEffects, Served, ServeExpired, ServeFirstLoad
  <1>5. r # m
    BY <1>4
  <1>6. Live' = {r}
    BY <1>2, <1>4, <1>5 DEF Replaces
  <1>7. \A i \in DOMAIN notices : notices[i].age = "before"
    BY DEF Shows, FirstAnswer
  <1>8. FirstAnswer'
    BY <1>4, <1>6, <1>7 DEF FirstAnswer
  <1>9. Outside'
    BY <1>1, <1>2, <1>4, <1>6 DEF Shows, Outside
  <1> QED
    BY <1>1, <1>2, <1>8, <1>9 DEF Shows, View, Current, Follows

\* A stray request takes effect only before the first one is answered.
LEMMA ShowsStray ==
    ASSUME SessionType, Loading, Shows, NEW m \in BagToSet(inFlight), m.age = "stray", Serve(m), slips' = {}
    PROVE  Shows'
  <1>1. page' = page /\ m.answer = "asked" /\ ServeEffects(m)
    BY Serves DEF Serve, ServeExpired, ServeUnregistered, ServeFirstLoad, ServeRegister, ServeList,
                  ServeJoin, ServeCreate, ServeLeave, ServeInfo, ServeLogout
  <1>2. Live' = Live
    BY <1>1 DEF Serve, ServeEffects, Served, Keeps
  <1>3. CASE UNCHANGED <<session, at, notices>>
    BY <1>1, <1>2, <1>3, ShowsKeeps
  <1>4. CASE ServeExpired(m)
    <2>1. session = "gone" /\ session' = "none" /\ UNCHANGED <<at, notices>>
      BY <1>4 DEF ServeExpired
    <2>2. FirstAnswer'
      BY <1>2, <2>1 DEF Shows, FirstAnswer
    <2>3. Outside' /\ View' /\ Current' /\ Follows'
      BY <1>1, <1>2, <2>1 DEF Shows, Outside, View, Current, Follows
    <2> QED
      BY <2>2, <2>3 DEF Shows
  <1>5. CASE ~Strays(m) /\ notices' \in {notices, <<>>}
    <2>1. PICK n \in Live : n.op = "FIRST_LOAD" /\ n.answer = "asked"
      BY <1>5 DEF Strays, Live
    <2>2. Live = {n} /\ ~page.registered
      BY <2>1 DEF Loading
    <2>3. \A i \in DOMAIN notices' : notices'[i].age = "before"
      BY <1>5, <2>1 DEF Shows, FirstAnswer
    <2>4. FirstAnswer'
      BY <1>2, <2>1, <2>2, <2>3 DEF FirstAnswer
    <2>5. Outside'
      BY <1>1, <1>2, <2>1, <2>2 DEF Shows, Outside
    <2> QED
      BY <1>1, <2>2, <2>4, <2>5 DEF Shows, View, Current, Follows
  <1>6. ServeRegister(m) => UNCHANGED <<session, at, notices>> \/ (~Strays(m) /\ notices' = <<>>)
    BY DEF ServeRegister
  <1>7. ServeJoin(m) \/ ServeCreate(m) \/ ServeLeave(m) \/ ServeLogout(m)
           => UNCHANGED <<session, at, notices>> \/ (~Strays(m) /\ notices' \in {notices, <<>>})
    BY DEF ServeJoin, ServeCreate, ServeLeave, ServeLogout, Slip
  <1>8. ServeUnregistered(m) \/ ServeFirstLoad(m) \/ ServeList(m) \/ ServeInfo(m)
           => UNCHANGED <<session, at, notices>>
    BY DEF ServeUnregistered, ServeFirstLoad, ServeList, ServeInfo
  <1> QED
    BY <1>3, <1>4, <1>5, <1>6, <1>7, <1>8 DEF Serve

\* The user registers: no other registration has been heard of.
LEMMA ShowsRegistered ==
    ASSUME Shows, NoFirstLoad, NEW m \in Live, m.op = "REGISTER",
           NEW r, Replaces(m, r), r.op = "REGISTER", r.answer = "ok", ~page.registered,
           at' = None, notices' = <<>>, page' = page
    PROVE  Shows'
  <1>1. r \in Live' /\ \A n \in Live' : n \in Live \/ n = r
    BY DEF Replaces
  <1>2. FirstAnswer'
    BY <1>1 DEF FirstAnswer, NoFirstLoad
  <1>3. Outside'
    BY <1>1 DEF Shows, Outside
  <1> QED
    BY <1>2, <1>3 DEF Shows, View, Current, Follows

\* The user logs out.
LEMMA ShowsLoggedOut ==
    ASSUME Shows, NoFirstLoad, NEW m \in Live, m.op = "LOG_OUT", m.answer = "asked",
           NEW r, Replaces(m, r), r.op = m.op, page.registered,
           session' = "none", at' = None, notices' = <<>>, page' = page
    PROVE  Shows'
  <1>1. r \in Live' /\ \A n \in Live' : n \in Live \/ n = r
    BY DEF Replaces
  <1>2. FirstAnswer' /\ Outside'
    BY <1>1 DEF FirstAnswer, NoFirstLoad, Outside
  <1>3. View'
    BY <1>1 DEF Shows, View
  <1>4. Current'
    BY <1>1 DEF Shows, Current
  <1>5. Follows'
    BY DEF Follows
  <1> QED
    BY <1>2, <1>3, <1>4, <1>5 DEF Shows

LEMMA ShowsServed ==
    ASSUME SessionType, Loading, Polling, Shows, NEW m \in BagToSet(inFlight), Serve(m),
           slips' = {}, slips = {}
    PROVE  Shows'
  <1>1. page' = page /\ m.answer = "asked" /\ ServeEffects(m)
    BY Serves DEF Serve, ServeExpired, ServeUnregistered, ServeFirstLoad, ServeRegister, ServeList,
                  ServeJoin, ServeCreate, ServeLeave, ServeInfo, ServeLogout
  <1>2. CASE m.age = "stray"
    BY <1>2, ShowsStray
  <1>3. CASE m.age # "stray" /\ m.op = "FIRST_LOAD"
    <2>1. m \in Live
      BY <1>3 DEF Live
    <2> QED
      BY <1>1, <1>3, <2>1, ShowsLoaded
  <1>4. CASE m.age # "stray" /\ m.op # "FIRST_LOAD"
    <2>1. m \in Live
      BY <1>4 DEF Live
    <2>2. NoFirstLoad
      BY <1>4, <2>1 DEF Loading, NoFirstLoad
    <2>3. m.op \notin {"FIRST_LOAD", "REGISTER"} => page.registered
      BY <2>1 DEF Polling
    <2>4. CASE ServeExpired(m)
      <3>1. PICK r : Replaces(m, r) /\ r.op = m.op /\ r.age = m.age /\ r.answer = "expired" /\ r.game = m.game
        BY <1>1, <1>4, <2>4 DEF ServeEffects, Served
      <3>2. ~Entry(r) /\ ~Exit(r)
        BY <3>1 DEF Entry, Exit
      <3> QED
        BY <1>1, <2>1, <2>2, <2>4, <3>1, <3>2, ShowsReplied DEF ServeExpired
    <2>5. CASE ServeUnregistered(m)
      <3>1. PICK r : Replaces(m, r) /\ r.op = m.op /\ r.age = m.age /\ r.answer = "refused" /\ r.game = m.game
        BY <1>1, <1>4, <2>5 DEF ServeEffects, Served
      <3>2. ~Entry(r) /\ ~Exit(r)
        BY <3>1 DEF Entry, Exit
      <3> QED
        BY <1>1, <2>1, <2>2, <2>5, <3>1, <3>2, ShowsReplied DEF ServeUnregistered
    <2>6. CASE ServeList(m)
      <3>1. PICK r : Replaces(m, r) /\ r.op = m.op /\ r.age = m.age
        BY <1>1, <1>4, <2>6 DEF ServeEffects, Served
      <3>2. m.op = "GAME_LIST" /\ ~Entry(r) /\ ~Exit(r)
        BY <2>6, <3>1 DEF Entry, Exit, ServeList
      <3> QED
        BY <1>1, <2>1, <2>2, <2>6, <3>1, <3>2, ShowsReplied DEF ServeList
    <2>7. CASE ServeRegister(m)
      <3>1. m.op = "REGISTER"
        BY <2>7 DEF ServeRegister
      <3>2. CASE Unmoved /\ Served(m, "refused", None)
        <4>1. PICK r : Replaces(m, r) /\ r.op = m.op /\ r.age = m.age
          BY <1>4, <3>2 DEF Served
        <4>2. ~Entry(r) /\ ~Exit(r)
          BY <3>1, <4>1 DEF Entry, Exit
        <4> QED
          BY <1>1, <2>1, <2>2, <3>1, <3>2, <4>1, <4>2, ShowsReplied DEF Unmoved
      <3>3. CASE at' = None /\ notices' = <<>> /\ session # "valid" /\ Served(m, "ok", None)
        <4>1. PICK r : Replaces(m, r) /\ r.op = m.op /\ r.answer = "ok"
          BY <1>4, <3>3 DEF Served
        <4>2. ~page.registered
          BY <1>1, <2>1, <3>1, <3>3 DEF Polling, Registering
        <4> QED
          BY <1>1, <2>1, <2>2, <3>1, <3>3, <4>1, <4>2, ShowsRegistered
      <3>4. ~(session = "valid" /\ slips' = slips \cup {x \in {"hasty", "stray"} :
                                        IF x = "hasty" THEN session = "valid" ELSE Strays(m)})
        OBVIOUS
      <3> QED
        BY <1>1, <2>7, <3>2, <3>3, <3>4 DEF ServeEffects
    <2>8. CASE ServeJoin(m)
      <3>1. m.op = "JOIN" /\ session = "valid" /\ page.registered /\ m.game \in Games
        BY <2>3, <2>8 DEF ServeJoin, SessionType, Mail, Sound
      <3>2. CASE at = None /\ at' = m.game /\ UNCHANGED <<session, games, notices>> /\ Served(m, "ok", m.game)
        <4>1. PICK r : Replaces(m, r) /\ r.op = m.op /\ r.age = m.age /\ r.answer = "ok" /\ r.game = m.game
          BY <1>4, <3>2 DEF Served
        <4> QED
          BY <1>1, <2>1, <2>2, <3>1, <3>2, <4>1, ShowsJoined
      <3>3. ASSUME NEW answer \in {"refused", "invalid"}, Unmoved, Served(m, answer, m.game) PROVE Shows'
        <4>1. PICK r : Replaces(m, r) /\ r.op = m.op /\ r.age = m.age /\ r.answer = answer
          BY <1>4, <3>3 DEF Served
        <4>2. ~Entry(r) /\ ~Exit(r)
          BY <3>1, <3>3, <4>1 DEF Entry, Exit
        <4> QED
          BY <1>1, <2>1, <2>2, <3>1, <3>3, <4>1, <4>2, ShowsReplied DEF Unmoved
      <3> QED
        BY <1>1, <2>8, <3>2, <3>3 DEF ServeEffects
    <2>9. CASE ServeCreate(m)
      <3>1. m.op = "CREATE" /\ session = "valid" /\ page.registered
        BY <2>3, <2>9 DEF ServeCreate
      <3>2. ASSUME at = None, UNCHANGED <<session, notices>>, NEW g \in Games, at' = g, Served(m, "ok", g)
            PROVE  Shows'
        <4>1. PICK r : Replaces(m, r) /\ r.op = m.op /\ r.age = m.age /\ r.answer = "ok" /\ r.game = g
          BY <1>4, <3>2 DEF Served
        <4> QED
          BY <1>1, <2>1, <2>2, <3>1, <3>2, <4>1, ShowsJoined
      <3>3. CASE Unmoved /\ Served(m, "refused", None)
        <4>1. PICK r : Replaces(m, r) /\ r.op = m.op /\ r.age = m.age /\ r.answer = "refused"
          BY <1>4, <3>3 DEF Served
        <4>2. ~Entry(r) /\ ~Exit(r)
          BY <3>1, <4>1 DEF Entry, Exit
        <4> QED
          BY <1>1, <2>1, <2>2, <3>1, <3>3, <4>1, <4>2, ShowsReplied DEF Unmoved
      <3> QED
        BY <1>1, <2>9, <3>2, <3>3 DEF ServeEffects
    <2>10. ASSUME m.game \notin games, Served(m, "invalid", m.game), UNCHANGED <<session, at, notices>>,
                  m.op \in {"LEAVE", "INFO"}
           PROVE  Shows'
      <3>1. PICK r : Replaces(m, r) /\ r.op = m.op /\ r.age = m.age /\ r.answer = "invalid" /\ r.game = m.game
        BY <1>4, <2>10 DEF Served
      <3>2. ~Entry(r)
        BY <3>1 DEF Entry
      <3>3. r.age = "now" /\ page.registered /\ session = "valid" =>
                at = None \/ Doomed \/ \E n \in Live : Entry(n)
        <4> SUFFICES ASSUME r.age = "now", page.registered, session = "valid", at # None
                     PROVE  Doomed \/ \E n \in Live : Entry(n)
          OBVIOUS
        <4>1. page.open \subseteq {m.game}
          BY <2>1, <2>10, <3>1 DEF Shows, Current
        <4>2. at \notin page.open
          BY <2>10, <4>1 DEF SessionType
        <4> QED
          BY <4>2 DEF Shows, Follows
      <3> QED
        BY <1>1, <2>1, <2>2, <2>10, <3>1, <3>2, <3>3, ShowsReplied
    <2>11. CASE ServeLeave(m)
      <3>1. m.op = "LEAVE" /\ session = "valid" /\ page.registered
        BY <2>3, <2>11 DEF ServeLeave
      <3>2. CASE at' = None /\ UNCHANGED <<session, notices>> /\ Served(m, "ok", m.game)
        <4>1. PICK r : Replaces(m, r) /\ r.op = m.op /\ r.age = m.age /\ r.answer = "ok" /\ r.game = m.game
          BY <1>4, <3>2 DEF Served
        <4> QED
          BY <1>1, <2>1, <2>2, <3>1, <3>2, <4>1, ShowsLeft
      <3>3. CASE Unmoved /\ Served(m, "refused", m.game)
        <4>1. PICK r : Replaces(m, r) /\ r.op = m.op /\ r.age = m.age /\ r.answer = "refused" /\ r.game = m.game
          BY <1>4, <3>3 DEF Served
        <4>2. ~Entry(r) /\ ~Exit(r)
          BY <3>1, <4>1 DEF Entry, Exit
        <4> QED
          BY <1>1, <2>1, <2>2, <3>3, <4>1, <4>2, ShowsReplied DEF Unmoved
      <3>4. CASE Unmoved /\ m.game \notin games /\ Served(m, "invalid", m.game)
        BY <2>10, <3>1, <3>4 DEF Unmoved
      <3> QED
        BY <1>1, <2>11, <3>2, <3>3, <3>4 DEF ServeEffects
    <2>12. CASE ServeInfo(m)
      <3>1. m.op = "INFO" /\ UNCHANGED <<session, at, notices>>
        BY <2>12 DEF ServeInfo
      <3>2. CASE m.game \in games
        <4>1. PICK r : Replaces(m, r) /\ r.op = m.op /\ r.age = m.age /\ r.answer = "ok" /\ r.game = m.game
          BY <1>1, <1>4, <2>12, <3>2 DEF ServeEffects, Served
        <4>2. ~Entry(r) /\ ~Exit(r)
          BY <3>1, <4>1 DEF Entry, Exit
        <4> QED
          BY <1>1, <2>1, <2>2, <3>1, <4>1, <4>2, ShowsReplied
      <3>3. CASE m.game \notin games
        <4>1. Served(m, "invalid", m.game)
          BY <1>1, <2>12, <3>3 DEF ServeEffects
        <4> QED
          BY <2>10, <3>1, <3>3, <4>1
      <3> QED
        BY <3>2, <3>3
    <2>13. CASE ServeLogout(m)
      <3>1. m.op = "LOG_OUT" /\ session' = "none" /\ at' = None /\ notices' = <<>> /\ page.registered
        BY <2>3, <2>13 DEF ServeLogout
      <3>2. PICK r : Replaces(m, r) /\ r.op = m.op
        BY <1>1, <1>4, <2>13 DEF ServeEffects, Served
      <3> QED
        BY <1>1, <2>1, <2>2, <3>1, <3>2, ShowsLoggedOut
    <2>14. CASE ServeFirstLoad(m)
      BY <1>4, <2>14 DEF ServeFirstLoad
    <2> QED
      BY <2>4, <2>5, <2>6, <2>7, <2>8, <2>9, <2>11, <2>12, <2>13, <2>14 DEF Serve
  <1> QED
    BY <1>2, <1>3, <1>4

\* What does not matter is heard and forgotten.
LEMMA ShowsForgot ==
    ASSUME Shows, NoFirstLoad, NEW m \in Live, Forgets(m), ~Entry(m), ~Exit(m),
           m.op = "REGISTER" => m.answer # "ok", m.op # "LOG_OUT",
           UNCHANGED <<session, at, notices>>,
           page' = page \/ (SameView /\ m.op = "GAME_LIST")
    PROVE  Shows'
  <1>1. Live' \subseteq Live /\ \A n \in Live : n # m => n \in Live'
    BY DEF Forgets, Counted
  <1>2. Remembers
    BY <1>1 DEF Remembers
  <1>3. SameView
    BY DEF SameView
  <1>4. \A n \in Live' : Exit(n) /\ n.age = "now" => \E k \in Live : Exit(k) /\ k.age = "now"
    BY <1>1
  <1> QED
    BY <1>1, <1>2, <1>3, <1>4, ShowsCalm

\* The first answer is heard.
LEMMA ShowsFirstHeard ==
    ASSUME SessionType, Loading, Shows, NEW m \in BagToSet(inFlight), Learn(m), LearnFirstLoad(m)
    PROVE  Shows'
  <1>1. m \in Live /\ m.op = "FIRST_LOAD" /\ LearnEffects(m) /\ m.answer # "asked" /\ page \in Pages
    BY Learns DEF Learn, LearnFirstLoad, Live, LearnEffects, SessionType
  <1>2. /\ Live = {m} /\ inFlight[m] = 1 /\ m.answer \in {"expired", "resumed", "fresh"}
        /\ ~page.registered /\ page.open = {} /\ ~page.list
        /\ m.answer = "expired" => ~page.hasRetriedFirstLoad
    BY <1>1 DEF Loading
  <1>3. /\ \A i \in DOMAIN notices : notices[i].age = "before"
        /\ m.answer = "resumed" => session = "valid" /\ m.game = at
        /\ m.answer \in {"fresh", "expired"} => session # "valid"
    BY <1>1 DEF Shows, FirstAnswer
  <1>4. UNCHANGED <<session, at>>
    BY DEF LearnFirstLoad
  <1>5. /\ Message("GAME_LIST", None).op = "GAME_LIST" /\ Message("GAME_LIST", None).age = "now"
        /\ \A g \in Games : /\ Message("INFO", g).op = "INFO" /\ Message("INFO", g).game = g
                            /\ Message("INFO", g).answer = "asked"
        /\ Message("FIRST_LOAD", None).op = "FIRST_LOAD" /\ Message("FIRST_LOAD", None).answer = "asked"
    BY NewMessage DEF Ops
  <1>6. CASE IntoGame(m)
    <2> DEFINE S == {Message("GAME_LIST", None), Message("INFO", m.game)}
    <2> HIDE DEF S
    <2>1. /\ m.game \in Games /\ Enters(m, S) /\ notices' = AgedNotices
          /\ page' = [Entered(Registered(Shown(page)), m.game) EXCEPT !.hasAutojoinedGame = TRUE]
      BY <1>1, <1>6 DEF LearnEffects, IntoGame, Resumes, Retries, S
    <2>2. page'.registered /\ page'.open = {m.game} /\ ~page'.list /\ page'.hash = m.game /\ page'.hasAutojoinedGame
      BY <1>1, <1>2, <2>1, ResumedFields
    <2>3. Live' \subseteq S
      BY <1>2, <2>1 DEF Enters
    <2>4. \A n \in Live' : n.op = "GAME_LIST" \/ (n.op = "INFO" /\ n.game = m.game /\ n.answer = "asked")
      BY <1>5, <2>1, <2>3 DEF S
    <2>5. \A i \in DOMAIN notices' : notices'[i].age = "before"
      BY <2>1, AgedNoticesType DEF SessionType
    <2>6. at' = m.game
      BY <1>3, <1>4, <1>6 DEF IntoGame
    <2>7. \A n \in Live' : ~Entry(n) /\ ~Exit(n)
      BY <2>4 DEF Entry, Exit
    <2>8. FirstAnswer' /\ Outside' /\ View'
      BY <2>2, <2>4 DEF FirstAnswer, Outside, View
    <2>9. Current'
      BY <2>2, <2>4, <2>5 DEF Current
    <2>10. Follows'
      BY <2>2, <2>5, <2>6, <2>7 DEF Follows
    <2> QED
      BY <2>8, <2>9, <2>10 DEF Shows
  <1>7. CASE Resumes(m)
    <2>1. /\ page' = Registered(Shown(page)) /\ notices' = notices
          /\ Live' \subseteq {Message("GAME_LIST", None)}
      BY <1>1, <1>2, <1>7 DEF LearnEffects, Replaces, IntoGame, Resumes, Retries
    <2>2. Shown(page) \in Pages /\ Shown(page).open = page.open
      BY <1>1, ShownFields
    <2>3. page'.registered /\ page'.open = {} /\ page'.list
      BY <1>2, <2>1, <2>2, RegisteredFields
    <2>4. \A n \in Live' : n.op = "GAME_LIST"
      BY <1>5, <2>1
    <2>5. at' = None
      BY <1>3, <1>4, <1>7 DEF Resumes, IntoGame
    <2>6. NoFirstLoad' /\ \A n \in Live' : ~Entry(n)
      BY <2>4 DEF NoFirstLoad, Entry
    <2> QED
      BY <2>3, <2>5, <2>6, ShowsReset
  <1>8. CASE m.answer = "fresh"
    <2>1. page' = Shown(page) /\ Live' = {}
      BY <1>1, <1>2, <1>8 DEF LearnEffects, Forgets, IntoGame, Resumes, Retries
    <2>2. ~page'.registered /\ page'.open = {} /\ ~page'.list
      BY <1>1, <1>2, <2>1, ShownFields
    <2>3. session' # "valid"
      BY <1>3, <1>4, <1>8
    <2> QED
      BY <2>1, <2>2, <2>3, ShowsReset DEF NoFirstLoad
  <1>9. CASE m.answer = "expired"
    <2>1. /\ page' = [page EXCEPT !.hasRetriedFirstLoad = TRUE] /\ notices' = notices
          /\ Replaces(m, Message("FIRST_LOAD", None))
      BY <1>1, <1>2, <1>9 DEF LearnEffects, IntoGame, Resumes, Retries
    <2>2. ~page'.registered /\ page'.open = {} /\ ~page'.list
      BY <1>1, <1>2, <2>1 DEF Pages
    <2>3. Live' \subseteq {Message("FIRST_LOAD", None)} /\ Message("FIRST_LOAD", None) \in Live'
      BY <1>2, <2>1 DEF Replaces
    <2>4. FirstAnswer'
      BY <1>3, <1>5, <2>1, <2>3 DEF FirstAnswer
    <2>5. Outside'
      BY <1>3, <1>4, <1>9, <2>2 DEF Outside
    <2> QED
      BY <2>2, <2>4, <2>5 DEF Shows, View, Current, Follows
  <1> QED
    BY <1>2, <1>6, <1>7, <1>8, <1>9 DEF Resumes

\* The page hears that it is registered.
LEMMA ShowsRegisteredHeard ==
    ASSUME SessionType, Polling, Shows, NoFirstLoad, NEW m \in Live, m.op = "REGISTER", m.answer = "ok",
           page' = Registered(page), Replaces(m, Message("GAME_LIST", None)), UNCHANGED <<session, at>>
    PROVE  Shows'
  <1>1. ~page.registered /\ session = "valid" /\ page \in Pages
    BY DEF Polling, Registering, SessionType
  <1>2. at = None /\ page.open = {}
    BY <1>1 DEF Shows, Outside, NoFirstLoad
  <1>3. page'.registered /\ page'.list /\ page'.open = {}
    BY <1>1, <1>2, RegisteredFields
  <1>4. Message("GAME_LIST", None).op = "GAME_LIST"
    BY NewMessage DEF Ops
  <1>5. \A n \in Live' : n.op \in {"REGISTER", "GAME_LIST"}
    BY <1>1, <1>4 DEF Polling, NoFirstLoad, Replaces
  <1>6. NoFirstLoad' /\ \A n \in Live' : ~Entry(n)
    BY <1>5 DEF NoFirstLoad, Entry
  <1> QED
    BY <1>2, <1>3, <1>6, ShowsReset

\* The page enters a game.
LEMMA ShowsEntered ==
    ASSUME SessionType, Shows, NoFirstLoad, NEW m \in Live, Entry(m), m.game \in Games, m.age = "now",
           page.registered, page' = Entered(page, m.game), Enters(m, {Message("INFO", m.game)}),
           notices' = AgedNotices, UNCHANGED <<session, at>>
    PROVE  Shows'
  <1>1. page.open = {} /\ page \in Pages
    BY DEF Shows, Current, Entry, SessionType
  <1>2. page'.registered /\ page'.open = {m.game} /\ ~page'.list /\ page'.hash = m.game
    BY <1>1, EnteredFields
  <1>3. LET r == Message("INFO", m.game) IN r.op = "INFO" /\ r.game = m.game /\ r.answer = "asked"
    BY NewMessage DEF Ops
  <1>4. \A n \in Live : /\ Older(n).op = n.op /\ Older(n).answer = n.answer
                        /\ Older(n).age # "now" /\ (Older(n).age = "stray" <=> n.age = "stray")
    BY OlderFields DEF SessionType, Mail, Live
  <1>5. \A k \in Live' : (\E n \in Live : k = Older(n)) \/ (k.op = "INFO" /\ k.game = m.game /\ k.answer = "asked")
    BY <1>3 DEF Enters
  <1>6. \A k \in Live' : k.age = "now" => k.op = "INFO" /\ k.game = m.game /\ ~Entry(k) /\ ~Exit(k)
    BY <1>4, <1>5 DEF Entry, Exit
  <1>7. \A k \in Live' : k.op # "FIRST_LOAD"
    BY <1>4, <1>5 DEF NoFirstLoad
  <1>8. \A i \in DOMAIN notices' : notices'[i].age = "before"
    BY AgedNoticesType DEF SessionType
  <1>9. FirstAnswer' /\ Outside' /\ View'
    BY <1>2, <1>7 DEF FirstAnswer, Outside, View
  <1>10. Current'
    BY <1>2, <1>6, <1>8 DEF Current
  <1>11. ASSUME session = "valid", at # m.game
         PROVE  Doomed' /\ \E k \in Live' : Exit(k)
    <2>1. PICK n \in Live : n.op = "LEAVE" /\ n.answer = "ok"
      BY <1>11 DEF Shows, Follows
    <2>2. n # m /\ Sound(n) /\ n.age \in Ages
      BY <2>1 DEF Entry, SessionType, Mail, Live, Sound, Messages
    <2>3. Older(n) \in Live' /\ Exit(Older(n)) /\ Older(n).age = "before"
      <3>1. Older(n) \in Live'
        BY <2>2 DEF Enters
      <3>2. Exit(Older(n))
        BY <1>4, <2>1 DEF Exit
      <3>3. Older(n) \in Messages /\ Older(n).age \in Ages
        BY <2>2, OlderFields DEF Sound, Messages
      <3>4. Older(n).age # "now" /\ Older(n).age # "stray"
        BY <1>4, <3>1 DEF Live
      <3> QED
        BY <3>1, <3>2, <3>3, <3>4 DEF Ages
    <2> QED
      BY <2>3 DEF Doomed
  <1>12. Follows'
    BY <1>2, <1>6, <1>8, <1>11 DEF Follows
  <1> QED
    BY <1>9, <1>10, <1>12 DEF Shows

\* The page is put back into the lobby: of the game it is in, and not too late.
LEMMA ShowsBack ==
    ASSUME SessionType, Shows, NoFirstLoad, NEW g \in Games, page.registered, page.open \subseteq {g},
           page' = BackInLobby(page, g), UNCHANGED <<session, at>>,
           \A n \in Live : ~Entry(n), session = "valid" => at = None \/ Doomed', NoFirstLoad',
           Live' \subseteq Live \cup {Message("GAME_LIST", None)}
    PROVE  Shows'
  <1>1. page'.registered /\ page'.list /\ page'.open = {}
    BY BackFields DEF SessionType
  <1>2. Message("GAME_LIST", None).op = "GAME_LIST"
    BY NewMessage DEF Ops
  <1>3. \A n \in Live' : ~Entry(n)
    BY <1>2 DEF Entry
  <1> QED
    BY <1>1, <1>3, ShowsReset

LEMMA ShowsHeard ==
    ASSUME SessionType, Loading, Polling, Shows, NEW m \in BagToSet(inFlight), Learn(m), ~LearnLogout(m),
           slips' = {}
    PROVE  Shows'
  <1>1. LearnEffects(m) /\ m.answer # "asked" /\ page \in Pages
    BY Learns DEF Learn, SessionType
  <1>2. m \in Live /\ Sound(m) /\ m.age \in Ages
    BY <1>1 DEF LearnEffects, Live, SessionType, Mail, Sound, Messages
  <1>3. CASE LearnFirstLoad(m)
    BY <1>3, ShowsFirstHeard
  <1>4. CASE ~LearnFirstLoad(m)
    <2>1. m.op # "FIRST_LOAD" /\ m.op # "LOG_OUT"
      BY <1>4 DEF Learn, LearnRegister, LearnList, LearnListUnread, LearnJoin, LearnLeave
    <2>2. NoFirstLoad
      BY <1>2, <2>1 DEF Loading, NoFirstLoad
    <2>3. NoFirstLoad'
      BY <1>4, <2>2, LoadingElse
    <2>4. m.op # "REGISTER" => page.registered
      BY <1>2, <2>1 DEF Polling
    <2>5. m.age # "before" => m.age = "now"
      BY <1>1, <1>2 DEF LearnEffects, Ages
    <2>6. CASE LearnRegister(m)
      <3>1. m.op = "REGISTER" /\ UNCHANGED <<session, at, notices>>
        BY <2>6 DEF LearnRegister
      <3>2. ~Entry(m) /\ ~Exit(m)
        BY <3>1 DEF Entry, Exit
      <3>3. CASE m.answer = "ok" /\ page' = Registered(page) /\ Replaces(m, Message("GAME_LIST", None))
        BY <1>2, <2>2, <3>1, <3>3, ShowsRegisteredHeard
      <3>4. CASE m.answer # "ok" /\ page' = page /\ Forgets(m)
        BY <1>2, <2>1, <2>2, <3>1, <3>2, <3>4, ShowsForgot
      <3> QED
        BY <1>1, <2>6, <3>3, <3>4 DEF LearnEffects
    <2>7. CASE LearnList(m)
      <3>1. m.op = "GAME_LIST" /\ UNCHANGED <<session, at, notices>> /\ page.registered
        BY <2>4, <2>7 DEF LearnList
      <3>2. ~Entry(m) /\ ~Exit(m)
        BY <3>1 DEF Entry, Exit
      <3>3. CASE Forgets(m) /\ page' = page
        BY <1>2, <2>1, <2>2, <3>1, <3>2, <3>3, ShowsForgot
      <3>4. Slip("late", m.age = "before") => m.age = "now"
        BY <2>5 DEF Slip
      <3>5. m.age = "now" /\ page.autojoinGameId # None /\ ~page.hasAutojoinedGame => page.open = {}
        BY <1>2, <3>1 DEF Shows, Current
      <3>6. CASE /\ page.autojoinGameId # None /\ ~page.hasAutojoinedGame /\ m.age = "now"
                 /\ page' = [page EXCEPT !.autojoinGameId = None, !.hash = None] /\ Forgets(m)
        <4>1. SameView
          BY <1>1, <3>5, <3>6 DEF Pages, SameView
        <4> QED
          BY <1>2, <2>1, <2>2, <3>1, <3>2, <3>6, <4>1, ShowsForgot
      <3>7. CASE /\ page.autojoinGameId # None /\ ~page.hasAutojoinedGame /\ m.age = "now"
                 /\ page' = [page EXCEPT !.autojoinGameId = None]
                 /\ Replaces(m, Message("JOIN", page.autojoinGameId))
        <4> DEFINE r == Message("JOIN", page.autojoinGameId)
        <4>1. SameView
          BY <1>1, <3>7 DEF Pages, SameView
        <4>2. page.autojoinGameId \in Games
          BY <1>1, <3>7 DEF Pages
        <4>3. r.op = "JOIN" /\ r.answer = "asked" /\ Replaces(m, r)
          BY <3>7, <4>2, NewMessage DEF Ops
        <4> HIDE DEF r
        <4>4. Suits(r) /\ ~Exit(r)
          BY <3>5, <3>7, <4>3 DEF Suits, Entry, Exit
        <4>5. r \in Live' /\ Live' \subseteq Live \cup {r} /\ \A n \in Live : n # m => n \in Live'
          BY <4>3 DEF Replaces, Counted
        <4>6. Remembers
          BY <2>1, <3>1, <3>2, <4>5 DEF Remembers
        <4>7. \A n \in Live' : Exit(n) /\ n.age = "now" => \E k \in Live : Exit(k) /\ k.age = "now"
          BY <4>4, <4>5
        <4>8. \A n \in Live' : n \in Live \/ Suits(n)
          BY <4>4, <4>5
        <4> QED
          BY <2>2, <3>1, <4>1, <4>6, <4>7, <4>8, ShowsCalm
      <3> QED
        BY <1>1, <2>7, <3>3, <3>4, <3>6, <3>7 DEF LearnEffects
    <2>8. CASE LearnListUnread(m)
      <3>1. m.op = "GAME_LIST" /\ UNCHANGED <<session, at, notices, page>>
        BY <2>8 DEF LearnListUnread
      <3>2. ~Entry(m) /\ ~Exit(m) /\ Forgets(m)
        BY <1>1, <2>8, <3>1 DEF Entry, Exit, LearnEffects
      <3> QED
        BY <1>2, <2>1, <2>2, <3>1, <3>2, ShowsForgot
    <2>9. CASE LearnJoin(m)
      <3>1. m.op \in {"JOIN", "CREATE"} /\ UNCHANGED <<session, at>> /\ page.registered
        BY <2>4, <2>9 DEF LearnJoin
      <3>2. CASE /\ Entry(m) /\ m.game \in Games /\ page' = Entered(page, m.game)
                 /\ Enters(m, {Message("INFO", m.game)}) /\ notices' = AgedNotices
                 /\ Slip("late", m.age = "before")
        <4>1. m.age = "now"
          BY <2>5, <3>2 DEF Slip
        <4> QED
          BY <1>2, <2>2, <3>1, <3>2, <4>1, ShowsEntered
      <3>3. CASE m.answer # "ok" /\ Forgets(m) /\ UNCHANGED <<page, notices, slips>>
        <4>1. ~Entry(m) /\ ~Exit(m)
          BY <3>1, <3>3 DEF Entry, Exit
        <4> QED
          BY <1>2, <2>1, <2>2, <3>1, <3>3, <4>1, ShowsForgot
      <3> QED
        BY <1>1, <2>9, <3>2, <3>3 DEF LearnEffects
    <2>10. CASE LearnLeave(m)
      <3>1. m.op \in {"LEAVE", "INFO"} /\ UNCHANGED <<session, at, notices>> /\ page.registered
        BY <2>4, <2>10 DEF LearnLeave
      <3>2. CASE /\ Exit(m) /\ m.game \in Games /\ page' = BackInLobby(page, m.game)
                 /\ Replaces(m, Message("GAME_LIST", None))
                 /\ Slip("late", m.age = "before" \/ Overtakes)
        <4>1. m.age = "now" /\ ~Overtakes
          BY <2>5, <3>2 DEF Slip
        <4>2. \A n \in Live : ~Entry(n)
          BY <4>1 DEF Overtakes, Entry, Live
        <4>3. page.open \subseteq {m.game}
          BY <1>2, <3>1, <4>1 DEF Shows, Current
        <4>4. Doomed => Doomed'
          <5>1. \A n \in Live : n.age = "before" /\ Exit(n) => n \in Live'
            BY <3>2, <4>1 DEF Replaces, Counted
          <5> QED
            BY <3>1, <4>2, <5>1 DEF Doomed
        <4>5. session = "valid" => at = None \/ Doomed
          BY <1>2, <3>1, <3>2, <4>1, <4>2 DEF Shows, Follows
        <4>6. Live' \subseteq Live \cup {Message("GAME_LIST", None)}
          BY <3>2 DEF Replaces
        <4> QED
          BY <2>2, <2>3, <3>1, <3>2, <4>2, <4>3, <4>4, <4>5, <4>6, ShowsBack
      <3>3. CASE ~Exit(m) /\ Forgets(m) /\ UNCHANGED <<page, slips>>
        <4>1. ~Entry(m)
          BY <3>1 DEF Entry
        <4> QED
          BY <1>2, <2>1, <2>2, <3>1, <3>3, <4>1, ShowsForgot
      <3> QED
        BY <1>1, <2>10, <3>2, <3>3 DEF LearnEffects
    <2> QED
      BY <1>4, <2>6, <2>7, <2>8, <2>9, <2>10 DEF Learn
  <1> QED
    BY <1>3, <1>4

LEMMA ShowsAgain ==
    ASSUME SessionType, Again
    PROVE  Shows'
  <1>1. page.hash \in Games \cup {None}
    BY DEF SessionType, Pages
  <1>2. ~page'.registered /\ page'.open = {} /\ ~page'.list
    BY <1>1, LoadedFields DEF Again
  <1>3. \A i \in DOMAIN notices' : notices'[i].age = "before"
    BY AgedNoticesType DEF SessionType, Again
  <1>4. LET f == Message("FIRST_LOAD", None) IN
        f \in Live' /\ f.op = "FIRST_LOAD" /\ \A n \in Live' : n = f /\ n.answer = "asked"
    BY NewMessage DEF Again, Restarts, Ops
  <1>5. FirstAnswer'
    BY <1>3, <1>4 DEF FirstAnswer
  <1>6. Outside'
    BY <1>2, <1>4 DEF Outside
  <1> QED
    BY <1>2, <1>5, <1>6 DEF Shows, View, Current, Follows

\* What the user asks for suits the game the page is in.
LEMMA ShowsSent ==
    ASSUME Shows, NoFirstLoad, NEW r, Sends(r), Suits(r), ~Exit(r), UNCHANGED <<session, at, notices>>,
           page' = page \/ (SameView /\ r.op = "LOG_OUT")
    PROVE  Shows'
  <1>1. Live' = Live \cup {r}
    BY DEF Sends
  <1>2. Remembers /\ SameView
    BY <1>1 DEF Remembers, SameView
  <1>3. \A n \in Live' : n \in Live \/ Suits(n)
    BY <1>1
  <1>4. \A n \in Live' : Exit(n) /\ n.age = "now" => \E k \in Live : Exit(k) /\ k.age = "now"
    BY <1>1
  <1> QED
    BY <1>2, <1>3, <1>4, ShowsCalm

LEMMA ShowsStep ==
    ASSUME SessionType, [Next]_vars, slips' = {}, slips = {} => Loading /\ Polling /\ Shows
    PROVE  Shows'
  <1>1. CASE Again
    BY <1>1, ShowsAgain
  <1>2. CASE ~Again
    <2>1. slips = {} /\ Loading /\ Polling /\ Shows /\ page \in Pages
      BY <1>2, AgainOrKept DEF SessionType
    <2>2. \A op \in {"REGISTER", "CREATE", "LOG_OUT", "GAME_LIST"} :
             Message(op, None).op = op /\ Message(op, None).answer = "asked"
      BY NewMessage DEF Ops
    <2>3. \A op \in {"JOIN", "LEAVE"}, g \in Games :
             Message(op, g).op = op /\ Message(op, g).answer = "asked" /\ Message(op, g).game = g
      BY NewMessage DEF Ops
    <2>4. page.registered => NoFirstLoad
      BY <2>1 DEF Loading, NoFirstLoad
    <2>5. CASE RegisterClick
      <3>1. NoFirstLoad
        BY <2>5 DEF RegisterClick, Slip, UnderWay, NoFirstLoad, Live
      <3> DEFINE r == Message("REGISTER", None)
      <3>2. r.op = "REGISTER" /\ Sends(r)
        BY <2>2, <2>5, Clicks DEF ClickEffects
      <3> HIDE DEF r
      <3>3. Suits(r) /\ ~Exit(r)
        BY <3>2 DEF Suits, Entry, Exit
      <3> QED
        BY <2>1, <2>5, <3>1, <3>2, <3>3, ShowsSent DEF RegisterClick, Ask
    <2>6. InLobby => NoFirstLoad /\ page.open = {}
      BY <2>1, <2>4 DEF InLobby, Shows, View
    <2>7. CASE CreateClick
      <3> DEFINE r == Message("CREATE", None)
      <3>1. r.op = "CREATE" /\ r.answer = "asked" /\ Sends(r)
        BY <2>2, <2>7, Clicks DEF ClickEffects
      <3> HIDE DEF r
      <3>2. Suits(r) /\ ~Exit(r)
        BY <2>6, <2>7, <3>1 DEF Suits, Entry, Exit, CreateClick
      <3> QED
        BY <2>1, <2>6, <2>7, <3>1, <3>2, ShowsSent DEF CreateClick, Ask
    <2>8. ASSUME NEW g \in Games, JoinClick(g) PROVE Shows'
      <3> DEFINE r == Message("JOIN", g)
      <3>1. r.op = "JOIN" /\ r.answer = "asked" /\ Sends(r)
        BY <2>3, <2>8, Clicks DEF ClickEffects
      <3> HIDE DEF r
      <3>2. Suits(r) /\ ~Exit(r)
        BY <2>6, <2>8, <3>1 DEF Suits, Entry, Exit, JoinClick
      <3> QED
        BY <2>1, <2>6, <2>8, <3>1, <3>2, ShowsSent DEF JoinClick, Ask
    <2>9. ASSUME NEW g \in Games, LeaveClick(g) PROVE Shows'
      <3> DEFINE r == Message("LEAVE", g)
      <3>1. r.op = "LEAVE" /\ r.answer = "asked" /\ r.game = g /\ Sends(r)
        BY <2>3, <2>9, Clicks DEF ClickEffects
      <3>2. g \in page.open /\ page.registered
        BY <2>1, <2>9 DEF LeaveClick, Polling
      <3> HIDE DEF r
      <3>3. page.open \subseteq {g}
        BY <2>1, <3>2 DEF Shows, View
      <3>4. Suits(r) /\ ~Exit(r)
        BY <3>1, <3>3 DEF Suits, Entry, Exit
      <3> QED
        BY <2>1, <2>4, <2>9, <3>1, <3>2, <3>4, ShowsSent DEF LeaveClick, Ask
    <2>10. CASE LogoutClick
      <3> DEFINE r == Message("LOG_OUT", None)
      <3>1. r.op = "LOG_OUT" /\ Sends(r)
        BY <2>2, <2>10, Clicks DEF ClickEffects
      <3> HIDE DEF r
      <3>2. Suits(r) /\ ~Exit(r)
        BY <3>1 DEF Suits, Entry, Exit
      <3>3. r \in Live'
        BY <3>1 DEF Sends
      <3>4. SameView
        BY <2>1, <2>10, <3>1, <3>3 DEF LogoutClick, Pages, SameView
      <3> QED
        BY <2>1, <2>4, <2>10, <3>1, <3>2, <3>4, ShowsSent DEF LogoutClick, Ask
    <2>11. CASE ThrownOut
      <3>1. /\ page.registered /\ UNCHANGED <<session, at>> /\ page' = BackInLobby(page, Head(notices).game)
            /\ Slip("late", Head(notices).age = "before" \/ Overtakes)
        BY <2>1, <2>11 DEF ThrownOut, Polling
      <3>2. /\ Len(notices) > 0 /\ Head(notices) = notices[1] /\ notices[1] \in Notices
            /\ Len(notices') = Len(notices) - 1 /\ \A i \in DOMAIN notices' : notices'[i] = notices[i + 1]
        BY <2>11, ThrownOutType
      <3>3. notices \in Seq(Notices) /\ notices' \in Seq(Notices)
        BY <2>11, ThrownOutType DEF SessionType
      <3>4. DOMAIN notices = 1..Len(notices) /\ DOMAIN notices' = 1..Len(notices') /\ Len(notices) \in Nat
        BY <3>3
      <3>5. ~Overtakes /\ notices[1].age = "now" /\ notices[1].game \in Games
        BY <3>1, <3>2 DEF Slip, Notices
      <3> DEFINE g == notices[1].game
      <3>6. page.open \subseteq {g}
        BY <2>1, <3>1, <3>2, <3>4, <3>5 DEF Shows, Current
      <3>7. \A n \in Live : ~Entry(n)
        BY <3>5 DEF Overtakes, Entry, Live
      <3>8. session = "valid" => at = None \/ Doomed
        BY <2>1, <3>1, <3>2, <3>4, <3>5, <3>7 DEF Shows, Follows
      <3>9. Live' = Live \cup {Message("GAME_LIST", None)}
        BY <2>11, Clicks DEF ClickEffects, Sends
      <3>10. ASSUME NEW i \in DOMAIN notices, notices[i].age = "before"
             PROVE  \E j \in DOMAIN notices' : notices'[j].age = "before"
        <4>1. i \in 2..Len(notices)
          BY <3>4, <3>5, <3>10
        <4>2. i - 1 \in DOMAIN notices' /\ notices'[i - 1] = notices[(i - 1) + 1] /\ (i - 1) + 1 = i
          BY <3>2, <3>4, <4>1
        <4> QED
          BY <3>10, <4>2
      <3>11. Doomed => Doomed'
        BY <3>9, <3>10 DEF Doomed
      <3>12. NoFirstLoad'
        BY <2>2, <2>4, <2>11, <3>1, Clicks, NoneComes DEF ClickEffects
      <3>13. page' = BackInLobby(page, g)
        BY <3>1, <3>2
      <3> HIDE DEF g
      <3>14. g \in Games
        BY <3>5 DEF g
      <3> QED
        BY <2>1, <2>4, <3>1, <3>6, <3>7, <3>8, <3>9, <3>11, <3>12, <3>13, <3>14, ShowsBack
    <2>12. ASSUME NEW m \in BagToSet(inFlight), Learn(m) PROVE Shows'
      <3>1. LearnLogout(m) => Again
        BY <2>12, Learns DEF Learn, LearnEffects, LearnLogout, LoadAgain, Again
      <3> QED
        BY <1>2, <2>1, <2>12, <3>1, ShowsHeard
    <2>13. ~ \E m \in BagToSet(inFlight) : Lose(m)
      BY DEF Lose
    <2>14. CASE Expire
      <3>1. Live = {} /\ Live' = Live
        BY <2>14, ServerType DEF Expire, Live, BagToSet, EmptyBag, SetToBag, Keeps
      <3>2. session' = "gone" /\ at' = None /\ notices' = <<>> /\ page' = page
        BY <2>14 DEF Expire
      <3>3. FirstAnswer'
        BY <3>1 DEF FirstAnswer
      <3>4. Outside'
        BY <2>1, <3>2 DEF Shows, Outside
      <3>5. View'
        BY <2>1, <3>1, <3>2 DEF Shows, View
      <3>6. Current'
        BY <3>1, <3>2 DEF Current
      <3>7. Follows'
        BY <3>2 DEF Follows
      <3> QED
        BY <3>3, <3>4, <3>5, <3>6, <3>7 DEF Shows
    <2>15. CASE KickIdle
      <3>1. Live = {} /\ Live' = Live
        BY <2>15, ServerType DEF KickIdle, Live, BagToSet, EmptyBag, SetToBag, Keeps
      <3>2. /\ session' = session /\ at' = None /\ page' = page /\ at # None /\ notices = <<>>
            /\ notices' = <<[game |-> at, age |-> "now"]>>
        BY <2>15 DEF KickIdle
      <3>3. session = "valid"
        BY <3>2 DEF SessionType
      <3>4. page.registered
        BY <2>1, <3>1, <3>3 DEF Shows, Outside
      <3>5. page.open \subseteq {at}
        BY <2>1, <3>1, <3>2, <3>3, <3>4 DEF Shows, Follows
      <3>6. DOMAIN notices' = {1} /\ notices'[1].game = at /\ notices' # <<>>
        BY <3>2
      <3>7. FirstAnswer' /\ Outside'
        BY <3>1, <3>2, <3>4 DEF FirstAnswer, Outside
      <3>8. View'
        BY <2>1, <3>1, <3>2 DEF Shows, View
      <3>9. Current'
        BY <3>1, <3>2, <3>5, <3>6 DEF Current
      <3>10. Follows'
        BY <3>1, <3>2, <3>6 DEF Follows
      <3> QED
        BY <3>7, <3>8, <3>9, <3>10 DEF Shows
    <2>16. CASE (\E g \in Games : GameAppears(g) \/ GameVanishes(g)) \/ UNCHANGED vars
      <3>1. Live' = Live /\ UNCHANGED <<session, at, notices, page>>
        BY <2>16, ServerType DEF GameAppears, GameVanishes, vars, Keeps
      <3> QED
        BY <2>1, <3>1, ShowsKeeps
    <2>17. Reload => Again
      BY Clicks DEF ClickEffects, Reload, LoadAgain, Again
    <2> QED
      BY <1>2, <2>1, <2>5, <2>7, <2>8, <2>9, <2>10, <2>11, <2>12, <2>13, <2>14, <2>15, <2>16, <2>17,
         ShowsServed DEF Next
  <1> QED
    BY <1>1, <1>2

LEMMA InitShows == Init => Shows
  <1> SUFFICES ASSUME Init PROVE Shows
    OBVIOUS
  <1>1. LET f == Message("FIRST_LOAD", None) IN
        f \in Live /\ f.op = "FIRST_LOAD" /\ \A n \in Live : n = f /\ n.answer = "asked"
    BY InitMail, NewMessage DEF Ops
  <1>2. ~page.registered /\ page.open = {} /\ ~page.list
    BY LoadedFields DEF Init
  <1>3. notices = <<>>
    BY DEF Init
  <1> QED
    BY <1>1, <1>2, <1>3 DEF Shows, FirstAnswer, Outside, View, Current, Follows

LEMMA ViewInvariant == Spec => []ViewInv
  <1>1. Init => ViewInv
    BY InitType, InitLoads, InitPolling, InitShows DEF ViewInv
  <1>2. ViewInv /\ [Next]_vars => ViewInv'
    <2> SUFFICES ASSUME ViewInv, [Next]_vars PROVE ViewInv'
      OBVIOUS
    <2>1. SessionType'
      BY StepType DEF ViewInv
    <2>2. ASSUME slips' = {} PROVE Loading' /\ Polling' /\ Shows'
      <3>1. Again \/ slips = {}
        BY <2>2, AgainOrKept DEF ViewInv
      <3>2. Shows'
        BY <2>2, ShowsStep DEF ViewInv
      <3>3. CASE slips = {}
        <4>1. Loading /\ Polling /\ "hasty" \notin slips' /\ slips' \cap {"hasty", "stray"} = {}
          BY <2>2, <3>3 DEF ViewInv
        <4> QED
          BY <3>2, <4>1, LoadingStep, PollingStep DEF ViewInv
      <3>4. CASE Again
        <4>1. Loading'
          BY <3>4, LoadingAgain DEF ViewInv
        <4>2. Polling'
          <5>1. page.hash \in Games \cup {None}
            BY DEF ViewInv, SessionType, Pages
          <5>2. ~page'.registered /\ page'.polls = 0 /\ page'.open = {}
            BY <3>4, <5>1, LoadedFields DEF Again
          <5>3. \A n \in Live' : n.op = "FIRST_LOAD"
            BY <3>4, NewMessage DEF Again, Restarts, Ops
          <5> QED
            BY <5>2, <5>3 DEF Polling, Registering
        <4> QED
          BY <3>2, <4>1, <4>2
      <3> QED
        BY <3>1, <3>3, <3>4
    <2> QED
      BY <2>1, <2>2 DEF ViewInv
  <1> QED
    BY <1>1, <1>2, PTL DEF Spec

\* The list is shown exactly while the page is in no game, and a page in a game names
\* it in its address or is logging out, as long as nothing has gone wrong since the
\* page was loaded (OneView).
THEOREM ShowsListOrGame == Spec => []OneView
  <1>1. ViewInv => OneView
    BY DEF ViewInv, Shows, View, OneView, UnderWay, Live
  <1> QED
    BY <1>1, ViewInvariant, PTL

\* When nothing is under way and nothing has gone wrong since the page was loaded, the
\* page shows the game that the server has its user in (Agrees): whatever takes the
\* user into a game or out of it is under way until the page has heard of it.
THEOREM ShowsTheGame == Spec => []Agrees
  <1>1. ViewInv => Agrees
    <2> SUFFICES ASSUME ViewInv, Quiet, session = "valid", slips = {}
                 PROVE  page.registered /\ page.open = (IF at = None THEN {} ELSE {at})
      BY DEF Agrees
    <2>1. Shows /\ Live = {} /\ notices = <<>>
      BY DEF ViewInv, Quiet, Live, BagToSet, EmptyBag, SetToBag
    <2>2. page.registered
      BY <2>1 DEF Shows, Outside
    <2>3. ~Doomed
      BY <2>1 DEF Doomed
    <2>4. at # None => at \in page.open
      BY <2>1, <2>2, <2>3 DEF Shows, Follows
    <2>5. \A g \in page.open : g = at
      BY <2>1, <2>2 DEF Shows, Follows
    <2>6. page.open \subseteq Games /\ None \notin Games
      BY GamesAssumption DEF ViewInv, SessionType, Pages
    <2> QED
      BY <2>2, <2>4, <2>5, <2>6
  <1> QED
    BY <1>1, ViewInvariant, PTL
=============================================================================
