------------------------------ MODULE Delivery ------------------------------
(***************************************************************************)
(* What the message queue of a user and the long polls of its page promise *)
(* together: the events of a user reach its page in the order they were    *)
(* queued, each at most once, and none is left out as long as nothing has  *)
(* gone wrong.  LongPoll implements it.                                    *)
(***************************************************************************)
EXTENDS Naturals, Sequences, SequencesExt

VARIABLES
    channel,    \* events that are on their way, oldest first
    got,        \* events that the page has handled
    lossy       \* something has gone wrong: events may get lost from now on

vars == <<channel, got, lossy>>

Init == channel = <<>> /\ got = <<>> /\ lossy = FALSE

\* The sequence t is what is left of s when some of its events get lost: every
\* event of t has a place in s, in the same order.
Thinned(s, t) ==
    \E place \in [1..Len(t) -> 1..Len(s)] :
        /\ \A i, j \in 1..Len(t) : i < j => place[i] < place[j]
        /\ \A i \in 1..Len(t) : t[i] = s[place[i]]

Send ==
    /\ Len(channel') = Len(channel) + 1 /\ IsPrefix(channel, channel')
    /\ UNCHANGED got

\* The page handles the first k events that are on their way (or none, and some
\* get lost).
Deliver ==
    \E k \in 0..Len(channel) :
        LET rest == SubSeq(channel, k + 1, Len(channel))
        IN  /\ got' = got \o SubSeq(channel, 1, k)
            /\ IF lossy' THEN Thinned(rest, channel') ELSE channel' = rest

Next == (lossy => lossy') /\ (Send \/ Deliver)

Spec == Init /\ [][Next]_vars
=============================================================================
