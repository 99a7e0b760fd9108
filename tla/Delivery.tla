------------------------------- MODULE Delivery -------------------------------
(***************************************************************************)
(* What a chat room promises, with nothing of how it keeps the promise:    *)
(* best-effort, at-most-once delivery to the clients that were members     *)
(* when the message was broadcast.  A message may be lost on its way to a  *)
(* member only by being dropped on the record (the server logs every drop  *)
(* at warning level); no broadcast that was dropped arrives later, none    *)
(* arrives twice, at its own sender or at a client that has left.          *)
(* Besides, a client may be told something that concerns only itself: the  *)
(* answer to a message that was too long, and what others sent before it   *)
(* joined, or while it did.  None of these comes twice either, but a       *)
(* message may come both as a broadcast and as one of those.               *)
(*                                                                         *)
(* Room implements this module: see Room!Promise.                          *)
(***************************************************************************)
EXTENDS Integers, Sequences

CONSTANTS Clients,   \* the connections
          Msg,       \* the broadcast messages, records with a field "from"
          Answer,    \* the answers to their field "from", none of them in Msg
          Old        \* the stored messages, none of them in Msg or Answer

VARIABLES members,   \* the connections in the room
          owed,      \* owed[c]: the messages c was in the audience of
          lost,      \* lost[c]: the messages dropped on their way to c
          delivered  \* delivered[c]: what was written to c, in order

vars == <<members, owed, lost, delivered>>

Delivered(c) == {delivered[c][i] : i \in DOMAIN delivered[c]}

Init == /\ members = {}
        /\ owed = [c \in Clients |-> {}]
        /\ lost = [c \in Clients |-> {}]
        /\ delivered = [c \in Clients |-> <<>>]

\* A connection that never was in the room joins; nothing is owed to it yet.
Join(c) == /\ c \notin members
           /\ owed[c] = {}
           /\ delivered[c] = <<>>
           /\ members' = members \cup {c}
           /\ UNCHANGED <<owed, lost, delivered>>

Leave(c) == /\ c \in members
            /\ members' = members \ {c}
            /\ UNCHANGED <<owed, lost, delivered>>

\* One atomic look at the membership decides who is owed a new message.
Publish(m) == /\ m.from \in members
              /\ \A c \in Clients : m \notin owed[c]
              /\ owed' = [c \in Clients |->
                             IF c \in members \ {m.from} THEN owed[c] \cup {m}
                                                         ELSE owed[c]]
              /\ UNCHANGED <<members, lost, delivered>>

\* Message m is written to a member that is owed it and has not had it.
Deliver(c, m) == /\ c \in members
                 /\ m \in owed[c] \ (lost[c] \cup Delivered(c))
                 /\ delivered' = [delivered EXCEPT ![c] = Append(@, m)]
                 /\ UNCHANGED <<members, owed, lost>>

\* Answer a is written to the member it is for.
Tell(c, a) == /\ c \in members
              /\ a.from = c
              /\ a \notin Delivered(c)
              /\ delivered' = [delivered EXCEPT ![c] = Append(@, a)]
              /\ UNCHANGED <<members, owed, lost>>

\* Member c is reminded of h, which somebody else sent.
Remind(c, h) == /\ c \in members
                /\ h.from # c
                /\ h \notin Delivered(c)
                /\ delivered' = [delivered EXCEPT ![c] = Append(@, h)]
                /\ UNCHANGED <<members, owed, lost>>

\* Message m is dropped on its way to the connections C.
Drop(C, m) == /\ \A c \in C : m \in owed[c] \ (lost[c] \cup Delivered(c))
              /\ lost' = [c \in Clients |->
                             IF c \in C THEN lost[c] \cup {m} ELSE lost[c]]
              /\ UNCHANGED <<members, owed, delivered>>

Next == \/ \E c \in Clients : \/ Join(c) \/ Leave(c)
                              \/ \E a \in Answer : Tell(c, a)
                              \/ \E h \in Old : Remind(c, h)
        \/ \E m \in Msg : \/ Publish(m)
                          \/ \E c \in Clients : Deliver(c, m)
                          \/ \E C \in (SUBSET Clients) \ {{}} : Drop(C, m)

Spec == Init /\ [][Next]_vars
===============================================================================
