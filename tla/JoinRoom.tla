------------------------------- MODULE JoinRoom -------------------------------
(***************************************************************************)
(* Joining one room, by many connections at a time: WSHandler.Handle finds *)
(* or creates the room object in the hub, records the membership, adds the *)
(* client, replays the stored history and hands over to the read pump,     *)
(* while members persist and broadcast their messages.                     *)
(*                                                                         *)
(* Broadcasts are inline, as in every room below the threshold of its      *)
(* pool: the pool is the subject of Room, and so are typing frames, which  *)
(* nobody stores.  Nothing reads the stored membership (room_members).     *)
(* The database is external: a commit and a query are atomic and may fail. *)
(***************************************************************************)
EXTENDS Integers, Sequences, FiniteSets, Functions

CONSTANTS Clients,       \* the connections
          HistoryLimit,  \* WSHandler.messageHistoryLimit (50)
          SendCap,       \* capacity of a client's send channel (256)
          MaxMessages    \* bound: chat messages sent in all

ASSUME ClientsAssumption == IsFiniteSet(Clients)
ASSUME LimitsAssumption  == HistoryLimit \in Nat /\ SendCap \in Nat \ {0}
ASSUME BoundAssumption   == MaxMessages \in Nat

VARIABLES
  hub,       \* the object Hub.Rooms has for the room, 0 when it has none
  objects,   \* Room objects created so far, numbered from 1
  members,   \* members[o]: Room.clients of object o
  pc,        \* control state of each handler
  room,      \* room[c]: the object the handler of c works with, 0 before
  clock,     \* time of the last message: CreatedAt stamps are distinct
  message,   \* message[c]: the message c's read pump is working on
  todo,      \* todo[c]: whom the broadcast of c has still to serve
  db,        \* the committed messages of the room
  history,   \* history[c]: the answer of c's history query, newest first
  replayed,  \* replayed[c]: how many of them sendHistory has sent
  stream,    \* stream[c]: everything put into c's send channel, in order
  drained,   \* drained[c]: how many of those the write pump has taken out
  lost,      \* lost[c]: what was dropped because the channel was full
  skipped    \* history: skipped[c], what a broadcast that broke off left out

hubVars     == <<hub, objects, members, room>>
talkVars    == <<clock, message, todo, skipped>>
historyVars == <<history, replayed>>
channelVars == <<stream, drained, lost>>
vars == <<hubVars, talkVars, historyVars, channelVars, pc, db>>

Objects == 1..Cardinality(Clients)
Msg     == [from : Clients, at : 1..MaxMessages]
NoMsg   == [at |-> 0]

Init ==
  /\ hub = 0
  /\ objects = 0
  /\ members = [o \in Objects |-> {}]
  /\ pc = [c \in Clients |-> "out"]
  /\ room = [c \in Clients |-> 0]
  /\ clock = 0
  /\ message = [c \in Clients |-> NoMsg]
  /\ db = {}
  /\ history = [c \in Clients |-> <<>>]
  /\ replayed = [c \in Clients |-> 0]
  /\ stream = [c \in Clients |-> <<>>]
  /\ drained = [c \in Clients |-> 0]
  /\ lost = [c \in Clients |-> {}]
  /\ todo = [c \in Clients |-> {}]
  /\ skipped = [c \in Clients |-> {}]

Goto(c, label) == pc' = [pc EXCEPT ![c] = label]

\* Client.SendRaw.
Full(t) == Len(stream[t]) - drained[t] >= SendCap
SendRaw(t, m) ==
  /\ stream' = [stream EXCEPT ![t] = IF Full(t) THEN @ ELSE Append(@, m)]
  /\ lost' = [lost EXCEPT ![t] = IF Full(t) THEN @ \cup {m} ELSE @]

-------------------------------------------------------------------------------
(* WSHandler.Handle.                                                       *)

\* The room is not in the database, or the upgrade fails.
Refuse(c) ==
  /\ pc[c] = "out"
  /\ Goto(c, "gone")
  /\ UNCHANGED <<hubVars, talkVars, historyVars, channelVars, db>>

\* Hub.GetRoom.
GetRoom(c) ==
  /\ pc[c] = "out"
  /\ room' = [room EXCEPT ![c] = hub]
  /\ Goto(c, IF hub = 0 THEN "create" ELSE "enlist")
  /\ UNCHANGED <<hub, objects, members, talkVars, historyVars, channelVars, db>>

\* Hub.CreateRoom: a new object under the room's id, whatever was there.
CreateRoom(c) ==
  /\ pc[c] = "create"
  /\ objects' = objects + 1
  /\ hub' = objects'
  /\ room' = [room EXCEPT ![c] = objects']
  /\ Goto(c, "enlist")
  /\ UNCHANGED <<members, talkVars, historyVars, channelVars, db>>

\* Room.Add, after ChatService.AddRoomMember, whose failure is only logged.
Add(c) ==
  /\ pc[c] = "enlist"
  /\ members' = [members EXCEPT ![room[c]] = @ \cup {c}]
  /\ Goto(c, "query")
  /\ UNCHANGED <<hub, objects, room, talkVars, historyVars, channelVars, db>>

\* MessageRepository.GetByRoom answers with the newest HistoryLimit messages, in
\* descending order.
\* Mutant: one message more.
NewestAndOneMore(S) == {m \in S : Cardinality({n \in S : n.at > m.at}) <= HistoryLimit}
Newest(S) == {m \in S : Cardinality({n \in S : n.at > m.at}) < HistoryLimit}
Descending(S) ==
  {s \in [1..Cardinality(S) -> S] :
     \A i, j \in 1..Cardinality(S) : i < j => s[i].at > s[j].at}

\* sendHistory, the query; an error ends the replay before it starts.
FetchHistory(c) ==
  /\ pc[c] = "query"
  /\ \/ /\ \E s \in Descending(Newest(db)) : history' = [history EXCEPT ![c] = s]
        /\ Goto(c, "replay")
     \/ Goto(c, "reading") /\ UNCHANGED history
  /\ UNCHANGED <<hubVars, talkVars, replayed, channelVars, db>>

\* sendHistory, one iteration of the loop from the last to the first.  Mutant:
\* from the first to the last.
NewestFirst(c) == history[c][replayed[c] + 1]
NextOfHistory(c) == history[c][Len(history[c]) - replayed[c]]

Replay(c) ==
  /\ pc[c] = "replay"
  /\ replayed[c] < Len(history[c])
  /\ SendRaw(c, NextOfHistory(c))
  /\ replayed' = [replayed EXCEPT ![c] = @ + 1]
  /\ UNCHANGED <<hubVars, talkVars, history, drained, pc, db>>

\* Client.Run.
Run(c) ==
  /\ pc[c] = "replay"
  /\ replayed[c] = Len(history[c])
  /\ Goto(c, "reading")
  /\ UNCHANGED <<hubVars, talkVars, historyVars, channelVars, db>>

-------------------------------------------------------------------------------
(* Client.readPump and writePump.                                          *)

\* A chat frame is read; the insert it leads to is stamped with the time.
ReadFrame(c) ==
  /\ pc[c] = "reading"
  /\ clock < MaxMessages
  /\ clock' = clock + 1
  /\ message' = [message EXCEPT ![c] = [from |-> c, at |-> clock']]
  /\ Goto(c, "persist")
  /\ UNCHANGED <<hubVars, todo, skipped, historyVars, channelVars, db>>

\* PersistMessage; a failure is logged and the message broadcast all the same.
Persist(c) ==
  /\ pc[c] = "persist"
  /\ db' \in {db, db \cup {message[c]}}
  /\ Goto(c, "broadcast")
  /\ UNCHANGED <<hubVars, talkVars, historyVars, channelVars>>

\* Room.Broadcast on the sender's object takes a snapshot of the members.  Mutants:
\* with the sender; only those who have their history.
WithSender(c) == members[room[c]]
Ready(c) == {t \in members[room[c]] \ {c} : pc[t] \notin {"query", "replay"}}
Audience(c) == members[room[c]] \ {c}

Broadcast(c) ==
  /\ pc[c] = "broadcast"
  /\ todo' = [todo EXCEPT ![c] = Audience(c)]
  /\ Goto(c, "sending")
  /\ UNCHANGED <<hubVars, clock, message, skipped, historyVars, channelVars, db>>

\* One turn of its loop, in an order that nobody chooses.
Send(c, t) ==
  /\ pc[c] = "sending"
  /\ t \in todo[c] /\ pc[t] # "gone"
  /\ SendRaw(t, message[c])
  /\ todo' = [todo EXCEPT ![c] = @ \ {t}]
  /\ UNCHANGED <<hubVars, clock, message, skipped, historyVars, drained, pc, db>>

BroadcastDone(c) ==
  /\ pc[c] = "sending"
  /\ todo[c] = {}
  /\ message' = [message EXCEPT ![c] = NoMsg]
  /\ Goto(c, "reading")
  /\ UNCHANGED <<hubVars, clock, todo, skipped, historyVars, channelVars, db>>

\* Room.Remove, and the end of the handler: its history and its channel go with it.
Remove(c) ==
  /\ members' = [members EXCEPT ![room[c]] = @ \ {c}]
  /\ Goto(c, "gone")
  /\ history' = [history EXCEPT ![c] = <<>>]
  /\ replayed' = [replayed EXCEPT ![c] = 0]
  /\ stream' = [stream EXCEPT ![c] = <<>>]
  /\ drained' = [drained EXCEPT ![c] = 0]
  /\ lost' = [lost EXCEPT ![c] = {}]
  /\ UNCHANGED <<hub, objects, room, clock, db>>

\* The next one has left since the snapshot, and its channel is closed: the panic ends
\* the handler of the sender, the deferred Remove runs, and the rest is left out.
Panic(c) ==
  /\ pc[c] = "sending"
  /\ \E t \in todo[c] : pc[t] = "gone"
  /\ skipped' = [t \in Clients |->
                   IF t = c THEN {}
                   ELSE IF t \in todo[c] /\ pc[t] # "gone" THEN skipped[t] \cup {message[c]}
                   ELSE skipped[t]]
  /\ todo' = [todo EXCEPT ![c] = {}]
  /\ message' = [message EXCEPT ![c] = NoMsg]
  /\ Remove(c)

\* The write pump, which Run has started.
Drain(c) ==
  /\ pc[c] \in {"reading", "persist", "broadcast", "sending"}
  /\ drained[c] < Len(stream[c])
  /\ drained' = [drained EXCEPT ![c] = @ + 1]
  /\ UNCHANGED <<hubVars, talkVars, historyVars, stream, lost, pc, db>>

\* The read pump returns.  The room stays in the hub.
Leave(c) ==
  /\ pc[c] = "reading"
  /\ Remove(c)
  /\ skipped' = [skipped EXCEPT ![c] = {}]
  /\ UNCHANGED <<message, todo>>

Join(c) == \/ Refuse(c) \/ GetRoom(c) \/ CreateRoom(c) \/ Add(c)
           \/ FetchHistory(c) \/ Replay(c) \/ Run(c)
Chat(c) == \/ ReadFrame(c) \/ Persist(c) \/ Broadcast(c) \/ BroadcastDone(c) \/ Panic(c)
           \/ \E t \in todo[c] : Send(c, t)
           \/ Drain(c) \/ Leave(c)

Terminated == (\A c \in Clients : pc[c] = "gone") /\ UNCHANGED vars

Next == (\E c \in Clients : Join(c) \/ Chat(c)) \/ Terminated

Spec == Init /\ [][Next]_vars

-------------------------------------------------------------------------------
(* Properties.                                                             *)

\* Type invariant (hub.go:12-15, ws_handler.go:88-93).
TypeOK ==
  /\ hub \in 0..objects
  /\ objects \in 0..Cardinality(Clients)
  /\ members \in [Objects -> SUBSET Clients]
  /\ pc \in [Clients -> {"out", "create", "enlist", "query", "replay", "reading",
                         "persist", "broadcast", "sending", "gone"}]
  /\ room \in [Clients -> 0..objects]
  /\ clock \in 0..MaxMessages
  /\ message \in [Clients -> Msg \cup {NoMsg}]
  /\ db \subseteq Msg
  /\ history \in [Clients -> Seq(Msg)] /\ stream \in [Clients -> Seq(Msg)]
  /\ replayed \in [Clients -> Nat] /\ drained \in [Clients -> Nat]
  /\ lost \in [Clients -> SUBSET Msg] /\ skipped \in [Clients -> SUBSET Msg]
  /\ todo \in [Clients -> SUBSET Clients]
  /\ \A c \in Clients : /\ Len(history[c]) <= HistoryLimit
                        /\ replayed[c] <= Len(history[c])
                        /\ drained[c] <= Len(stream[c])

Inside(c) == pc[c] \in {"replay", "reading", "persist", "broadcast", "sending"}

\* The broadcast of m has still to begin, or to come to c.
Coming(c, m) == message[m.from] = m /\ (pc[m.from] # "sending" \/ c \in todo[m.from])

\* A client that got its history misses nothing but what a broadcast leaves out that a
\* departure breaks off (room.go:71): because it is added before the query
\* (ws_handler.go:88-91), and every message is committed before it is broadcast
\* (client.go:84-107), a stored message of somebody in the same room object is in the
\* history, older than a full history, in the client's channel, dropped from it on the
\* record, or still to come to it.
NoGap ==
  \A c \in Clients : Inside(c) /\ history[c] # <<>> =>
    \A m \in db :
      \/ m.from = c \/ room[m.from] # room[c]
      \/ m \in Range(history[c])
      \/ Len(history[c]) = HistoryLimit /\ \A h \in Range(history[c]) : h.at > m.at
      \/ m \in Range(stream[c]) \cup lost[c] \cup skipped[c]
      \/ Coming(c, m)

\* "Send messages in chronological order (oldest first)" (ws_handler.go:103): the
\* stored messages enter the channel in that order, whatever arrives in between.
HistoryOldestFirst ==
  \A c \in Clients :
    LET old == {i \in DOMAIN stream[c] : stream[c][i] \in Range(history[c])}
        First(m) == CHOOSE i \in old : /\ stream[c][i] = m
                                       /\ \A j \in old : stream[c][j] = m => i <= j
        sent == {history[c][i] : i \in (Len(history[c]) - replayed[c] + 1)..Len(history[c])}
        once == {m \in sent : Cardinality({i \in old : stream[c][i] = m}) = 1} \ lost[c]
    IN \A m, n \in once : m.at < n.at => First(m) < First(n)

\* Being added before the query can bring a message twice, once as history and
\* once live, and never more often; a connection gets its own messages in neither
\* way (room.go:66, ws_handler.go:88-91).
TwiceOnlyAsHistory ==
  \A c \in Clients : \A m \in Range(stream[c]) :
    LET times == Cardinality({i \in DOMAIN stream[c] : stream[c][i] = m}) IN
      m.from # c /\ times <= IF m \in Range(history[c]) THEN 2 ELSE 1

\* "Hub ... Manages all rooms, thread-safe", "GetOrCreateRoom(roomID)"
\* (docs/architecture.md:52, :27): clients in the same room are in the same object.
OneRoomPerID ==
  \A c, d \in Clients : Inside(c) /\ Inside(d) => room[c] = room[d]
===============================================================================
