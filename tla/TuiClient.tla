------------------------------- MODULE TuiClient -------------------------------
(***************************************************************************)
(* The terminal client: Model.Update handles one message at a time; the    *)
(* commands it returns run concurrently, and what they bring back is       *)
(* handled in any order.  A command works on the copy of the model it was  *)
(* made from, so it remembers the connection of that moment.               *)
(*                                                                         *)
(* tasks is the bag of what is under way, each with what it remembers:     *)
(*   "fetch", "create", "send" conn, "connect" room conn, "listen" conn,   *)
(*   "timer" room (the backoff, until its reconnectMsg is handled)         *)
(* and the messages waiting for Update:                                    *)
(*   "rooms" list, "created" room, "connected" room conn, "incoming", "err"*)
(*                                                                         *)
(* A room is its place in the order of names.  Text, layout, the lengths   *)
(* of delays and typingUsers are left out; quitting needs no step.         *)
(***************************************************************************)
EXTENDS Integers, Sequences, FiniteSets, SequencesExt

CONSTANTS MaxRooms,     \* bound: rooms there can be
          ListLimit,    \* the server's room_list_limit (100)
          MaxStarts,    \* bound: ticks and keys that start a command
          MaxFaults,    \* bound: failures of the network or the server
          MaxIncoming   \* bound: messages arriving from the server

ASSUME RoomsAssumption  == MaxRooms \in Nat \ {0} /\ ListLimit \in Nat \ {0}
ASSUME BoundsAssumption == {MaxStarts, MaxFaults, MaxIncoming} \subseteq Nat

VARIABLES
  rooms,        \* Model.rooms, sorted by name
  roomIndex,    \* Model.roomIndex, from 0
  focus,        \* Model.focus
  conn,         \* Model.conn, 0 for nil
  connectedTo,  \* Model.connectedTo, 0 for ""
  state,        \* Model.state
  program,      \* "running", or "crashed" by a panic in Update
  tasks,        \* commands and their messages under way
  conns,        \* every connection dialled: "open", "closed" here, or "lost"
  server,       \* the rooms in the server's database, oldest first
  starts, faults, incoming  \* counted against the bounds

model  == <<rooms, roomIndex, focus, conn, connectedTo, state>>
counts == <<starts, faults, incoming>>
vars   == <<model, program, tasks, conns, server, counts>>

Rooms == 1..MaxRooms

Fetch            == [do |-> "fetch"]
Create           == [do |-> "create"]
Send(c)          == [do |-> "send", conn |-> c]
Connect(r, c)    == [do |-> "connect", room |-> r, conn |-> c]
Listen(c)        == [do |-> "listen", conn |-> c]
Timer(r)         == [do |-> "timer", room |-> r]
RoomsMsg(S)      == [do |-> "rooms", list |-> S]
CreatedMsg(r)    == [do |-> "created", room |-> r]
ConnectedMsg(r, c) == [do |-> "connected", room |-> r, conn |-> c]
IncomingMsg      == [do |-> "incoming"]
ErrMsg           == [do |-> "err"]

Running == program = "running"
Pending(kind) == {t \in DOMAIN tasks : t.do = kind}
With(B, t)    == B (+) SetToBag({t})
Without(B, t) == B (-) SetToBag({t})
Replace(t, u) == tasks' = With(Without(tasks, t), u)
Finish(t)     == tasks' = Without(tasks, t)
Start         == Running /\ starts < MaxStarts /\ starts' = starts + 1
Fault         == faults < MaxFaults /\ faults' = faults + 1

\* NewModel and Init: the room list is being fetched.
Init ==
  /\ rooms = <<>> /\ roomIndex = 0 /\ focus = "input"
  /\ conn = 0 /\ connectedTo = 0 /\ state = "disconnected"
  /\ program = "running"
  /\ tasks = SetToBag({Fetch})
  /\ conns = <<>>
  /\ server \in {<<>>, <<1>>, <<MaxRooms>>}
  /\ starts = 0 /\ faults = 0 /\ incoming = 0

-------------------------------------------------------------------------------
(* Model.Update: the messages of commands.                                 *)

\* tickMsg.
Tick ==
  /\ Start
  /\ tasks' = With(tasks, Fetch)
  /\ UNCHANGED <<model, program, conns, server, faults, incoming>>

\* sort.Slice by name: of a list of rooms, and of a sorted one with a room more.
Sorted(s) == \A i, j \in DOMAIN s : i < j => s[i] <= s[j]
Listing(S) == {s \in [1..Cardinality(S) -> S] : IsInjective(s) /\ Sorted(s)}
ListingWith(s, r) == {u \in {InsertAt(s, i, r) : i \in 1..(Len(s) + 1)} : Sorted(u)}

\* The first index of room r in list s, from 0, or i when it is not there.
Indexes(s, r, i) ==
  IF r \in ToSet(s) THEN {k \in 0..(Len(s) - 1) : s[k + 1] = r /\ \A j \in 1..k : s[j] # r}
  ELSE {i}

\* roomsMsg: keep the selected room selected if it is still listed, and connect
\* on the first load.
UpdateRooms(t) ==
  /\ Running
  /\ t \in Pending("rooms")
  /\ rooms' \in Listing(t.list)
  /\ roomIndex' \in IF roomIndex < Len(rooms)
                    THEN Indexes(rooms', rooms[roomIndex + 1], roomIndex)
                    ELSE {roomIndex}
  /\ IF connectedTo = 0 /\ rooms' # <<>>
     THEN Replace(t, Connect(rooms'[1], conn))
     ELSE Finish(t)
  /\ UNCHANGED <<focus, conn, connectedTo, state, program, conns, server, counts>>

\* roomCreatedMsg.
UpdateCreated(t) ==
  /\ Running
  /\ t \in Pending("created")
  /\ rooms' \in ListingWith(rooms, t.room)
  /\ roomIndex' \in Indexes(rooms', t.room, roomIndex)
  /\ focus' = "rooms"
  /\ Replace(t, Connect(t.room, conn))
  /\ UNCHANGED <<conn, connectedTo, state, program, conns, server, counts>>

\* What connectedMsg goes on with.  Mutants: no listener; one that has the model
\* of before.
NotListening(t, c) == Finish(t)
ListeningBefore(t, c) == Replace(t, Listen(conn))
Listening(t, c) == Replace(t, Listen(c))

\* connectedMsg.
UpdateConnected(t) ==
  /\ Running
  /\ t \in Pending("connected")
  /\ conn' = t.conn
  /\ connectedTo' = t.room
  /\ state' = "connected"
  /\ Listening(t, t.conn)
  /\ UNCHANGED <<rooms, roomIndex, focus, program, conns, server, counts>>

\* incomingMsg and typingMsg: listen again, on the connection of now.
UpdateIncoming(t) ==
  /\ Running
  /\ t \in Pending("incoming")
  /\ Replace(t, Listen(conn))
  /\ UNCHANGED <<model, program, conns, server, counts>>

\* reconnectMsg.
UpdateReconnect(t) ==
  /\ Running
  /\ t \in Pending("timer")
  /\ Replace(t, Connect(t.room, conn))
  /\ UNCHANGED <<model, program, conns, server, counts>>

\* After a failure.  Mutant: only the first one starts the timer.
RetryOnce(t) == IF state = "connecting" THEN Finish(t) ELSE Replace(t, Timer(connectedTo))
Retry(t) == Replace(t, Timer(connectedTo))

\* errMsg, of whatever command: reconnect, or show it when never connected.
UpdateErr(t) ==
  /\ Running
  /\ t \in Pending("err")
  /\ IF connectedTo # 0
     THEN state' = "connecting" /\ Retry(t)
     ELSE Finish(t) /\ UNCHANGED state
  /\ UNCHANGED <<rooms, roomIndex, focus, conn, connectedTo, program, conns,
                 server, counts>>

-------------------------------------------------------------------------------
(* Model.Update: keys.                                                     *)

\* tab, arrows, n and esc.
Focus(f) ==
  /\ Running
  /\ <<focus, f>> \in {<<"rooms", "input">>, <<"input", "rooms">>,
                       <<"rooms", "create">>, <<"create", "rooms">>}
  /\ focus' = f
  /\ UNCHANGED <<rooms, roomIndex, conn, connectedTo, state, program, tasks,
                 conns, server, counts>>

\* up and down.
Select(i) ==
  /\ Running
  /\ focus = "rooms"
  /\ \/ i = roomIndex - 1 /\ roomIndex > 0
     \/ i = roomIndex + 1 /\ roomIndex < Len(rooms) - 1
  /\ roomIndex' = i
  /\ UNCHANGED <<rooms, focus, conn, connectedTo, state, program, tasks, conns,
                 server, counts>>

\* r.
Refresh ==
  /\ Start
  /\ focus = "rooms"
  /\ tasks' = With(tasks, Fetch)
  /\ UNCHANGED <<model, program, conns, server, faults, incoming>>

\* enter in the room list: an index past its end panics.
EnterRoom ==
  /\ Start
  /\ focus = "rooms"
  /\ rooms # <<>>
  /\ IF roomIndex >= Len(rooms)
     THEN program' = "crashed" /\ UNCHANGED <<focus, tasks>>
     ELSE /\ focus' = "input"
          /\ tasks' = With(tasks, Connect(rooms[roomIndex + 1], conn))
          /\ UNCHANGED program
  /\ UNCHANGED <<rooms, roomIndex, conn, connectedTo, state, conns, server,
                 faults, incoming>>

\* enter in the create form, with a name in it.
EnterCreate ==
  /\ Start
  /\ focus = "create"
  /\ tasks' = With(tasks, Create)
  /\ UNCHANGED <<model, program, conns, server, faults, incoming>>

\* enter in the input with text in it, or the typing event of another key.
EnterText ==
  /\ Start
  /\ focus = "input"
  /\ conn # 0
  /\ tasks' = With(tasks, Send(conn))
  /\ UNCHANGED <<model, program, conns, server, faults, incoming>>

-------------------------------------------------------------------------------
(* The commands.                                                           *)

List == LET n == Len(server) IN {server[i] : i \in {j \in 1..n : j > n - ListLimit}}

\* fetchRooms.
RunFetch(t) ==
  /\ t \in Pending("fetch")
  /\ \/ Replace(t, RoomsMsg(List)) /\ UNCHANGED faults
     \/ Replace(t, ErrMsg) /\ Fault
  /\ UNCHANGED <<model, program, conns, server, starts, incoming>>

NewRooms == Rooms \ ToSet(server)

\* createRoom; the room may be there although the answer is lost.
RunCreate(t) ==
  /\ t \in Pending("create")
  /\ \/ \E r \in NewRooms : /\ server' = Append(server, r)
                            /\ \/ Replace(t, CreatedMsg(r)) /\ UNCHANGED faults
                               \/ Replace(t, ErrMsg) /\ Fault
     \/ Replace(t, ErrMsg) /\ Fault /\ UNCHANGED server
  /\ UNCHANGED <<model, program, conns, starts, incoming>>

\* sendMessageCmd and sendTypingCmd: a write to a connection.
RunSend(t) ==
  /\ t \in Pending("send")
  /\ IF conns[t.conn] = "open" THEN Finish(t) ELSE Replace(t, ErrMsg)
  /\ UNCHANGED <<model, program, conns, server, counts>>

\* The tasks when connection c is closed from here: the close handshake ends the
\* reader that is waiting, without an error.
ReaderEnds(c) == IF c # 0 /\ conns[c] = "open" THEN Without(tasks, Listen(c)) ELSE tasks

\* connectToRoom: close the connection remembered, if any, and dial.  The dial may
\* fail, and a timeout of the close handshake leaves the reader with an error.
RunConnect(t) ==
  /\ t \in Pending("connect")
  /\ LET closed == IF t.conn # 0 /\ conns[t.conn] = "open"
                   THEN [conns EXCEPT ![t.conn] = "closed"] ELSE conns
     IN \E handshake, dialled \in BOOLEAN :
          /\ IF handshake /\ dialled THEN UNCHANGED faults ELSE Fault
          /\ conns' = IF dialled THEN Append(closed, "open") ELSE closed
          /\ tasks' = With(Without(IF handshake THEN ReaderEnds(t.conn) ELSE tasks, t),
                             IF dialled THEN ConnectedMsg(t.room, Len(conns'))
                             ELSE ErrMsg)
  /\ UNCHANGED <<model, program, server, starts, incoming>>

\* listenForMessages on a connection closed before, or lost: an error.
RunListen(t) ==
  /\ t \in Pending("listen")
  /\ conns[t.conn] # "open"
  /\ Replace(t, ErrMsg)
  /\ UNCHANGED <<model, program, conns, server, counts>>

\* listenForMessages: a message arrives.  A second reader of the connection may
\* get an error, the message not being read to its end.
Arrive(t) ==
  /\ t \in Pending("listen")
  /\ conns[t.conn] = "open"
  /\ incoming < MaxIncoming
  /\ incoming' = incoming + 1
  /\ \/ Replace(t, IncomingMsg)
     \/ tasks[t] > 1 /\ Replace(t, ErrMsg)
  /\ UNCHANGED <<model, program, conns, server, starts, faults>>

\* The network or the server breaks a connection.
Lose(c) ==
  /\ conns[c] = "open"
  /\ Fault
  /\ conns' = [conns EXCEPT ![c] = "lost"]
  /\ UNCHANGED <<model, program, tasks, server, starts, incoming>>

\* Another user creates a room.
Elsewhere(r) ==
  /\ r \in NewRooms
  /\ server' = Append(server, r)
  /\ UNCHANGED <<model, program, tasks, conns, counts>>

-------------------------------------------------------------------------------
Update(t) == \/ UpdateRooms(t) \/ UpdateCreated(t) \/ UpdateConnected(t)
             \/ UpdateIncoming(t) \/ UpdateReconnect(t) \/ UpdateErr(t)

Command(t) == RunFetch(t) \/ RunCreate(t) \/ RunSend(t) \/ RunConnect(t) \/ RunListen(t)

User == \/ \E f \in {"rooms", "input", "create"} : Focus(f)
        \/ \E i \in 0..MaxRooms : Select(i)
        \/ Refresh \/ EnterRoom \/ EnterCreate \/ EnterText

World == \/ \E c \in DOMAIN conns : Lose(c)
         \/ \E t \in DOMAIN tasks : Arrive(t)
         \/ \E r \in Rooms : Elsewhere(r)

Next == \/ \E t \in DOMAIN tasks : Update(t) \/ Command(t)
        \/ Tick \/ User \/ World

Spec == Init /\ [][Next]_vars

(***************************************************************************)
(* The runtime starts every command and hands every message to Update:     *)
(* each step uses up a task, so weak fairness of them together reaches     *)
(* them all.  None for the user, the network or the other users.           *)
(***************************************************************************)
Progress == \E t \in DOMAIN tasks : Update(t) \/ Command(t)
FairSpec == Spec /\ WF_vars(Progress)

-------------------------------------------------------------------------------
(* Properties.                                                             *)

Connections == 1..Len(conns)
Task == [do : {"fetch", "create", "incoming", "err"}]
        \cup [do : {"send", "listen"}, conn : Connections]
        \cup [do : {"connect"}, room : Rooms, conn : {0} \cup Connections]
        \cup [do : {"connected"}, room : Rooms, conn : Connections]
        \cup [do : {"timer", "created"}, room : Rooms]
        \cup [do : {"rooms"}, list : SUBSET Rooms]

\* Type invariant (model.go:42-61): in particular no command listens or writes on
\* a connection that is nil, and no timer reconnects to no room.
TypeOK ==
  /\ rooms \in Seq(Rooms)
  /\ roomIndex \in Nat
  /\ focus \in {"rooms", "input", "create"}
  /\ conn \in {0} \cup Connections
  /\ connectedTo \in {0} \cup Rooms
  /\ state \in {"disconnected", "connecting", "connected"}
  /\ program \in {"running", "crashed"}
  /\ IsABag(tasks) /\ DOMAIN tasks \subseteq Task
  /\ conns \in Seq({"open", "closed", "lost"})
  /\ server \in Seq(Rooms) /\ IsInjective(server)

\* The client is never deaf while it shows a connection: somebody listens on it,
\* or a message is under way that will make somebody listen on it or replace it
\* (update.go:68-105, commands.go:114-139).
NeverDeaf ==
  state = "connected" =>
    \/ Listen(conn) \in DOMAIN tasks
    \/ \E t \in DOMAIN tasks : t.do \in {"incoming", "connect", "connected", "err"}

\* "Reconnecting" never is the last word: while it is shown, a timer, a dial or
\* its result is under way (update.go:91-105).
KeepsTrying ==
  state = "connecting" =>
    \E t \in DOMAIN tasks : t.do \in {"timer", "connect", "connected", "err"}

\* When the user, the network and the server leave the client alone, it ends up
\* connected by an open connection, whatever reconnections and switches crossed
\* on the way, if it was connected at all (update.go:68-105, commands.go:92-139).
SettlesConnected ==
  <>[](\/ program = "crashed" \/ connectedTo = 0
       \/ state = "connected" /\ conns[conn] = "open")

\* "Enter: Join selected room" (docs/TUI-PRD.md:99): there is one to join.
SelectionInList == focus = "rooms" /\ rooms # <<>> => roomIndex < Len(rooms)
===============================================================================
