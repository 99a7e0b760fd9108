--------------------------- MODULE TuiClientProofs ---------------------------
(***************************************************************************)
(* The terminal client, for any number of rooms, commands, faults and      *)
(* messages: it is never deaf while it shows a connection, and never gives *)
(* up while it shows that it is reconnecting.                              *)
(***************************************************************************)
EXTENDS TuiClient, FiniteSetTheorems, TLAPS

-------------------------------------------------------------------------------
(* Lemmas about bags, lists and tasks.                                     *)

LEMMA BagWith ==
  ASSUME NEW B, IsABag(B), NEW x
  PROVE  IsABag(With(B, x)) /\ DOMAIN With(B, x) = DOMAIN B \cup {x}
  BY DEF IsABag, With, SetToBag, (+)

LEMMA BagWithout ==
  ASSUME NEW B, IsABag(B), NEW x
  PROVE  /\ IsABag(Without(B, x))
         /\ DOMAIN Without(B, x) \subseteq DOMAIN B
         /\ DOMAIN B \ {x} \subseteq DOMAIN Without(B, x)
  BY DEF IsABag, Without, SetToBag, (-)

LEMMA Replaced ==
  ASSUME IsABag(tasks), NEW t, NEW u, Replace(t, u)
  PROVE  /\ IsABag(tasks') /\ u \in DOMAIN tasks'
         /\ DOMAIN tasks' \subseteq DOMAIN tasks \cup {u}
         /\ DOMAIN tasks \ {t} \subseteq DOMAIN tasks'
<1>1. /\ IsABag(Without(tasks, t))
      /\ DOMAIN Without(tasks, t) \subseteq DOMAIN tasks
      /\ DOMAIN tasks \ {t} \subseteq DOMAIN Without(tasks, t)
  BY BagWithout
<1>2. /\ IsABag(With(Without(tasks, t), u))
      /\ DOMAIN With(Without(tasks, t), u) = DOMAIN Without(tasks, t) \cup {u}
  BY <1>1, BagWith
<1> QED
  BY <1>1, <1>2 DEF Replace

LEMMA Finished ==
  ASSUME IsABag(tasks), NEW t, Finish(t)
  PROVE  /\ IsABag(tasks')
         /\ DOMAIN tasks' \subseteq DOMAIN tasks
         /\ DOMAIN tasks \ {t} \subseteq DOMAIN tasks'
  BY BagWithout DEF Finish

LEMMA Added ==
  ASSUME IsABag(tasks), NEW u, tasks' = With(tasks, u)
  PROVE  IsABag(tasks') /\ DOMAIN tasks' = DOMAIN tasks \cup {u}
  BY BagWith

\* A list of rooms is one, sorted or with a room more.
LEMMA ListingType ==
  ASSUME NEW S \in SUBSET Rooms, NEW s \in Listing(S)
  PROVE  s \in Seq(Rooms) /\ (s # <<>> => s[1] \in Rooms)
<1>1. IsFiniteSet(S)
  <2>1. IsFiniteSet(Rooms)
    BY RoomsAssumption, FS_Interval DEF Rooms
  <2> QED
    BY <2>1, FS_Subset
<1>2. Cardinality(S) \in Nat
  BY <1>1, FS_CardinalityType
<1>3. s \in [1..Cardinality(S) -> Rooms]
  BY DEF Listing
<1>4. s \in Seq(Rooms)
  BY <1>2, <1>3
<1> QED
  BY <1>4

LEMMA ListingWithType ==
  ASSUME NEW s \in Seq(Rooms), NEW r \in Rooms, NEW u \in ListingWith(s, r)
  PROVE  u \in Seq(Rooms)
<1>1. PICK i \in 1..(Len(s) + 1) : u = InsertAt(s, i, r)
  BY DEF ListingWith
<1>2. SubSeq(s, 1, i - 1) \in Seq(Rooms) /\ SubSeq(s, i, Len(s)) \in Seq(Rooms)
  OBVIOUS
<1> QED
  BY <1>1, <1>2 DEF InsertAt

LEMMA IndexesType ==
  ASSUME NEW s, NEW r, NEW i \in Nat, NEW k \in Indexes(s, r, i)
  PROVE  k \in Nat
<1>1. CASE r \in ToSet(s)
  BY <1>1 DEF Indexes
<1>2. CASE r \notin ToSet(s)
  BY <1>2 DEF Indexes
<1> QED
  BY <1>1, <1>2

\* Task, over a set of connections.
TaskOf(C) == [do : {"fetch", "create", "incoming", "err"}]
             \cup [do : {"send", "listen"}, conn : C]
             \cup [do : {"connect"}, room : Rooms, conn : {0} \cup C]
             \cup [do : {"connected"}, room : Rooms, conn : C]
             \cup [do : {"timer", "created"}, room : Rooms]
             \cup [do : {"rooms"}, list : SUBSET Rooms]

LEMMA TaskParts ==
  ASSUME NEW C, NEW t \in TaskOf(C)
  PROVE  /\ t.do \in {"send", "listen", "connected"} => t.conn \in C
         /\ t.do = "connect" => t.conn \in {0} \cup C
         /\ t.do \in {"connect", "connected", "timer", "created"} => t.room \in Rooms
         /\ t.do = "rooms" => t.list \in SUBSET Rooms
  BY DEF TaskOf

LEMMA TaskMade ==
  ASSUME NEW C, NEW r \in Rooms, NEW c \in C, NEW d \in {0} \cup C, NEW S \in SUBSET Rooms
  PROVE  {Send(c), Listen(c), Connect(r, d), Timer(r), RoomsMsg(S), CreatedMsg(r),
          ConnectedMsg(r, c)} \subseteq TaskOf(C)
  BY DEF TaskOf, Send, Listen, Connect, Timer, RoomsMsg, CreatedMsg, ConnectedMsg

LEMMA PlainTasks == \A C : {Fetch, Create, IncomingMsg, ErrMsg} \subseteq TaskOf(C)
  BY DEF TaskOf, Fetch, Create, IncomingMsg, ErrMsg

LEMMA TaskGrows ==
  ASSUME NEW C, NEW D, C \subseteq D
  PROVE  TaskOf(C) \subseteq TaskOf(D)
  BY DEF TaskOf

LEMMA Kinds ==
  /\ Fetch.do = "fetch" /\ Create.do = "create" /\ IncomingMsg.do = "incoming" /\ ErrMsg.do = "err"
  /\ \A c : Send(c).do = "send" /\ Listen(c).do = "listen"
  /\ \A r : Timer(r).do = "timer" /\ CreatedMsg(r).do = "created" /\ RoomsMsg(r).do = "rooms"
  /\ \A r, c : Connect(r, c).do = "connect" /\ ConnectedMsg(r, c).do = "connected"
  BY DEF Fetch, Create, IncomingMsg, ErrMsg, Send, Listen, Timer, CreatedMsg, RoomsMsg,
         Connect, ConnectedMsg

-------------------------------------------------------------------------------
(* The type invariant.  Who has listened has a connection; who shows one, or that *)
(* it is looking for one, has had a room to connect to.                    *)

Listeners == {t \in DOMAIN tasks : t.do \in {"listen", "incoming"}}

TypeCorrect ==
  /\ TypeOK
  /\ Listeners # {} => conn # 0
  /\ state # "disconnected" => connectedTo # 0

\* What the tasks of a step have to be for it to keep the types.
TasksFit ==
  /\ IsABag(tasks) /\ DOMAIN tasks \subseteq TaskOf(Connections)
  /\ Listeners # {} => conn # 0

LEMMA TypeIsFit == TypeCorrect => TasksFit
  BY DEF TypeCorrect, TypeOK, TasksFit, Task, TaskOf

\* The steps that put one task in the place of another.
LEMMA ReplaceFits ==
  ASSUME TypeCorrect, NEW t, NEW u \in TaskOf(Connections)',
         Replace(t, u) \/ tasks' = With(tasks, u),
         Connections \subseteq Connections', conn' = conn \/ conn' # 0,
         u.do \in {"listen", "incoming"} => conn' # 0
  PROVE  TasksFit'
<1>1. IsABag(tasks) /\ DOMAIN tasks \subseteq TaskOf(Connections)
  BY TypeIsFit DEF TasksFit
<1>2. IsABag(tasks') /\ DOMAIN tasks' \subseteq DOMAIN tasks \cup {u}
  BY <1>1, Replaced, Added
<1>3. TaskOf(Connections) \subseteq TaskOf(Connections')
  BY TaskGrows
<1>4. Listeners' # {} => conn' # 0
  BY <1>2 DEF Listeners, TypeCorrect
<1> QED
  BY <1>1, <1>2, <1>3, <1>4 DEF TasksFit

LEMMA FinishFits ==
  ASSUME TypeCorrect, NEW t \in DOMAIN tasks, Finish(t), UNCHANGED <<conns, conn>>
  PROVE  TasksFit'
<1>1. IsABag(tasks) /\ DOMAIN tasks \subseteq TaskOf(Connections)
  BY TypeIsFit DEF TasksFit
<1>2. IsABag(tasks') /\ DOMAIN tasks' \subseteq DOMAIN tasks
  BY <1>1, Finished
<1>3. Connections' = Connections
  BY DEF Connections
<1>4. Listeners' # {} => conn' # 0
  BY <1>2 DEF Listeners, TypeCorrect
<1> QED
  BY <1>1, <1>2, <1>3, <1>4 DEF TasksFit

\* The rest of the model.
ModelFits ==
  /\ rooms \in Seq(Rooms) /\ roomIndex \in Nat
  /\ focus \in {"rooms", "input", "create"}
  /\ conn \in {0} \cup Connections /\ connectedTo \in {0} \cup Rooms
  /\ state \in {"disconnected", "connecting", "connected"}
  /\ program \in {"running", "crashed"}
  /\ conns \in Seq({"open", "closed", "lost"})
  /\ server \in Seq(Rooms) /\ IsInjective(server)
  /\ state # "disconnected" => connectedTo # 0

LEMMA TypeParts == TypeCorrect <=> TasksFit /\ ModelFits
  BY DEF TypeCorrect, TypeOK, TasksFit, ModelFits, Task, TaskOf

LEMMA TypePartsNext == TasksFit' /\ ModelFits' => TypeCorrect'
  BY DEF TypeCorrect, TypeOK, TasksFit, ModelFits, Task, TaskOf

LEMMA TypeInit == Init => TypeCorrect
<1> SUFFICES ASSUME Init PROVE TypeCorrect
  OBVIOUS
<1>1. IsABag(tasks) /\ DOMAIN tasks = {Fetch}
  BY DEF Init, IsABag, SetToBag
<1>2. TasksFit
  BY <1>1, PlainTasks, Kinds DEF TasksFit, Listeners
<1>3. server \in Seq(Rooms) /\ IsInjective(server)
  <2>1. 1 \in Rooms /\ MaxRooms \in Rooms
    BY RoomsAssumption DEF Rooms
  <2>2. server \in {<<>>, <<1>>, <<MaxRooms>>}
    BY DEF Init
  <2>3. server \in Seq(Rooms)
    <3>1. <<>> \in Seq(Rooms) /\ \A r \in Rooms : <<r>> \in Seq(Rooms)
      OBVIOUS
    <3>2. <<1>> \in Seq(Rooms) /\ <<MaxRooms>> \in Seq(Rooms)
      BY <2>1, <3>1
    <3> QED
      BY <2>2, <3>1, <3>2
  <2>4. \A i, j \in DOMAIN server : i = j
    BY <2>2
  <2> QED
    BY <2>3, <2>4 DEF IsInjective
<1>4. ModelFits
  BY <1>3 DEF Init, ModelFits
<1> QED
  BY <1>2, <1>4, TypeParts

LEMMA TypeUpdate ==
  ASSUME TypeCorrect, NEW t \in DOMAIN tasks, Update(t)
  PROVE  TypeCorrect'
<1> SUFFICES TasksFit' /\ ModelFits'
  BY TypePartsNext
<1>1. TasksFit /\ ModelFits /\ t \in TaskOf(Connections)
  BY TypeParts DEF TasksFit
<1>2. conns' = conns /\ Connections' = Connections
  BY DEF Update, UpdateRooms, UpdateCreated, UpdateConnected, UpdateIncoming,
         UpdateReconnect, UpdateErr, Connections
<1>3. conn \in {0} \cup Connections /\ roomIndex \in Nat
  BY <1>1 DEF ModelFits
<1>4. CASE UpdateRooms(t)
  <2>1. t.list \in SUBSET Rooms
    BY <1>1, <1>4, TaskParts DEF UpdateRooms, Pending
  <2>2. rooms' \in Seq(Rooms) /\ (rooms' # <<>> => rooms'[1] \in Rooms)
    BY <1>4, <2>1, ListingType DEF UpdateRooms
  <2>3. roomIndex' \in Nat
    BY <1>3, <1>4, IndexesType DEF UpdateRooms
  <2>4. ModelFits'
    BY <1>1, <1>2, <1>4, <2>2, <2>3 DEF ModelFits, UpdateRooms
  <2>5. TasksFit'
    <3>1. CASE connectedTo = 0 /\ rooms' # <<>>
      <4>1. Connect(rooms'[1], conn) \in TaskOf(Connections')
        BY <1>2, <1>3, <2>2, <3>1 DEF TaskOf, Connect
      <4> QED
        BY <1>2, <1>4, <3>1, <4>1, ReplaceFits, Kinds DEF UpdateRooms
    <3>2. CASE ~ (connectedTo = 0 /\ rooms' # <<>>)
      BY <1>4, <3>2, FinishFits DEF UpdateRooms
    <3> QED
      BY <3>1, <3>2
  <2> QED
    BY <2>4, <2>5
<1>5. CASE UpdateCreated(t)
  <2>1. t.room \in Rooms
    BY <1>1, <1>5, TaskParts DEF UpdateCreated, Pending
  <2>2. rooms' \in Seq(Rooms)
    BY <1>1, <1>5, <2>1, ListingWithType DEF UpdateCreated, ModelFits
  <2>3. roomIndex' \in Nat
    BY <1>3, <1>5, IndexesType DEF UpdateCreated
  <2>4. ModelFits'
    BY <1>1, <1>2, <1>5, <2>2, <2>3 DEF ModelFits, UpdateCreated
  <2>5. Connect(t.room, conn) \in TaskOf(Connections')
    BY <1>2, <1>3, <2>1 DEF TaskOf, Connect
  <2>6. TasksFit'
    BY <1>2, <1>5, <2>5, ReplaceFits, Kinds DEF UpdateCreated
  <2> QED
    BY <2>4, <2>6
<1>6. CASE UpdateConnected(t)
  <2>1. t.room \in Rooms /\ t.conn \in Connections
    BY <1>1, <1>6, TaskParts DEF UpdateConnected, Pending
  <2>2. t.room # 0 /\ t.conn # 0
    BY <2>1 DEF Rooms, Connections
  <2>3. ModelFits'
    BY <1>1, <1>2, <1>6, <2>1, <2>2 DEF ModelFits, UpdateConnected
  <2>4. Listen(t.conn) \in TaskOf(Connections')
    BY <1>2, <2>1 DEF TaskOf, Listen
  <2>5. TasksFit'
    BY <1>2, <1>6, <2>2, <2>4, ReplaceFits, Kinds DEF UpdateConnected, Listening
  <2> QED
    BY <2>3, <2>5
<1>7. CASE UpdateIncoming(t)
  <2>1. conn # 0
    BY <1>7 DEF UpdateIncoming, Pending, TypeCorrect, Listeners
  <2>2. Listen(conn) \in TaskOf(Connections')
    BY <1>2, <1>3, <2>1 DEF TaskOf, Listen
  <2>3. TasksFit'
    BY <1>2, <1>7, <2>1, <2>2, ReplaceFits, Kinds DEF UpdateIncoming, model
  <2>4. ModelFits'
    BY <1>1, <1>2, <1>7 DEF ModelFits, UpdateIncoming, model
  <2> QED
    BY <2>3, <2>4
<1>8. CASE UpdateReconnect(t)
  <2>1. t.room \in Rooms
    BY <1>1, <1>8, TaskParts DEF UpdateReconnect, Pending
  <2>2. Connect(t.room, conn) \in TaskOf(Connections')
    BY <1>2, <1>3, <2>1 DEF TaskOf, Connect
  <2>3. TasksFit'
    BY <1>2, <1>8, <2>2, ReplaceFits, Kinds DEF UpdateReconnect, model
  <2>4. ModelFits'
    BY <1>1, <1>2, <1>8 DEF ModelFits, UpdateReconnect, model
  <2> QED
    BY <2>3, <2>4
<1>9. CASE UpdateErr(t)
  <2>1. ModelFits'
    BY <1>1, <1>2, <1>9 DEF ModelFits, UpdateErr
  <2>2. CASE connectedTo # 0
    <3>1. Timer(connectedTo) \in TaskOf(Connections')
      BY <1>1, <1>2, <2>2 DEF TaskOf, Timer, ModelFits
    <3> QED
      BY <1>2, <1>9, <2>1, <2>2, <3>1, ReplaceFits, Kinds DEF UpdateErr, Retry
  <2>3. CASE connectedTo = 0
    BY <1>9, <2>1, <2>3, FinishFits DEF UpdateErr
  <2> QED
    BY <2>2, <2>3
<1> QED
  BY <1>4, <1>5, <1>6, <1>7, <1>8, <1>9 DEF Update

\* Keys and ticks.
LEMMA TypeUser ==
  ASSUME TypeCorrect, Tick \/ User
  PROVE  TypeCorrect'
<1> SUFFICES TasksFit' /\ ModelFits'
  BY TypePartsNext
<1>1. TasksFit /\ ModelFits
  BY TypeParts
<1>2. conns' = conns /\ Connections' = Connections /\ conn' = conn
  BY DEF Tick, User, Focus, Select, Refresh, EnterRoom, EnterCreate, EnterText, Connections,
         model
<1>3. conn \in {0} \cup Connections /\ roomIndex \in Nat
  BY <1>1 DEF ModelFits
<1>4. CASE Tick \/ Refresh \/ EnterCreate
  <2>1. tasks' = With(tasks, Fetch) \/ tasks' = With(tasks, Create)
    BY <1>4 DEF Tick, Refresh, EnterCreate
  <2>2. TasksFit'
    BY <1>2, <2>1, PlainTasks, ReplaceFits, Kinds
  <2>3. ModelFits'
    BY <1>1, <1>2, <1>4 DEF ModelFits, Tick, Refresh, EnterCreate, model
  <2> QED
    BY <2>2, <2>3
<1>5. ASSUME NEW f \in {"rooms", "input", "create"}, Focus(f) PROVE TasksFit' /\ ModelFits'
  <2>1. TasksFit'
    BY <1>1, <1>2, <1>5 DEF TasksFit, Focus, Listeners
  <2>2. ModelFits'
    BY <1>1, <1>2, <1>5 DEF ModelFits, Focus
  <2> QED
    BY <2>1, <2>2
<1>6. ASSUME NEW i \in 0..MaxRooms, Select(i) PROVE TasksFit' /\ ModelFits'
  <2>1. TasksFit'
    BY <1>1, <1>2, <1>6 DEF TasksFit, Select, Listeners
  <2>2. ModelFits'
    BY <1>1, <1>2, <1>6 DEF ModelFits, Select
  <2> QED
    BY <2>1, <2>2
<1>7. CASE EnterRoom
  <2>1. ModelFits'
    BY <1>1, <1>2, <1>7 DEF ModelFits, EnterRoom
  <2>2. CASE roomIndex >= Len(rooms)
    BY <1>1, <1>2, <1>7, <2>1, <2>2 DEF TasksFit, EnterRoom, Listeners
  <2>3. CASE ~ roomIndex >= Len(rooms)
    <3>1. rooms[roomIndex + 1] \in Rooms
      <4>1. rooms \in Seq(Rooms)
        BY <1>1 DEF ModelFits
      <4> QED
        BY <1>3, <2>3, <4>1
    <3>2. Connect(rooms[roomIndex + 1], conn) \in TaskOf(Connections')
      BY <1>2, <1>3, <3>1 DEF TaskOf, Connect
    <3>3. tasks' = With(tasks, Connect(rooms[roomIndex + 1], conn))
      BY <1>7, <2>3 DEF EnterRoom
    <3> QED
      BY <1>2, <2>1, <3>2, <3>3, ReplaceFits, Kinds
  <2> QED
    BY <2>2, <2>3
<1>8. CASE EnterText
  <2>1. Send(conn) \in TaskOf(Connections')
    BY <1>2, <1>3, <1>8 DEF TaskOf, Send, EnterText
  <2>2. TasksFit'
    BY <1>2, <1>8, <2>1, ReplaceFits, Kinds DEF EnterText
  <2>3. ModelFits'
    BY <1>1, <1>2, <1>8 DEF ModelFits, EnterText, model
  <2> QED
    BY <2>2, <2>3
<1> QED
  BY <1>4, <1>5, <1>6, <1>7, <1>8 DEF User

\* A room more in the database.
LEMMA ServerGrows ==
  ASSUME server \in Seq(Rooms), IsInjective(server), NEW r \in NewRooms,
         server' = Append(server, r)
  PROVE  server' \in Seq(Rooms) /\ IsInjective(server')
<1>1. r \in Rooms /\ r \notin ToSet(server)
  BY DEF NewRooms
<1>2. /\ DOMAIN server = 1..Len(server) /\ Len(server) \in Nat
      /\ DOMAIN server' = 1..(Len(server) + 1)
      /\ \A i \in 1..Len(server) : server'[i] = server[i]
      /\ server'[Len(server) + 1] = r
  OBVIOUS
<1>3. 1..(Len(server) + 1) = 1..Len(server) \cup {Len(server) + 1}
  BY <1>2
<1>4. \A i \in 1..Len(server) : server[i] # r
  BY <1>1, <1>2 DEF ToSet
<1>5. IsInjective(server')
  BY <1>2, <1>3, <1>4 DEF IsInjective
<1> QED
  BY <1>1, <1>5

\* The commands.
LEMMA TypeCommand ==
  ASSUME TypeCorrect, NEW t \in DOMAIN tasks, Command(t)
  PROVE  TypeCorrect'
<1> SUFFICES TasksFit' /\ ModelFits'
  BY TypePartsNext
<1>1. TasksFit /\ ModelFits /\ t \in TaskOf(Connections)
  BY TypeParts DEF TasksFit
<1>2. CASE RunFetch(t)
  <2>1. UNCHANGED <<model, program, conns, server>> /\ Connections' = Connections
    BY <1>2 DEF RunFetch, Connections
  <2>2. ModelFits'
    BY <1>1, <2>1 DEF ModelFits, model
  <2>3. List \in SUBSET Rooms
    <3>1. \A i \in 1..Len(server) : server[i] \in Rooms
      BY <1>1 DEF ModelFits
    <3> QED
      BY <3>1 DEF List
  <2>4. RoomsMsg(List) \in TaskOf(Connections')
    BY <2>3 DEF TaskOf, RoomsMsg
  <2>5. conn' = conn /\ ErrMsg \in TaskOf(Connections')
    BY <2>1, PlainTasks DEF model
  <2>6. Replace(t, RoomsMsg(List)) \/ Replace(t, ErrMsg)
    BY <1>2 DEF RunFetch
  <2> QED
    BY <2>1, <2>2, <2>4, <2>5, <2>6, ReplaceFits, Kinds
<1>3. CASE RunCreate(t)
  <2>1. UNCHANGED <<model, program, conns>> /\ Connections' = Connections /\ conn' = conn
    BY <1>3 DEF RunCreate, Connections, model
  <2>2. server' \in Seq(Rooms) /\ IsInjective(server')
    <3>1. CASE UNCHANGED server
      BY <1>1, <3>1 DEF ModelFits
    <3>2. ASSUME NEW r \in NewRooms, server' = Append(server, r)
          PROVE  server' \in Seq(Rooms) /\ IsInjective(server')
      BY <1>1, <3>2, ServerGrows DEF ModelFits
    <3> QED
      BY <1>3, <3>1, <3>2 DEF RunCreate
  <2>3. ModelFits'
    BY <1>1, <2>1, <2>2 DEF ModelFits, model
  <2>4. ErrMsg \in TaskOf(Connections') /\ \A r \in NewRooms : CreatedMsg(r) \in TaskOf(Connections')
    BY PlainTasks DEF TaskOf, CreatedMsg, NewRooms
  <2>5. Replace(t, ErrMsg) \/ \E r \in NewRooms : Replace(t, CreatedMsg(r))
    BY <1>3 DEF RunCreate
  <2> QED
    BY <2>1, <2>3, <2>4, <2>5, ReplaceFits, Kinds
<1>4. CASE RunSend(t) \/ RunListen(t)
  <2>1. UNCHANGED <<model, program, conns, server>> /\ Connections' = Connections /\ conn' = conn
    BY <1>4 DEF RunSend, RunListen, Connections, model
  <2>2. ModelFits'
    BY <1>1, <2>1 DEF ModelFits, model
  <2>3. ErrMsg \in TaskOf(Connections')
    BY PlainTasks
  <2>4. Finish(t) \/ Replace(t, ErrMsg)
    BY <1>4 DEF RunSend, RunListen
  <2> QED
    BY <2>1, <2>2, <2>3, <2>4, ReplaceFits, FinishFits, Kinds
<1>5. CASE RunConnect(t)
  <2>1. PICK handshake, dialled \in BOOLEAN :
          LET closed == IF t.conn # 0 /\ conns[t.conn] = "open"
                        THEN [conns EXCEPT ![t.conn] = "closed"] ELSE conns
          IN /\ conns' = IF dialled THEN Append(closed, "open") ELSE closed
             /\ tasks' = With(Without(IF handshake THEN ReaderEnds(t.conn) ELSE tasks, t),
                              IF dialled THEN ConnectedMsg(t.room, Len(conns'))
                              ELSE ErrMsg)
    BY <1>5 DEF RunConnect
  <2> DEFINE closed == IF t.conn # 0 /\ conns[t.conn] = "open"
                       THEN [conns EXCEPT ![t.conn] = "closed"] ELSE conns
             u == IF dialled THEN ConnectedMsg(t.room, Len(conns')) ELSE ErrMsg
             B == IF handshake THEN ReaderEnds(t.conn) ELSE tasks
  <2>2. conns' = (IF dialled THEN Append(closed, "open") ELSE closed)
        /\ tasks' = With(Without(B, t), u)
    BY <2>1
  <2>3. UNCHANGED <<model, program, server>> /\ conn' = conn
    BY <1>5 DEF RunConnect, model
  <2>4. conns \in Seq({"open", "closed", "lost"})
    BY <1>1 DEF ModelFits
  <2>5. closed \in Seq({"open", "closed", "lost"}) /\ Len(closed) = Len(conns)
    BY <2>4
  <2>6. /\ conns' \in Seq({"open", "closed", "lost"})
        /\ Len(conns) \in Nat /\ Len(conns') \in Nat /\ Len(conns') >= Len(conns)
        /\ dialled => Len(conns') = Len(conns) + 1
    <3> HIDE DEF closed
    <3> QED
      BY <2>2, <2>4, <2>5
  <2>7. Connections \subseteq Connections' /\ (dialled => Len(conns') \in Connections')
    BY <2>6 DEF Connections
  <2>8. u \in TaskOf(Connections') /\ u.do \notin {"listen", "incoming"}
    <3>1. t.room \in Rooms
      BY <1>1, <1>5, TaskParts DEF RunConnect, Pending
    <3> QED
      BY <2>7, <3>1, PlainTasks, Kinds DEF TaskOf, ConnectedMsg
  <2>9. IsABag(B) /\ DOMAIN B \subseteq DOMAIN tasks
    <3>1. IsABag(tasks)
      BY <1>1 DEF TasksFit
    <3> QED
      BY <3>1, BagWithout DEF ReaderEnds
  <2> HIDE DEF B, u, closed
  <2>10. IsABag(tasks') /\ DOMAIN tasks' \subseteq DOMAIN tasks \cup {u}
    <3>1. IsABag(Without(B, t)) /\ DOMAIN Without(B, t) \subseteq DOMAIN B
      BY <2>9, BagWithout
    <3>2. IsABag(tasks') /\ DOMAIN tasks' = DOMAIN Without(B, t) \cup {u}
      BY <2>2, <3>1, BagWith
    <3> QED
      BY <2>9, <3>1, <3>2
  <2>11. TasksFit'
    <3>1. DOMAIN tasks' \subseteq TaskOf(Connections')
      BY <1>1, <2>7, <2>8, <2>10, TaskGrows DEF TasksFit
    <3>2. Listeners' \subseteq Listeners
      BY <2>8, <2>10 DEF Listeners
    <3> QED
      BY <1>1, <2>3, <2>10, <3>1, <3>2 DEF TasksFit
  <2>12. ModelFits'
    BY <1>1, <2>3, <2>6, <2>7 DEF ModelFits, model
  <2> QED
    BY <2>11, <2>12
<1> QED
  BY <1>2, <1>3, <1>4, <1>5 DEF Command

\* The network, the server and the other users.
LEMMA TypeWorld ==
  ASSUME TypeCorrect, World
  PROVE  TypeCorrect'
<1> SUFFICES TasksFit' /\ ModelFits'
  BY TypePartsNext
<1>1. TasksFit /\ ModelFits
  BY TypeParts
<1>2. ASSUME NEW c \in DOMAIN conns, Lose(c) PROVE TasksFit' /\ ModelFits'
  <2>1. UNCHANGED <<model, program, tasks, server>> /\ conns' = [conns EXCEPT ![c] = "lost"]
    BY <1>2 DEF Lose
  <2>2. conns' \in Seq({"open", "closed", "lost"}) /\ Len(conns') = Len(conns)
    BY <1>1, <2>1 DEF ModelFits
  <2>3. Connections' = Connections
    BY <2>2 DEF Connections
  <2> QED
    BY <1>1, <2>1, <2>2, <2>3 DEF TasksFit, ModelFits, model, Listeners
<1>3. ASSUME NEW t \in DOMAIN tasks, Arrive(t) PROVE TasksFit' /\ ModelFits'
  <2>1. UNCHANGED <<model, program, conns, server>> /\ Connections' = Connections /\ conn' = conn
    BY <1>3 DEF Arrive, Connections, model
  <2>2. ModelFits'
    BY <1>1, <2>1 DEF ModelFits, model
  <2>3. {ErrMsg, IncomingMsg} \subseteq TaskOf(Connections')
    BY PlainTasks
  <2>4. conn # 0
    BY <1>3 DEF Arrive, Pending, TypeCorrect, Listeners
  <2>5. Replace(t, IncomingMsg) \/ Replace(t, ErrMsg)
    BY <1>3 DEF Arrive
  <2> QED
    BY <2>1, <2>2, <2>3, <2>4, <2>5, ReplaceFits, Kinds
<1>4. ASSUME NEW r \in Rooms, Elsewhere(r) PROVE TasksFit' /\ ModelFits'
  <2>1. UNCHANGED <<model, program, tasks, conns>> /\ Connections' = Connections
    BY <1>4 DEF Elsewhere, Connections
  <2>2. server' \in Seq(Rooms) /\ IsInjective(server')
    BY <1>1, <1>4, ServerGrows DEF ModelFits, Elsewhere
  <2> QED
    BY <1>1, <2>1, <2>2 DEF TasksFit, ModelFits, model, Listeners
<1> QED
  BY <1>2, <1>3, <1>4 DEF World

LEMMA TypeStep == TypeCorrect /\ [Next]_vars => TypeCorrect'
<1> SUFFICES ASSUME TypeCorrect, [Next]_vars PROVE TypeCorrect'
  OBVIOUS
<1>1. CASE UNCHANGED vars
  BY <1>1 DEF vars, model, TypeCorrect, TypeOK, Listeners, Task, Connections
<1>2. ASSUME NEW t \in DOMAIN tasks, Update(t) \/ Command(t) PROVE TypeCorrect'
  BY <1>2, TypeUpdate, TypeCommand
<1>3. CASE Tick \/ User
  BY <1>3, TypeUser
<1>4. CASE World
  BY <1>4, TypeWorld
<1> QED
  BY <1>1, <1>2, <1>3, <1>4 DEF Next

\* No command reads or writes on a connection that is nil, and no timer reconnects to
\* no room (model.go:42-61, commands.go:92-139).
THEOREM TypeCorrectness == Spec => []TypeOK
<1>1. Spec => []TypeCorrect
  BY TypeInit, TypeStep, PTL DEF Spec
<1> QED
  BY <1>1, PTL DEF TypeCorrect

-------------------------------------------------------------------------------
(* Never deaf, and never giving up.                                        *)

\* What will make somebody listen, and what goes on reconnecting.
Answers  == {t \in DOMAIN tasks : t.do \in {"incoming", "connect", "connected", "err"}}
Attempts == {t \in DOMAIN tasks : t.do \in {"timer", "connect", "connected", "err"}}

ShownInv == TypeCorrect /\ NeverDeaf /\ KeepsTrying

LEMMA ShownParts ==
  /\ NeverDeaf <=> (state = "connected" => Listen(conn) \in DOMAIN tasks \/ Answers # {})
  /\ KeepsTrying <=> (state = "connecting" => Attempts # {})
  BY DEF NeverDeaf, KeepsTrying, Answers, Attempts

\* A step that only takes away a task which is neither keeps both.
LEMMA ShownKept ==
  ASSUME ShownInv, UNCHANGED <<state, conn>>, NEW t,
         DOMAIN tasks \ {t} \subseteq DOMAIN tasks',
         t \in DOMAIN tasks =>
           t.do \notin {"incoming", "connect", "connected", "err", "timer", "listen"}
  PROVE  NeverDeaf' /\ KeepsTrying'
<1>1. Answers \subseteq Answers' /\ Attempts \subseteq Attempts'
  BY DEF Answers, Attempts
<1>2. Listen(conn) \in DOMAIN tasks => Listen(conn') \in DOMAIN tasks'
  BY Kinds
<1> QED
  BY <1>1, <1>2 DEF ShownInv, NeverDeaf, KeepsTrying, Answers, Attempts

LEMMA ShownUpdate ==
  ASSUME ShownInv, NEW t \in DOMAIN tasks, Update(t)
  PROVE  NeverDeaf' /\ KeepsTrying'
<1>1. IsABag(tasks)
  BY TypeIsFit DEF ShownInv, TasksFit
<1>2. CASE UpdateRooms(t)
  <2>1. /\ DOMAIN tasks \ {t} \subseteq DOMAIN tasks' /\ UNCHANGED <<state, conn>>
        /\ t.do = "rooms"
    BY <1>1, <1>2, Replaced, Finished DEF UpdateRooms, Pending
  <2> QED
    BY <2>1, ShownKept
<1>3. CASE UpdateCreated(t)
  <2>1. /\ DOMAIN tasks \ {t} \subseteq DOMAIN tasks' /\ UNCHANGED <<state, conn>>
        /\ t.do = "created"
    BY <1>1, <1>3, Replaced DEF UpdateCreated, Pending
  <2> QED
    BY <2>1, ShownKept
<1>4. CASE UpdateConnected(t)
  <2>1. Listen(conn') \in DOMAIN tasks' /\ state' = "connected"
    BY <1>1, <1>4, Replaced DEF UpdateConnected, Listening
  <2> QED
    BY <2>1 DEF NeverDeaf, KeepsTrying
<1>5. CASE UpdateIncoming(t)
  <2>1. /\ Listen(conn) \in DOMAIN tasks' /\ UNCHANGED <<state, conn>>
        /\ t.do = "incoming" /\ DOMAIN tasks \ {t} \subseteq DOMAIN tasks'
    BY <1>1, <1>5, Replaced DEF UpdateIncoming, model, Pending
  <2>2. NeverDeaf'
    BY <2>1 DEF NeverDeaf
  <2>3. Attempts \subseteq Attempts'
    BY <2>1 DEF Attempts
  <2> QED
    BY <2>1, <2>2, <2>3 DEF KeepsTrying, ShownInv, Attempts
<1>6. CASE UpdateReconnect(t)
  <2>1. Connect(t.room, conn) \in DOMAIN tasks'
    BY <1>1, <1>6, Replaced DEF UpdateReconnect
  <2> QED
    BY <2>1, Kinds DEF NeverDeaf, KeepsTrying
<1>7. CASE UpdateErr(t)
  <2>1. CASE connectedTo # 0
    <3>1. state' = "connecting" /\ Timer(connectedTo) \in DOMAIN tasks'
      BY <1>1, <1>7, <2>1, Replaced DEF UpdateErr, Retry
    <3> QED
      BY <3>1, Kinds DEF NeverDeaf, KeepsTrying
  <2>2. CASE connectedTo = 0
    <3>1. state' = state /\ state = "disconnected"
      BY <1>7, <2>2 DEF UpdateErr, ShownInv, TypeCorrect
    <3> QED
      BY <3>1 DEF NeverDeaf, KeepsTrying
  <2> QED
    BY <2>1, <2>2
<1> QED
  BY <1>2, <1>3, <1>4, <1>5, <1>6, <1>7 DEF Update

LEMMA ShownCommand ==
  ASSUME ShownInv, NEW t \in DOMAIN tasks, Command(t) \/ Arrive(t)
  PROVE  NeverDeaf' /\ KeepsTrying'
<1>1. IsABag(tasks)
  BY TypeIsFit DEF ShownInv, TasksFit
<1>2. UNCHANGED <<state, conn>>
  BY DEF Command, RunFetch, RunCreate, RunSend, RunConnect, RunListen, Arrive, model
<1>3. CASE RunFetch(t) \/ RunCreate(t) \/ RunSend(t)
  <2>1. DOMAIN tasks \ {t} \subseteq DOMAIN tasks' /\ t.do \in {"fetch", "create", "send"}
    BY <1>1, <1>3, Replaced, Finished DEF RunFetch, RunCreate, RunSend, Pending
  <2> QED
    BY <1>2, <2>1, ShownKept
<1>4. CASE RunListen(t) \/ Arrive(t)
  <2>1. /\ DOMAIN tasks \ {t} \subseteq DOMAIN tasks' /\ t.do = "listen"
        /\ ErrMsg \in DOMAIN tasks' \/ IncomingMsg \in DOMAIN tasks'
    BY <1>1, <1>4, Replaced DEF RunListen, Arrive, Pending
  <2>2. Answers' # {}
    BY <2>1, Kinds DEF Answers
  <2>3. Attempts \subseteq Attempts'
    BY <2>1 DEF Attempts
  <2> QED
    BY <1>2, <2>2, <2>3 DEF NeverDeaf, KeepsTrying, ShownInv, Answers, Attempts
<1>5. CASE RunConnect(t)
  <2>1. \E r, c : ConnectedMsg(r, c) \in DOMAIN tasks' \/ ErrMsg \in DOMAIN tasks'
    <3>1. PICK handshake, dialled \in BOOLEAN :
            tasks' = With(Without(IF handshake THEN ReaderEnds(t.conn) ELSE tasks, t),
                          IF dialled THEN ConnectedMsg(t.room, Len(conns')) ELSE ErrMsg)
      BY <1>5 DEF RunConnect
    <3> DEFINE u == IF dialled THEN ConnectedMsg(t.room, Len(conns')) ELSE ErrMsg
               B == IF handshake THEN ReaderEnds(t.conn) ELSE tasks
    <3>2. IsABag(B)
      BY <1>1, BagWithout DEF ReaderEnds
    <3>3. tasks' = With(Without(B, t), u)
      BY <3>1
    <3>4. u = ErrMsg \/ u = ConnectedMsg(t.room, Len(conns'))
      OBVIOUS
    <3> HIDE DEF B, u
    <3>5. IsABag(Without(B, t))
      BY <3>2, BagWithout
    <3>6. DOMAIN With(Without(B, t), u) = DOMAIN Without(B, t) \cup {u}
      BY <3>5, BagWith
    <3>7. u \in DOMAIN tasks'
      BY <3>3, <3>6
    <3> QED
      BY <3>4, <3>7
  <2> QED
    BY <2>1, Kinds DEF NeverDeaf, KeepsTrying
<1> QED
  BY <1>3, <1>4, <1>5 DEF Command

LEMMA ShownOther ==
  ASSUME ShownInv, Tick \/ User \/ (\E c \in DOMAIN conns : Lose(c)) \/ \E r \in Rooms : Elsewhere(r)
  PROVE  NeverDeaf' /\ KeepsTrying'
<1>1. IsABag(tasks)
  BY TypeIsFit DEF ShownInv, TasksFit
<1>2. UNCHANGED <<state, conn>> /\ (tasks' = tasks \/ \E u : tasks' = With(tasks, u))
  BY DEF Tick, User, Focus, Select, Refresh, EnterRoom, EnterCreate, EnterText, Lose,
         Elsewhere, model
<1>3. DOMAIN tasks \subseteq DOMAIN tasks'
  BY <1>1, <1>2, Added
<1> QED
  BY <1>2, <1>3 DEF ShownInv, NeverDeaf, KeepsTrying

LEMMA ShownStep == ShownInv /\ [Next]_vars => ShownInv'
<1> SUFFICES ASSUME ShownInv, [Next]_vars PROVE ShownInv'
  OBVIOUS
<1>1. TypeCorrect'
  BY TypeStep DEF ShownInv
<1>2. CASE UNCHANGED vars
  BY <1>1, <1>2 DEF vars, model, ShownInv, NeverDeaf, KeepsTrying
<1>3. ASSUME NEW t \in DOMAIN tasks, Update(t) \/ Command(t) \/ Arrive(t) PROVE ShownInv'
  BY <1>1, <1>3, ShownUpdate, ShownCommand DEF ShownInv
<1>4. CASE Tick \/ User \/ (\E c \in DOMAIN conns : Lose(c)) \/ \E r \in Rooms : Elsewhere(r)
  BY <1>1, <1>4, ShownOther DEF ShownInv
<1> QED
  BY <1>2, <1>3, <1>4 DEF Next, World

LEMMA ShownInvariant == Spec => []ShownInv
<1>1. Init => ShownInv
  BY TypeInit DEF Init, ShownInv, NeverDeaf, KeepsTrying
<1> QED
  BY <1>1, ShownStep, PTL DEF Spec

\* While the client shows a connection somebody listens on it, or a message is under way
\* that will see to it (update.go:68-105, commands.go:114-139).
THEOREM Hears == Spec => []NeverDeaf
  BY ShownInvariant, PTL DEF ShownInv

\* While "Reconnecting" is shown, a timer, a dial or its result is under way
\* (update.go:91-105).
THEOREM Tries == Spec => []KeepsTrying
  BY ShownInvariant, PTL DEF ShownInv

-------------------------------------------------------------------------------
(* What the client comes to rest as: the part of SettlesConnected that is   *)
(* not about time.                                                         *)

\* Nothing is under way but readers that wait on open connections.
Resting == Running /\ \A t \in DOMAIN tasks : t.do = "listen" /\ conns[t.conn] = "open"

\* Once it has been in a room the client never shows "disconnected" again.
EverConnected == connectedTo # 0 => state # "disconnected"

LEMMA EverConnectedHolds == Spec => []EverConnected
<1>1. Init => EverConnected
  BY DEF Init, EverConnected
<1>2. EverConnected /\ [Next]_vars => EverConnected'
  <2> SUFFICES ASSUME EverConnected, [Next]_vars PROVE EverConnected'
    OBVIOUS
  <2>1. ASSUME UNCHANGED <<connectedTo, state>> PROVE EverConnected'
    BY <2>1 DEF EverConnected
  <2>2. ASSUME NEW t \in DOMAIN tasks, Update(t) PROVE EverConnected'
    BY <2>2 DEF Update, UpdateRooms, UpdateCreated, UpdateConnected, UpdateIncoming,
               UpdateReconnect, UpdateErr, EverConnected, model
  <2>3. ASSUME NEW t \in DOMAIN tasks, Command(t) \/ Arrive(t) PROVE EverConnected'
    BY <2>1, <2>3 DEF Command, RunFetch, RunCreate, RunSend, RunConnect, RunListen, Arrive, model
  <2>4. CASE Tick \/ User \/ (\E c \in DOMAIN conns : Lose(c)) \/ \E r \in Rooms : Elsewhere(r)
    BY <2>1, <2>4 DEF Tick, User, Focus, Select, Refresh, EnterRoom, EnterCreate, EnterText,
                     Lose, Elsewhere, model
  <2>5. CASE UNCHANGED vars
    BY <2>1, <2>5 DEF vars, model
  <2> QED
    BY <2>2, <2>3, <2>4, <2>5 DEF Next, World
<1> QED
  BY <1>1, <1>2, PTL DEF Spec

\* A client that has been in a room rests only when it is connected, by an open
\* connection on which somebody listens (update.go:68-105, commands.go:92-139): neither
\* a reconnection nor a switch of rooms ends in a dead end, whatever crossed it.
THEOREM RestsConnected ==
  Spec => [](Resting /\ connectedTo # 0 =>
               state = "connected" /\ conns[conn] = "open" /\ Listen(conn) \in DOMAIN tasks)
<1>1. ShownInv /\ EverConnected /\ Resting /\ connectedTo # 0 =>
        state = "connected" /\ conns[conn] = "open" /\ Listen(conn) \in DOMAIN tasks
  <2> SUFFICES ASSUME ShownInv, EverConnected, Resting, connectedTo # 0
               PROVE  state = "connected" /\ conns[conn] = "open" /\ Listen(conn) \in DOMAIN tasks
    OBVIOUS
  <2>1. \A t \in DOMAIN tasks : t.do = "listen" /\ conns[t.conn] = "open"
    BY DEF Resting
  <2>2. state \in {"disconnected", "connecting", "connected"}
    BY TypeParts DEF ShownInv, ModelFits
  <2>3. state = "connected"
    BY <2>1, <2>2 DEF ShownInv, KeepsTrying, EverConnected
  <2>4. Listen(conn) \in DOMAIN tasks
    BY <2>1, <2>3 DEF ShownInv, NeverDeaf
  <2>5. conns[Listen(conn).conn] = "open"
    BY <2>1, <2>4
  <2> QED
    BY <2>3, <2>4, <2>5 DEF Listen
<1> QED
  BY <1>1, ShownInvariant, EverConnectedHolds, PTL

==============================================================================
