--------------------------------- MODULE Room ---------------------------------
(***************************************************************************)
(* One chat room of the server: hub.Room with its clients, the worker pool *)
(* that takes over broadcasting when the room is large, the goroutines of  *)
(* every connection, and the shutdown of the room while they all run.      *)
(*                                                                         *)
(* Per connection c (a hub.Client; a user who reconnects is a new client): *)
(*   - the HTTP handler goroutine, which adds c to the room, replays the   *)
(*     stored messages, runs the read pump and, when that returns or       *)
(*     panics, removes c (pc[c]);                                          *)
(*   - the write pump, which moves send[c] to the wire (pump[c]).          *)
(* Per pool worker k: its channel jobs[k] and the job in its hands cur[k]. *)
(*                                                                         *)
(* Atomicity.  A critical section of Room.mu is one step; so is each send  *)
(* on, receive from or close of a channel, and each read of broadcastPool  *)
(* outside the lock (room.go:34, room.go:95).  A write pump's receive and  *)
(* its write to the socket are one step.  A Shutdown whose unlocked read   *)
(* falls between the lines 47 and 48 of room.go would close the channels   *)
(* of workers not yet started and not wait for them: left out here.        *)
(* The database is external.  An insert and the snapshot of its broadcast  *)
(* are one step, and a query may have any of the stored messages; that     *)
(* they are two, and it has the newest, is the subject of JoinRoom.        *)
(***************************************************************************)
EXTENDS Integers, Sequences, FiniteSets

CONSTANTS Clients,        \* the connections
          PoolThreshold,  \* members at which the worker pool is started (10)
          WorkerCount,    \* workers of the pool (10)
          SendCap,        \* capacity of a client's send channel (256)
          JobCap,         \* capacity of a worker's job channel (16)
          MaxFrames,      \* bound: frames one connection reads
          MaxRead         \* bound: frames all connections read

ASSUME ClientsAssumption   == IsFiniteSet(Clients)
ASSUME ThresholdAssumption == PoolThreshold \in Nat \ {0}
ASSUME WorkersAssumption   == WorkerCount \in Nat \ {0}
ASSUME CapsAssumption      == SendCap \in Nat \ {0} /\ JobCap \in Nat \ {0}
ASSUME BoundsAssumption    == MaxFrames \in Nat /\ MaxRead \in Nat

VARIABLES
  clients,     \* Room.clients
  pools,       \* pools activated so far: broadcastPool is nil iff it is 0
  stored,      \* the messages of the room that the database has
  pc,          \* control state of each handler goroutine
  frames,      \* frames[c]: frames read from c, which number its messages
  todo,        \* todo[c]: clients of c's current broadcast not yet served
  chunk,       \* chunk[c]: chunkSize of the Submit that c is executing
  shard,       \* shard[c]: workerIdx of the next shard of that Submit
  history,     \* history[c]: what sendHistory has still to send to c
  send,        \* send[c]: the buffered channel Client.send
  closed,      \* the clients whose send channel is closed
  pump,        \* control state of each write pump
  written,     \* history: what was written to each connection, in order
  jobs,        \* jobs[k]: the buffered channel of worker k
  cur,         \* cur[k]: the job that worker k is serving
  jobsClosed,  \* the workers whose channel is closed
  exited,      \* the workers that have returned
  shut,        \* control state of the goroutine that runs Room.Shutdown
  proc,        \* the server process: up, or ended by a panic
  owed,        \* history: owed[c], messages whose snapshot included c
  dropped      \* history: dropped[c], broadcast messages dropped for c

roomVars    == <<clients, pools, stored>>
localVars   == <<frames, todo, chunk, shard, history>>
handlerVars == <<pc, localVars>>
clientVars  == <<send, closed, pump, written>>
workerVars  == <<jobs, cur, jobsClosed, exited>>
stopVars    == <<shut, proc>>
historyVars == <<owed, dropped>>
vars == <<roomVars, handlerVars, clientVars, workerVars, stopVars, historyVars>>

Workers == 1..WorkerCount

\* The n-th frame read from c leads either to a message for the others (chat
\* or typing: a WireMessage) or, when it is too long, to an error for c.  A chat
\* message is stored, and comes to those who join later as a stored message.
Msg   == [from : Clients, seq : 1..MaxFrames, kind : {"wire", "error", "stored"}]
Wire  == {m \in Msg : m.kind = "wire"}
Error == {m \in Msg : m.kind = "error"}
Old   == {m \in Msg : m.kind = "stored"}
Current(c) == [from |-> c, seq |-> frames[c], kind |-> "wire"]
Record(c)  == [from |-> c, seq |-> frames[c], kind |-> "stored"]

Job    == [msg : Wire, to : SUBSET Clients]
NoJob  == [to |-> {}]

Elements(s) == {s[i] : i \in DOMAIN s}

-------------------------------------------------------------------------------
Init ==
  /\ clients = {}
  /\ pools = 0
  /\ stored = {}
  /\ pc = [c \in Clients |-> "out"]
  /\ frames = [c \in Clients |-> 0]
  /\ todo = [c \in Clients |-> {}]
  /\ chunk = [c \in Clients |-> 1]
  /\ shard = [c \in Clients |-> 1]
  /\ history = [c \in Clients |-> {}]
  /\ send = [c \in Clients |-> <<>>]
  /\ closed = {}
  /\ pump = [c \in Clients |-> "off"]
  /\ written = [c \in Clients |-> <<>>]
  /\ jobs = [k \in Workers |-> <<>>]
  /\ cur = [k \in Workers |-> NoJob]
  /\ jobsClosed = {}
  /\ exited = {}
  /\ shut = "no"
  /\ proc = "up"
  /\ owed = [c \in Clients |-> {}]
  /\ dropped = [c \in Clients |-> {}]

\* No goroutine of a process that is down takes a step.
Up == proc = "up"

Goto(c, label) == pc' = [pc EXCEPT ![c] = label]

\* The non-blocking send of Client.SendRaw and Client.Send on an open channel.
Full(c) == Len(send[c]) >= SendCap

\* Mutant: waits for room in the channel.
SendRawBlocking(c, m) ==
  /\ ~Full(c)
  /\ send' = [send EXCEPT ![c] = Append(@, m)]
  /\ UNCHANGED dropped

SendRaw(c, m) ==
  /\ send' = IF Full(c) THEN send ELSE [send EXCEPT ![c] = Append(@, m)]
  /\ dropped' = IF Full(c) THEN [dropped EXCEPT ![c] = @ \cup {m}] ELSE dropped

-------------------------------------------------------------------------------
(* The handler goroutine of connection c: joining.                         *)

\* Room.Add, the locked part: insert c and count the members.
Add(c) ==
  /\ Up
  /\ pc[c] = "out"
  /\ clients' = clients \cup {c}
  /\ Goto(c, IF Cardinality(clients') >= PoolThreshold THEN "check" ELSE "joined")
  /\ UNCHANGED <<pools, stored, localVars, clientVars, workerVars, stopVars,
                 historyVars>>

\* Room.Add, the read of broadcastPool after the lock is released.
CheckPool(c) ==
  /\ Up
  /\ pc[c] = "check"
  /\ Goto(c, IF pools = 0 THEN "activate" ELSE "joined")
  /\ UNCHANGED <<roomVars, localVars, clientVars, workerVars, stopVars,
                 historyVars>>

\* NewBroadcastPool makes the channels.  Mutant: one too few.
OneChannelShort == [k \in 1..(WorkerCount - 1) |-> <<>>]
FreshChannels == [k \in Workers |-> <<>>]

\* The check under the lock.  Mutant: left out.
NoRecheck == TRUE
Recheck == pools = 0

\* Room.activatePool: under the lock, create and start the pool unless
\* another connection has done it since.  A second pool would take the place of
\* the first, whose channels then nobody closes.
ActivatePool(c) ==
  /\ Up
  /\ pc[c] = "activate"
  /\ Goto(c, "joined")
  /\ IF ~Recheck THEN UNCHANGED <<pools, workerVars>>
     ELSE /\ pools' = pools + 1
          /\ jobs' = FreshChannels
          /\ jobsClosed' = {}
          /\ UNCHANGED <<cur, exited>>
  /\ UNCHANGED <<clients, stored, localVars, clientVars, stopVars, historyVars>>

\* WSHandler.sendHistory: the answer of the database, limited to the newest messages,
\* or none when the query fails.
Query(c) ==
  /\ Up
  /\ pc[c] = "joined"
  /\ \E S \in SUBSET stored : history' = [history EXCEPT ![c] = S]
  /\ Goto(c, "replay")
  /\ UNCHANGED <<roomVars, frames, todo, chunk, shard, clientVars, workerVars,
                 stopVars, historyVars>>

\* One turn of its loop, the oldest first: SendRaw into the channel that the
\* broadcasts of others use already.
Replay(c, m) ==
  /\ Up
  /\ pc[c] = "replay"
  /\ m \in history[c]
  /\ \A n \in history[c] : n.from = m.from => m.seq <= n.seq
  /\ history' = [history EXCEPT ![c] = @ \ {m}]
  /\ send' = IF Full(c) THEN send ELSE [send EXCEPT ![c] = Append(@, m)]
  /\ UNCHANGED <<roomVars, pc, frames, todo, chunk, shard, closed, pump, written,
                 workerVars, stopVars, historyVars>>

\* Client.Run: start the write pump and enter the read pump.
Run(c) ==
  /\ Up
  /\ pc[c] = "replay"
  /\ history[c] = {}
  /\ pump' = [pump EXCEPT ![c] = "on"]
  /\ Goto(c, "reading")
  /\ UNCHANGED <<roomVars, localVars, send, closed, written, workerVars,
                 stopVars, historyVars>>

-------------------------------------------------------------------------------
(* The handler goroutine of connection c: the read pump.                   *)

\* The bounds on what the peers send.
FramesRead == {f \in Clients \X (1..MaxFrames) : f[2] <= frames[f[1]]}
MoreFrames(c) == frames[c] < MaxFrames /\ Cardinality(FramesRead) < MaxRead

\* Mutant: min for max.
ChunkSizeMin(n) ==
  LET q == (n + WorkerCount - 1) \div WorkerCount IN IF q < 1 THEN q ELSE 1

\* ceil(n / WorkerCount), at least 1.
ChunkSize(n) ==
  LET q == (n + WorkerCount - 1) \div WorkerCount IN IF q > 1 THEN q ELSE 1

\* Mutant: the sender is not left out.
SnapshotWithSender(c) == IF c \in clients THEN clients ELSE {}

\* The members a broadcast of c is for.
Snapshot(c) == clients \ {c}

\* A chat or typing frame; a chat message is stored, unless the insert fails.  Then
\* Room.Broadcast looks once, under the read lock, at the members and at the pool.
\* An empty snapshot ends the broadcast.
ReadFrame(c) ==
  /\ Up
  /\ pc[c] = "reading"
  /\ MoreFrames(c)
  /\ frames' = [frames EXCEPT ![c] = @ + 1]
  /\ stored' \in {stored, stored \cup {Record(c)'}}
  /\ LET snapshot == Snapshot(c) IN
       /\ todo' = [todo EXCEPT ![c] = snapshot]
       /\ Goto(c, IF snapshot = {} THEN "reading"
                  ELSE IF pools = 0 THEN "inline" ELSE "submit")
       /\ chunk' = [chunk EXCEPT ![c] = IF snapshot = {} \/ pools = 0 THEN 1
                                        ELSE ChunkSize(Cardinality(snapshot))]
       /\ owed' = [t \in Clients |-> IF t \in snapshot THEN owed[t] \cup {Current(c)'}
                                     ELSE owed[t]]
  /\ UNCHANGED <<clients, pools, shard, history, clientVars, workerVars, stopVars,
                 dropped>>

\* A frame longer than MaxMessageLength: the error goes to c's own channel.
\* Client.Send drops it silently when the channel is full.
ReadTooLong(c) ==
  /\ Up
  /\ pc[c] = "reading"
  /\ MoreFrames(c)
  /\ frames' = [frames EXCEPT ![c] = @ + 1]
  /\ IF c \in closed
     THEN Goto(c, "leaving") /\ UNCHANGED send
     ELSE /\ send' = IF Full(c) THEN send
                     ELSE [send EXCEPT ![c] =
                             Append(@, [from |-> c, seq |-> frames[c] + 1,
                                        kind |-> "error"])]
          /\ UNCHANGED pc
  /\ UNCHANGED <<roomVars, todo, chunk, shard, history, closed, pump, written,
                 workerVars, stopVars, historyVars>>

\* The connection fails or is closed by the peer: the read pump returns.
ReadError(c) ==
  /\ Up
  /\ pc[c] = "reading"
  /\ Goto(c, "leaving")
  /\ UNCHANGED <<roomVars, localVars, clientVars, workerVars, stopVars,
                 historyVars>>

\* A send on a closed channel panics.  In the handler the panic unwinds
\* through the deferred calls, as a return of the read pump does, and is
\* recovered above them; what was left of the broadcast stays in todo[c].
\* Mutant: the deferred Remove is skipped.
PanicUnrecovered(c) == Goto(c, "gone") /\ UNCHANGED <<todo, chunk, shard>>
Panic(c) == Goto(c, "leaving") /\ UNCHANGED <<todo, chunk, shard>>

\* Mutant: the loop ends after its first turn.
ServedOnce(c, T) ==
  /\ todo' = [todo EXCEPT ![c] = {}]
  /\ Goto(c, "reading")
  /\ chunk' = [chunk EXCEPT ![c] = 1]
  /\ shard' = [shard EXCEPT ![c] = 1]

\* The broadcast goes on with the clients not yet served, or it is done (and
\* the locals of Submit are back at their initial value).
Served(c, T) ==
  LET done == todo[c] \subseteq T IN
    /\ todo' = [todo EXCEPT ![c] = @ \ T]
    /\ Goto(c, IF done THEN "reading" ELSE pc[c])
    /\ chunk' = [chunk EXCEPT ![c] = IF done THEN 1 ELSE @]
    /\ shard' = [shard EXCEPT ![c] = IF done \/ pc[c] = "inline" THEN 1 ELSE @ + 1]

\* One iteration of Broadcast's inline loop: client t is next.
InlineSend(c, t) ==
  /\ Up
  /\ pc[c] = "inline"
  /\ t \in todo[c]
  /\ IF t \in closed
     THEN Panic(c) /\ UNCHANGED <<send, dropped>>
     ELSE SendRaw(t, Current(c)) /\ Served(c, {t})
  /\ UNCHANGED <<roomVars, frames, history, closed, pump, written, workerVars,
                 stopVars, owed>>

\* One iteration of BroadcastPool.Submit: T is the next shard.  The channel
\* of a worker that does not exist, or is closed, panics.
SubmitShard(c, T) ==
  /\ Up
  /\ pc[c] = "submit"
  /\ T \subseteq todo[c]
  /\ Cardinality(T) = chunk[c] \/ (T = todo[c] /\ Cardinality(T) < chunk[c])
  /\ LET k == shard[c] IN
       IF k \notin Workers \/ k \in jobsClosed
       THEN Panic(c) /\ UNCHANGED <<jobs, dropped>>
       ELSE /\ Served(c, T)
            /\ IF Len(jobs[k]) < JobCap
               THEN /\ jobs' = [jobs EXCEPT ![k] =
                                  Append(@, [msg |-> Current(c), to |-> T])]
                    /\ UNCHANGED dropped
               ELSE /\ dropped' = [t \in Clients |->
                                     IF t \in T THEN dropped[t] \cup {Current(c)}
                                     ELSE dropped[t]]
                    /\ UNCHANGED jobs
  /\ UNCHANGED <<roomVars, frames, history, clientVars, cur, jobsClosed, exited,
                 stopVars, owed>>

\* Room.Remove, deferred by the handler: delete the member and close its
\* channel in one critical section.
Remove(c) ==
  /\ Up
  /\ pc[c] = "leaving"
  /\ clients' = clients \ {c}
  /\ closed' = closed \cup {c}
  /\ Goto(c, "gone")
  /\ UNCHANGED <<pools, stored, localVars, send, pump, written, workerVars, stopVars,
                 historyVars>>

-------------------------------------------------------------------------------
(* The write pump of connection c.                                         *)

\* Mutant: the pump goes on until its channel is closed and empty.
ServingUntilEmpty(c) == pump[c] = "on" /\ (pc[c] # "gone" \/ send[c] # <<>>)

\* The read pump cancels the context and closes the connection when it returns.
Serving(c) == pump[c] = "on" /\ pc[c] \notin {"leaving", "gone"}

\* Receive one message and write it to the socket; the write may fail although
\* the read pump has not noticed anything yet.
PumpWrite(c) ==
  /\ Up
  /\ Serving(c)
  /\ send[c] # <<>>
  /\ send' = [send EXCEPT ![c] = Tail(@)]
  /\ written' = [written EXCEPT ![c] = Append(@, Head(send[c]))]
  /\ UNCHANGED <<roomVars, handlerVars, closed, pump, workerVars, stopVars,
                 historyVars>>

PumpFail(c) ==
  /\ Up
  /\ Serving(c)
  /\ send[c] # <<>>
  /\ send' = [send EXCEPT ![c] = Tail(@)]
  /\ pump' = [pump EXCEPT ![c] = "done"]
  /\ UNCHANGED <<roomVars, handlerVars, closed, written, workerVars, stopVars,
                 historyVars>>

\* The handler has left its read pump: the context is done, the channel is
\* closed, or a write to the closed connection fails.
PumpStop(c) ==
  /\ Up
  /\ pump[c] = "on"
  /\ ~Serving(c)
  /\ pump' = [pump EXCEPT ![c] = "done"]
  /\ UNCHANGED <<roomVars, handlerVars, send, closed, written, workerVars,
                 stopVars, historyVars>>

-------------------------------------------------------------------------------
(* Worker k of the pool.                                                   *)

Idle(k) == pools # 0 /\ k \notin exited /\ cur[k].to = {}

\* The job the worker takes and those it leaves.  Mutant: the newest first.
NewestFirst(q) == [next |-> q[Len(q)], rest |-> SubSeq(q, 1, Len(q) - 1)]
OldestFirst(q) == [next |-> Head(q), rest |-> Tail(q)]

WorkerTake(k) ==
  /\ Up
  /\ Idle(k)
  /\ jobs[k] # <<>>
  /\ cur' = [cur EXCEPT ![k] = OldestFirst(jobs[k]).next]
  /\ jobs' = [jobs EXCEPT ![k] = OldestFirst(@).rest]
  /\ UNCHANGED <<roomVars, handlerVars, clientVars, jobsClosed, exited,
                 stopVars, historyVars>>

\* What is left of job j after client t.  Mutants: client t is served again; the
\* loop ends after one client.
WithoutNobody(j, t) == j
WithoutAll(j, t) == NoJob
Without(j, t) == IF j.to = {t} THEN NoJob ELSE [msg |-> j.msg, to |-> j.to \ {t}]

\* The worker sends to client t.  Nothing recovers a panic in its goroutine:
\* a send on a closed channel ends the process.
WorkerSend(k, t) ==
  /\ Up
  /\ t \in cur[k].to
  /\ IF t \in closed
     THEN /\ proc' = "crashed"
          /\ UNCHANGED <<send, dropped, cur>>
     ELSE /\ SendRaw(t, cur[k].msg)
          /\ cur' = [cur EXCEPT ![k] = Without(cur[k], t)]
          /\ UNCHANGED proc
  /\ UNCHANGED <<roomVars, handlerVars, closed, pump, written, jobs, jobsClosed,
                 exited, shut, owed>>

\* The range loop ends once the channel is closed and empty.  Mutant: at the close.
ClosedOnly(k) == k \in jobsClosed
Drained(k) == k \in jobsClosed /\ jobs[k] = <<>>

WorkerExit(k) ==
  /\ Up
  /\ Idle(k)
  /\ Drained(k)
  /\ exited' = exited \cup {k}
  /\ UNCHANGED <<roomVars, handlerVars, clientVars, jobs, cur, jobsClosed,
                 stopVars, historyVars>>

-------------------------------------------------------------------------------
(* Shutdown of the room, run by ChatServer.Stop in a goroutine of its own.  *)
(* The process then ends at some point, without waiting for the upgraded    *)
(* connections: every prefix of a behaviour is one, so no step says so.     *)

\* Room.Shutdown reads broadcastPool without the lock.
ShutdownStart ==
  /\ Up
  /\ shut = "no"
  /\ shut' = IF pools = 0 THEN "done" ELSE "closing"
  /\ UNCHANGED <<roomVars, handlerVars, clientVars, workerVars, proc,
                 historyVars>>

\* BroadcastPool.Shutdown closes the worker channels one after the other ...
\* Mutant: the loop stops one channel early.
NextButLast(k) == jobsClosed = 1..(k - 1) /\ k < WorkerCount
NextToClose(k) == jobsClosed = 1..(k - 1)

CloseWorker(k) ==
  /\ Up
  /\ shut = "closing"
  /\ NextToClose(k)
  /\ jobsClosed' = jobsClosed \cup {k}
  /\ UNCHANGED <<roomVars, handlerVars, clientVars, jobs, cur, exited, stopVars,
                 historyVars>>

\* ... and waits for the workers.
ShutdownWait ==
  /\ Up
  /\ shut = "closing"
  /\ jobsClosed = Workers
  /\ exited = Workers
  /\ shut' = "done"
  /\ UNCHANGED <<roomVars, handlerVars, clientVars, workerVars, proc,
                 historyVars>>

-------------------------------------------------------------------------------
Handler(c) == \/ CheckPool(c) \/ ActivatePool(c) \/ Query(c) \/ Run(c)
              \/ \E m \in Old : Replay(c, m)
              \/ \E t \in Clients : InlineSend(c, t)
              \/ \E T \in SUBSET Clients : SubmitShard(c, T)
              \/ Remove(c)

Peer(c) == Add(c) \/ ReadFrame(c) \/ ReadTooLong(c) \/ ReadError(c)

Pump(c) == PumpWrite(c) \/ PumpFail(c) \/ PumpStop(c)

Worker(k) == \/ WorkerTake(k)
             \/ \E t \in Clients : WorkerSend(k, t)
             \/ WorkerExit(k)

Closing == (\E k \in Workers : CloseWorker(k)) \/ ShutdownWait
Stop == ShutdownStart \/ Closing

\* The run is over: the process is down, or every connection has come and gone
\* (the server idles) and no Shutdown is waiting for its workers.
Terminated ==
  /\ \/ proc = "crashed"
     \/ shut # "closing" /\ \A c \in Clients : pc[c] = "gone" /\ pump[c] # "on"
  /\ UNCHANGED vars

Next == \/ \E c \in Clients : Handler(c) \/ Peer(c) \/ Pump(c)
        \/ \E k \in Workers : Worker(k)
        \/ Stop
        \/ Terminated

Spec == Init /\ [][Next]_vars

(***************************************************************************)
(* The Go scheduler runs every goroutine that can run: weak fairness for   *)
(* the handler's own steps, the workers and a shutdown that has begun.     *)
(* None for the peers, and none for the write pumps: a peer that does not  *)
(* read blocks its pump for ever.                                          *)
(***************************************************************************)
ServerFairness ==
  /\ \A c \in Clients : WF_vars(Handler(c))
  /\ \A k \in Workers : WF_vars(Worker(k))
  /\ WF_vars(Closing)

FairSpec == Spec /\ ServerFairness
-------------------------------------------------------------------------------
(* Properties.                                                             *)

Label == {"out", "check", "activate", "joined", "replay", "reading", "inline",
          "submit", "leaving", "gone"}

\* Type invariant: the shape of every variable (room.go:10, client.go:21,
\* broadcast_pool.go:13).
TypeOK ==
  /\ clients \subseteq Clients
  /\ pools \in Nat
  /\ stored \subseteq Old
  /\ pc \in [Clients -> Label]
  /\ frames \in [Clients -> 0..MaxFrames]
  /\ todo \in [Clients -> SUBSET Clients]
  /\ chunk \in [Clients -> Nat \ {0}]
  /\ shard \in [Clients -> Nat \ {0}]
  /\ history \in [Clients -> SUBSET Old]
  /\ send \in [Clients -> Seq(Msg)]
  /\ closed \subseteq Clients
  /\ pump \in [Clients -> {"off", "on", "done"}]
  /\ written \in [Clients -> Seq(Msg)]
  /\ jobs \in [Workers -> Seq(Job)]
  /\ cur \in [Workers -> Job \cup {NoJob}]
  /\ jobsClosed \subseteq Workers
  /\ exited \subseteq Workers
  /\ shut \in {"no", "closing", "done"}
  /\ proc \in {"up", "crashed"}
  /\ owed \in [Clients -> SUBSET Wire]
  /\ dropped \in [Clients -> SUBSET Wire]

Broadcasting == {"inline", "submit"}

\* The broadcast of c broke off in a panic before everybody was served.
BrokenOff(c) == pc[c] \in {"leaving", "gone"} /\ todo[c] # {}

\* The places where a message for t is before it reaches t's channel.
WithHandler(t) ==
  {Current(c) : c \in {d \in Clients : pc[d] \in Broadcasting /\ t \in todo[d]}}
WithWorkers(t) ==
  UNION {{j.msg : j \in {i \in Elements(jobs[k]) \cup {cur[k]} : t \in i.to}} :
           k \in Workers}
LeftBehind(t) ==
  {Current(c) : c \in {d \in Clients : BrokenOff(d) /\ t \in todo[d]}}
Received(t) == Elements(send[t]) \cup Elements(written[t])

\* A client that Broadcast can still find in the room has an open channel, and
\* only a client whose handler has finished has a closed one: Remove deletes and
\* closes in one critical section (room.go:52-57), so no broadcast that starts
\* now can meet a closed channel, and no channel is closed twice.
ChannelsOpenWhileMember ==
  /\ clients \cap closed = {}
  /\ closed = {c \in Clients : pc[c] = "gone"}
  /\ clients = {c \in Clients : pc[c] \notin {"out", "gone"}}

\* No message comes to a client twice as a broadcast nor twice as history, wherever
\* the copies are: on the wire, in the channel, with a worker, or still to be sent by
\* a handler; and a broadcast that was dropped for a client does not reach it later.
\* Once each is possible, even after the drop of the broadcast (ws_handler.go:89-91):
\* a message that was sent between the joining and the query is in the history too.
AtMostOnce ==
  \A t \in Clients :
    LET s == written[t] \o send[t] IN
      /\ \A i, j \in DOMAIN s : s[i] = s[j] => i = j
      /\ Received(t) \cap dropped[t] = {}
      /\ (Received(t) \cup dropped[t])
           \cap (WithHandler(t) \cup WithWorkers(t) \cup history[t]) = {}

\* A message whose snapshot included a client that is still served (a member
\* whose write pump has not failed) is accounted for: written, in its channel,
\* with a worker or the handler, or logged as dropped (client.go:140,
\* broadcast_pool.go:65).  The one exception is a broadcast that broke off.
NoSilentLoss ==
  \A t \in clients :
    pump[t] # "done" =>
      owed[t] \subseteq Received(t) \cup WithHandler(t) \cup WithWorkers(t)
                        \cup dropped[t] \cup LeftBehind(t)

\* The broadcasts of one sender reach a client in the order they were sent, as long
\* as they are inline or one worker has them all (broadcast_pool.go:40-46); with
\* several workers two shards of one client overtake each other.  The history is
\* excepted: its older messages come in among the broadcasts (ws_handler.go:104-117).
SenderOrder ==
  (pools = 0 \/ WorkerCount = 1) =>
    \A t \in Clients :
      LET s == written[t] \o send[t] IN
        \A i, j \in DOMAIN s :
          i < j /\ s[i].from = s[j].from /\ Old \cap {s[i], s[j]} = {} => s[i].seq < s[j].seq

\* Two joiners who both find no pool start one between them (room.go:34, 43-45): a
\* second would leave the first with its goroutines behind, out of Shutdown's reach.
PoolOnce == pools <= 1

\* Rounding chunkSize up (broadcast_pool.go:55) leaves no more shards than there
\* are workers: the loop never indexes past the last worker.
ShardInRange == \A c \in Clients : pc[c] = "submit" => shard[c] \in Workers

\* A worker that has returned left nothing behind, neither in its channel nor in
\* its hands, and no later Submit adds to it: what Submit accepted is served
\* before Shutdown returns (broadcast_pool.go:40-46, 70-76).
NoStrandedJob ==
  \A k \in exited : jobs[k] = <<>> /\ cur[k].to = {} /\ k \in jobsClosed

\* The room keeps the promise of Delivery: room.go, broadcast_pool.go and client.go
\* together are best-effort, at-most-once delivery to a snapshot of the members, and
\* of what was sent before to those who join.
D == INSTANCE Delivery WITH
       Msg <- Wire, Answer <- Error, members <- clients, lost <- dropped,
       delivered <- written
Promise == D!Spec

\* A broadcast ends, whatever the receivers' pumps do: no send in its way blocks
\* (client.go:136-142, broadcast_pool.go:62-66).
BroadcastEnds ==
  \A c \in Clients :
    pc[c] \in Broadcasting ~> pc[c] \notin Broadcasting \/ proc # "up"

\* What the pool accepted is taken and served.
JobsServed ==
  \A k \in Workers :
    jobs[k] # <<>> ~> (jobs[k] = <<>> /\ cur[k].to = {}) \/ proc # "up"

\* A shutdown that has begun to close the pool returns: wg.Wait does not wait for
\* ever (broadcast_pool.go:70-76).
ShutdownReturns == shut = "closing" ~> shut = "done" \/ proc # "up"

-------------------------------------------------------------------------------
(* What the documents say and the code does not do.                        *)

\* A disconnect is Close WebSocket, then Remove(client) (docs/architecture.md:42-43):
\* it does not end the server.
ServerSurvivesDisconnect == proc # "crashed"
===============================================================================
