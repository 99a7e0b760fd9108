# Chatatui: a TLA+ model of the server and the client

Chatatui is a chat server in Go (REST for registration and rooms, one WebSocket
per connection, Postgres for users, rooms and messages, Redis for rate limiting)
with a Bubble Tea terminal client. This directory models the parts of it where
goroutines, commands and requests cross, checks them with TLC on small instances
and proves the safety properties, and that a room keeps its abstract promise, with
TLAPS for every instance.

## Inventory

| Part | Source | State | Operations | What makes it correct |
|---|---|---|---|---|
| Room | `hub/room.go` | members, the pool if started | Add, activatePool, Remove, Broadcast, Shutdown | each broadcast reaches every member of its snapshot once, or its loss is logged (but for one that a departure breaks off); a room starts one pool |
| Broadcast pool | `hub/broadcast_pool.go` | one job channel per worker | Start, Submit, worker, Shutdown | shards fit the workers, accepted jobs are served, Shutdown returns |
| Connection | `hub/client.go` | a bounded send channel | Run, read pump, write pump, Send, SendRaw | no send blocks; no broadcast arrives twice |
| Hub | `hub/hub.go` | room objects by id | GetRoom, CreateRoom, Shutdown | whoever enters a room finds its object (refuted by `join_split`); a stop reaches every pool of a registered object |
| WebSocket handler | `api/ws_handler.go` | none of its own | Handle, sendHistory | nothing is missed between history and live messages; what is stored meanwhile may come both ways |
| Chat service, repositories | `service/`, `repository/` | the database | GetMessageHistory, PersistMessage, rooms, users | a message is stored before it is broadcast |
| Authentication, rate limiter | `middleware/` | counters in Redis | APIKeyAuth, Middleware, isAllowed | at most `maxReqs` per window, and the window ends |
| Rooms endpoints | `api/rooms_handler.go` | the database | List, Create | the list is bounded |
| Registration | `api/register_handler.go`, `cmd/register.go`, `cmd/init.go`, `cmd/root.go` | the users, the config file | Handle, saveAPIKey, init, initConfig | a key in the file is the key of a user; commands side by side do not ruin the file |
| Router | `api/handler.go` | none | Routes | nothing reaches a guarded handler without a user, or uncounted |
| Life cycle | `cmd/serve.go`, `server/server.go` | the process, the limiter, `cs.srv` | serve, Start, Stop | a stop ends within its deadline, and its exit status says whether requests were cut off |
| Terminal client | `client/ui/` | room list, selection, focus, connection, typing users | Update and seven commands | it hears what its connection brings, and reconnects when it must; its typing line keeps up with those who type, and lags by a known time at most |

The parts meet like this. The router runs authentication and the rate limiter
before every handler. The WebSocket handler looks the room up in the hub, adds a
client to the room object, replays the history from the database into the
client's send channel and becomes the client's read pump; a write pump empties the
channel. A read pump stores each chat message and calls Room.Broadcast, which
takes a snapshot of the members under the lock and, after releasing it, sends to
each member itself or hands shards of the snapshot to pool workers. The terminal
client talks to the same endpoints through commands that run concurrently. Before any of
that a user has been registered by a command that puts the key into a config file
which other commands read and write, and the server has been started; when it is
stopped it closes the pools of all rooms under the hub's lock while connections go on.

The hard parts: the snapshot that is used after the lock is gone, while members
leave and close their channels; full channels; the start of the pool by two joiners
at once; a shutdown among running broadcasts; the history read while messages
arrive; two Redis calls that belong together; answers that reach the terminal client in any
order; a config file that is truncated before it is written; a stop among requests that
are still accepted; a screen that is rendered only when something happens. `PROJECT.json` lists each such hazard at its line, with the properties
that would notice it going wrong.

## Modules

| Module | What it is |
|---|---|
| `Delivery` | abstract: what a room promises. Best-effort, at-most-once delivery to the members at the time of the broadcast, every loss on the record, and reminders of what was sent before to those who join |
| `Room` | one room with its connections, the history they are sent, pumps, pool and shutdown; implements `Delivery` (`Promise`) |
| `RoomProofs` | types, channels, the one pool, its jobs and shards |
| `RoomDeliveryProofs` | at most once live and once as history, no silent loss, order, and that `Room` implements `Delivery` |
| `JoinRoom`, `JoinRoomProofs` | the WebSocket handler with hub, history, persistence and inline broadcasts, one send a step |
| `RateLimiter`, `RateLimiterProofs` | authentication and rate limiter against Redis, with restarts |
| `TuiClient`, `TuiClientProofs` | `Model.Update`, the commands and what they bring back |
| `Typing`, `TypingProofs` | the typing line: from an author's key to a viewer's screen, with time |
| `Setup`, `SetupProofs` | `init`, `register` and the start of the client on one machine, and the registration on the server |
| `Server`, `ServerProofs` | the server process from `serve` to its end: start, middleware, joins, stop |
| `MCRoom`, `MCJoinRoom`, `MCRateLimiter`, `MCTuiClient`, `MCTyping`, `MCSetup`, `MCServer` | what the runs need: model values, symmetry, the specifications of runs without shutdown, with little history or with slow readers |

`Room` is the detail that the others abstract from: `JoinRoom` has its inline broadcasts,
one send a step, and no pool, `Server` its pool as a flag, `Typing` the way through it as a frame that may be
lost or overtake another. `Delivery` is the abstract specification that `Room` implements.

### Room

A connection `c` is a `hub.Client`; a user who reconnects is a new one. `pc[c]`
is the handler goroutine: `out`, the three steps of `Room.Add` (`check` and
`activate` after the lock is released), `joined` (before the query of `sendHistory`),
`replay` (in its loop; `history[c]` is what it has still to send), `reading`, a
broadcast under way (`inline` or `submit`), `leaving` (the deferred `Remove` is next),
`gone`. `todo[c]`
is what is left of its snapshot, `chunk[c]` and `shard[c]` the locals of `Submit`.
`send`, `jobs` and `cur` are the Go channels and the job in a worker's hands;
`closed` and `jobsClosed` are the closed channels. `owed`, `dropped` and `written`
are history: who was in a snapshot, which broadcasts were logged as dropped, what was
written. A message is of one of three kinds: `wire` is what a broadcast sends, `stored` the
same chat message as the database returns it (`stored` has those that were inserted), `error`
the answer to a frame that is too long. The replay goes into the channel that broadcasts
are using already, so a message may be written once as a broadcast and once as history.

One step is one critical section of `Room.mu`, one channel operation, or one read
of `broadcastPool` outside the lock. The order in which a snapshot is walked is
arbitrary, as the iteration of a Go map is. Sends on closed channels panic: in a
handler the panic runs the deferred calls and is recovered by the router, in a
worker it ends the process. An insert and the snapshot of its broadcast are one step, and a
query returns any of the stored messages: what that abstracts from is in `JoinRoom`. A write pump's receive and its write are one step. The
model starts the workers in the step that creates the pool: a `Shutdown` whose unlocked
read falls between these two lines (room.go:47, 48) would not wait for workers
that have nothing to do; that is left out.

### JoinRoom

`hub` is the registered room object, `objects` numbers all that were created, so
the race of `GetRoom` and `CreateRoom` is in it. A commit and a query are atomic
and may fail. Messages are numbered by time, which is taken before the insert is
committed, so commits may come in another order than timestamps. A broadcast is the inline
loop: a snapshot (`Broadcast`), then one send after the other to those in `todo`, while
others join and leave. When the next one has left in between, the send on its closed
channel panics (`Panic`): the sender's handler ends, `Remove` runs, and who is left in `todo` is
recorded in `skipped`. A handler that ends takes its client's channel and history with it.

### RateLimiter

Each Redis call is a step, and can fail before or after its effect; a restart of
the server can come between any two steps. `ttl[u] = 0` is a key without a TTL.
`life`, `window`, `age` and `orphan` are history. Redis (INCR, key expiry) is
external, modelled by how `isAllowed` uses it.

### TuiClient

A room is its place in the order of names, and sorting is stated as being a sorted list
of the same rooms. `tasks` is a bag: the commands under way, each with what it captured (a command
closes over the copy of the model it was made from), and the messages for
`Update`. Handling a message is one step. Closing the old connection and dialling
the new one is one step, since nothing in between sees more than the closed
connection. The timer and its `reconnectMsg` are one task. The WebSocket library
is external: closing a connection ends the reader that waits on it without an
error, a reader that comes later, or has to share the connection with another,
gets one. The server never closes a connection with the normal status itself: its
write pump's `Close` comes after the read pump's `CloseNow`.

### Typing

Ages in ticks stand for instants: `lastSent` and `typing` for `lastTypingSent` and
`typingUsers`. `screen` is what the last `View` showed, since Bubble Tea renders after an
`Update` and not by the clock; every action of the viewer renders. `Key` is a key
that `Update` has no case for: the check comes before the input gets the key, so the
first key into an empty input sends nothing. `Rerender` stands for every other update,
the create-room form, which hides the line, included. The viewer hears the authors' room
by the model's own connection (`inRoom`) and by `orphans`: when two dials are under way, both
close the connection that was the model's when they were made, and the one that is
replaced by the second `connectedMsg` stays open with its reader (commands.go:94,
update.go:68-76). A reader brings one frame and then goes on with the model's connection, so an orphan
brings as many frames as readers wait on it, at any later time; a frame on its way says by
which connection (`on`). `since`, `lastKey`, `steady` and
`moved` are history.

### Setup

A process is one run of a command. `Start` is `initConfig` and what the command checks
first; `ReadHome` reads the file in the home directory, whichever file `--config`
named, and `SaveAPIKey` opens it for writing, later: two registrations may have read the same
content, and one may write back what another command has changed since. `Truncate` and
`Write` are the two halves of `os.WriteFile`. A config file
is missing, empty, something that does not parse, or has a host or not and a key or
not: two processes that write the same file leave the end of the longer text after
the shorter one (`Over`). A registering process is its own key, as keys are random.
`damaged` is history: a write was cut short by a kill, or fell on a file that `init` had
seen missing.

### Server

`main` walks through `serveCmd` and `ChatServer.Stop`, `starter` through the goroutine
around `ChatServer.Start`; `starter = "set"` is the stretch in which `cs.srv` is still nil.
A connection is one request: `passed` counts the middlewares behind it, `known` has the
requests with a user in the context. Sockets go on after the upgrade as members of a
room, without the HTTP server, and panic when their room's pool has been closed under
them. A room object is named by the connection whose handler created it; `GetRoom` and
`CreateRoom` are two steps, each under the hub's lock, so the second of two first visitors
replaces the object of the first in `hub`, and the first goes on in an object that `Hub.Shutdown`
does not see. `looked` is how far the loop of `Hub.Shutdown` is; `late` and `counted` are history.

## Runs

| Run | Instance | Shows |
|---|---|---|
| `room_one_worker` | 3 connections, pool at 2 members, 1 worker, send channel 1, job channel 2, 2 frames each and in all | the seven safety properties of `Room`, the refinement of `Delivery` among them |
| `room_pool` | 3 connections, pool at 2, 2 workers, all channels 1, 1 frame each, 2 in all | the refinement and no loss off the record with sharding; the pool is started once |
| `room_live` | 2 connections, pool at 2, 2 workers, all channels 1, 1 frame each, shutdown at any time | broadcasts end, accepted jobs are served, shutdown returns |
| `join` | 3 connections, history 2, channel 2, 3 messages, slow readers | history and live messages together, and departures among them: no gap, order, duplicates only of history |
| `limiter` | 1 user, limit 2, window of 3 ticks, 5 requests, 1 fault | the limit, the burst over two windows, who sets the TTL, readmission |
| `tui` | 2 rooms, 1 tick or key, 2 faults, 2 incoming messages | never deaf, never stuck, settles on an open connection |
| `typing` | 1 author, ticks of half a second: pause 4, TTL 8, refresh 10, a key every tick, delay up to 1, 2 frames on their way, 1 orphan | no flicker while somebody types, nobody shown for long after, the right room |
| `setup` | 3 commands of any kind, 2 faults | the key and the host in the config file |
| `server` | 3 connections, 1 room, pool at 2, 2 ticks of grace | exit status, pools, middleware, the end of the process |
| `room_broken_pool`, `join_split`, `tui_selection` | the smallest with the behaviour | see below |

The bounds are the smallest with which the interesting cases happen. Three members
are needed for a sender, a member that leaves and one that comes after it in the
snapshot; a channel of one is full after one message; two workers make two shards,
and three members at a threshold of two cross it while a broadcast is under way. Five
requests are one more than two windows may let through, so the bound of `BurstBound`
is reached. Three commands are two that write and one that reads, or two that register after
an `init`. Three connections of the server are one that is in a handler, and two that cross
the threshold, before or after the rooms are closed. One author is enough for a viewer's
`typingUsers`, whose entries do not touch each other. History 2 of 3 messages makes the limit cut; in `join`
a write pump takes one message at most out of its channel (`SlowReaders`), as a peer may stop reading
at any time: three of those a client is sent find room then, and a fourth does not. In the runs
of `Room` without a shutdown (`UpSpec`) the pool is closed by nobody, and once a message is
stored at most two connections are in the room at a time (`FewWithHistory`): a joiner who
gets a history needs one other to have sent it, who may leave or go on broadcasting to it, while
three members at once are needed for a broadcast with a departure or with two shards, where
typing events do as well. `room_live` has the shutdown, with two connections. What these
bounds cut off is covered by the theorems, which have none of them.
`MaxFrames`, `MaxRead`, `MaxMessages`, `MaxRequests`, `MaxFaults`, `MaxStarts`,
`MaxIncoming`, `MaxOrphans` and `MaxRooms` are bounds of the models and not of the program.
`tui` does not check deadlock because the client may crash (below).

Properties worth a comment:

- `AtMostOnce` counts a message once as a broadcast and once as history, as `Room` joins a
  client before its history is read: a message sent in between comes both ways, also when
  its broadcast was dropped. That this is the only way to get one twice is
  `TwiceOnlyAsHistory` of `JoinRoom`.
- `NoSilentLoss` excepts `LeftBehind`: what a broadcast that broke off in a panic
  had not sent yet, which happens after a departure (room.go:71).
- `SenderOrder` is stated for inline broadcasts and a single worker. With the ten
  workers of the program the shards follow the iteration order of a map, and two
  messages of one sender may overtake each other. Nothing promises otherwise. The history is
  excepted even inline: a broadcast may be in the channel before the older stored messages of its sender are replayed.
- `PoolOnce`: a second pool would not lose jobs, as the first goes on draining its own
  channels, but nothing would ever close those: its goroutines would stay.
- `NoGap` is about clients of the same room object (see `join_split`), and about
  messages that were stored: a failed insert is logged and the message broadcast. It excepts
  `skipped`, what an inline broadcast leaves out that a departure has broken off.
- `Readmitted` excepts a key left without a TTL. INCR and EXPIRE are two calls, and a crash
  or a failed call between them leaves a counter that never goes away: once over
  the limit, the user stays out. `OneKeeper` says exactly when that is.
- `SettlesConnected` says that crossing reconnects and switches come to rest. It
  does not say that only one connection is open: two dials under way leave
  another open, with a reader on it.

- `KeepsShowing` is a statement about the times in the code: it has the condition that
  pause, key gap and delay together stay under the TTL, which the constants of the run
  satisfy. A switch of rooms or a lost frame starts the count anew.
  `Settled` is when steady typing must show: where keys come slower than debounce and delay
  together, two key gaps count, as the first key may meet an empty input. The proof needed this;
  the instance that TLC checks is too fast to tell.
- `ShownWasTyping` gives the time somebody who has stopped may stay on an idle screen:
  delay, TTL and refresh period, 9 s and the delay instead of the TTL's 4 s.
- `RightRoom` allows for the same time after a switch: `connectedMsg` does not clear
  `typingUsers`, so the line names users of the room before. It allows for more where two dials
  have crossed: the connection left open brings typing events of its room at any time, as
  long as a reader waits on it. What it says is that there is no third way, and that the time
  starts with the last of these connections.
- `KeyRegistered` says nothing of the user that a lost answer leaves in the database, whose
  key nobody has: registering again makes another.
- `SavedKeyThere` excepts `damaged`, a kill between the two halves of `os.WriteFile` and
  the moment between `os.Stat` and `os.WriteFile` in `init`; nothing else loses a key, but to
  the key of another registration.
- `StatusTellsTruth` is about a stop that found `cs.srv` set. A signal between `signal.Notify`
  and the first line of `Start` ends the process with status 0 as well.
- `OnlyLatePools`: connections join while the server stops, and start pools that nobody
  closes. The process ends soon after, so nothing comes of it. The other exception is the pool
  of a room object that was replaced in the hub (see `join_split`): started before the stop
  or not, `Hub.Shutdown` does not visit it.

### What the code does and the documents do not say

| Run | Finding |
|---|---|
| `room_broken_pool` | a member that leaves while a broadcast to it is queued in the pool ends the server process |
| `join_split` | two first visitors get two room objects for one room |
| `tui_selection` | a stale room list leaves the selection out of range; Enter panics |

Others were met on the way and need no run of their own to be seen:

- Without a pool, the same departure makes the inline loop panic (room.go:71) in the
  sender's handler: the members after it do not get the message and the sender is
  disconnected. It is what `LeftBehind` in `NoSilentLoss` and `skipped` in `NoGap` stand for.
- When Redis cannot be reached, serve logs "rate limiter disabled" (serve.go:39) and
  installs the nil limiter: every authenticated request panics in `isAllowed`
  (ratelimit.go:84) and is answered with 500. `Limit` of `Server` and `Authenticate` of
  `RateLimiter` have it.
- Any error makes a connected client reconnect, also a failed refresh of the
  room list (update.go:95), where docs/TUI-PRD.md:310 has an error in the sidebar.
- `chatatui init` "Creates ~/.chatatui.toml ... if it does not already exist"
  (init.go:14), but `initConfig` ends every command, this one too, when there is no config
  file to read (root.go:86-88): on a fresh machine it needs `--config` with another
  file, as in `Setup`.
- `chatatui register --config f` reads the host from `f` and saves the key to
  `~/.chatatui.toml` (register.go:81).

## Fairness

`Room`: weak fairness of each handler's own steps, of each worker and of a shutdown
that has begun, because the Go scheduler runs what can run and none of these waits for
a peer. No fairness for peers (who may never send) nor for write pumps (a peer that
does not read blocks its pump). `RateLimiter`: time passes, and every Redis call
returns, as the client library has timeouts. `TuiClient`: the runtime runs
commands and hands over messages; a step of either uses up a task and starts at most one,
and failures and arrivals are bounded, so one condition for all of them is enough. `Server`: the
main goroutine runs when it can, and time passes; nothing is assumed of requests, which
may hang. `JoinRoom`, `Setup` and `Typing` have no liveness property and no fairness: what
`Typing` says of time is said with ages.

## What is proved

The theorems hold for every value of the constants that the modules' assumptions allow;
TLC evaluates the assumptions in every run. An invariant is proved through an inductive
one, given here where it is more than the property with the types.

**`RoomProofs`**

- `TypeCorrect`: `Spec => [](TypeOK /\ HasFrame)`. The message that a broadcasting handler
  sends carries the number of the last frame read, which is a legal number only if a frame
  has been read. `HasFrame` says so.
- `ChannelsOpen`: `Spec => []ChannelsOpenWhileMember`. Only `Add` and `Remove`
  touch what it relates, and a handler's panic leads to `leaving`, never past it.
- `NothingStranded`: `Spec => []NoStrandedJob`. `Submit` panics on a closed channel, a worker
  returns only from a closed and empty one, and a pool is created once, so
  that no channel is opened again.
- `OnePool`: `Spec => []PoolOnce`. The check under the lock is all it takes, however many
  handlers have seen no pool before.
- `ShardsInRange`: `Spec => []ShardInRange`. The strengthening bounds
  what is left of the snapshot by the shards that are left:
  `Cardinality(todo) <= (WorkerCount - shard + 1) * chunk`. It rests on two lemmas
  of arithmetic and cardinality (`ChunksCover`, `OneShardLess`).

**`RoomDeliveryProofs`**

- `NothingTwice`: `Spec => []AtMostOnce`. What is about of a broadcast for one client is in
  one place only: with the handler that broadcasts it, in one job of one worker's channel, in
  one worker's hands, in the send channel, or written. Of a stored message it is the same with
  two invariants of its own (`HistoryInv`): it is still to be replayed, in the channel or
  written, and nothing of it is there before the client is in its replay. The kinds of messages keep the
  two apart (`KindsApart`).
- `NothingLost`: `Spec => []NoSilentLoss`, and what is about is owed.
- `RoomDelivers`: `Spec => Promise`, the step simulation of `Delivery`: joining, leaving,
  publishing, delivering, dropping, answering and reminding are one action each, and every
  other step stutters. A stored message that is written is a reminder (`Remind`) of something
  somebody else sent: that it is never the client's own needs that nobody has read a frame
  before its replay.
- `SendersInOrder`: `Spec => []SenderOrder`, of broadcasts; the history is left out of the
  order. The inductive `OrderInv` orders the places a
  message passes: what a client has of a sender is older than what the workers have for it,
  and that is older than what the sender's handler still has; a worker's jobs are oldest first;
  before the pool exists no worker has anything. Where there are several workers the first
  of these fails and the rest does not: `WorkersInOrder` states what is left.
- Nobody gets stuck, which is what `BroadcastEnds`, `JobsServed` and `ShutdownReturns` say
  without time. A broadcasting handler always has somebody to serve next
  (`BroadcastGoesOn`: a shard of the size `Submit` takes exists) and every turn leaves
  fewer (`BroadcastShrinks`). A worker with a job can work (`WorkersGoOn`). A shutdown that closes
  the pool can close the next channel or return, or a worker it waits for can work
  (`ShutdownGoesOn`, by `ClosedInOrder`: the closed channels are those up to some worker);
  and a closed channel only drains (`ClosedDrains`). Fairness adds to each of them only that
  what can run does.

**`JoinRoomProofs`**

- `TypeCorrectness`: `Spec => []TypeOK`, with `Control` (a handler past `create` has its
  room object, one that persists or broadcasts has a message, one before the query has no
  history) and `Stamps` (no two messages have one stamp, and none is of the future).
- `NothingMissed`: `Spec => []NoGap`, with `Member`: whoever may read the history is in its
  room object's members, so that the snapshot of a message committed after the query has it: the
  message is then still to be sent to it, in its channel, dropped on the record, or `skipped`.
  What the query cuts off is older than everything it returns, and there are
  `HistoryLimit` of those.
- `OldestFirst` (`HistoryOldestFirst`) and `TwiceAtMost` (`TwiceOnlyAsHistory`) share one
  invariant: the history is strictly by stamp (`Descends`), a message is in the channel at
  most once for its broadcast and once for the history (`Counts`), and what was
  sent of the history is there in order or was dropped (`InOrder`).

**`TuiClientProofs`**: `TypeCorrectness` (`TypeOK`), `Hears` (`NeverDeaf`) and `Tries`
(`KeepsTrying`). The strengthening says that while anything listens there is a
connection, and that a client which shows a connection or a reconnect has a room to go
back to. The two properties are then inductive: a step that takes away the listener, or the
attempt, puts the message or the timer that follows in its place. `RestsConnected` is the
part of `SettlesConnected` that is not about time: where nothing but listeners on open connections
is left, a client that has ever been connected is.

**`RateLimiterProofs`**: `TypeCorrect`, `KeepersAreSingle` (`OneKeeper`), `LimitKept`
(`WithinLimit`) and `BurstKept` (`BurstBound`). Requests counted in one life of a counter
carry different numbers, so those served are no more than `MaxReqs`; a window's length
spans at most two lives. `WindowIsFixed` is the action property behind `Readmitted`: nothing
prolongs a window that has begun, because an `Expire` under way meets no key with a TTL.

**`ServerProofs`**: `TypeCorrect`, `ExitStatus`, `LatePools` and `Counted`.
`LatePools` rests on `Created` (a handler that is about to create an object creates a new one,
which nobody is in and which has no pool) and on `LookedShut`, which says of each object that the loop
has been at what `OnlyLatePools` says of all of them at the end. `Counted` needs that a request past authentication is known, and one past the limiter
counted, by its place in the chain. `StopGoesOn` is the part of `StopEnds` that is not about
time: a stop only goes forward, through finitely many rooms (the hub's lock keeps others out)
and ticks.

**`SetupProofs`**: `TypeCorrect`, `KeysRegistered`, `SavedKeyStays` and `HostStays`. The
strengthening relates what each process has read or is about to write to the users and to
the files: a key that is anywhere, a text that was read long ago included, has its user; and the
text a registration is about to write has its own key, and a host exactly when the file has one or
is about to get one back, however long ago it was read (`Draft`).

**`TypingProofs`**: `TypeCorrect`, `ShownHaveTyped` (`ShownWasTyping`), `RoomIsRight`
(`RightRoom`) and `ShowsSteadily` (`KeepsShowing`). The ages are tied together: an entry of
`typingUsers` is no older than the event it comes from, less the delay, and what is on the screen
no older than the last refresh. `RoomIsRight` needs that of the time since anything
was last heard (`MovedInv`). For the last, whoever types steadily has only just begun,
or sent an event that is about to be shown, or is on the screen until the next event has come.

Only model-checked: the liveness properties `BroadcastEnds`, `JobsServed`, `ShutdownReturns`,
`Readmitted`, `SettlesConnected` and `StopEnds`. Liveness under fairness is out of the
prover's reach; what each of them rests on besides fairness is proved, as said above.

## Not modelled

- The texts of messages, JSON, the layout of the client; the length of the backoff; logging;
  HTTP itself. Validation of a request is one refusal.
- Environment variables and the defaults of `config.go`; `.env` and container files.
- Repositories beyond the operations that have callers, each of which is one statement;
  the migration and the connection pool of Postgres. `Hub.Add`, `Hub.Remove` and
  `Hub.Broadcast` have no caller. As nothing calls `Hub.Remove`, rooms, replaced ones too, and the
  goroutines of their pools stay until the process ends.
- The data races on `broadcastPool` and `cs.srv` (words read without the lock) are modelled as reads
  of the current value; the one on `len(h.Rooms)` (ws_handler.go:27) only reaches a log line.
- How many connections and reconnect loops the terminal client has at a time: `Typing` has what
  an orphan shows on the typing line, and messages shown in another room have no property. That a reconnect takes a user who has switched rooms back
  (update.go:101), that an own message is shown before it is written (update.go:172) and
  that a second Enter creates a second room (update.go:160) are in the model, or follow from it, but
  no document says otherwise, and no property judges them.
- Tests and mocks.
