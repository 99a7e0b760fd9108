-------------------------------- MODULE Server --------------------------------
(***************************************************************************)
(* The life of the server process, from chatatui serve to its end: the     *)
(* main goroutine, the goroutine that listens, the requests they accept    *)
(* with the middleware on their way, and the graceful stop, which closes   *)
(* the worker pools of all rooms under the hub's lock and then gives the   *)
(* requests in progress the rest of ten seconds.                           *)
(*                                                                         *)
(* A request is handled by a goroutine of its own; one for /ws leaves the  *)
(* HTTP server's care when it is upgraded (hijacked) and lives on as a     *)
(* member of a room.  A hub.Room object is named by the connection whose   *)
(* handler created it: two handlers that both find no object for a room    *)
(* create one each, and Hub.Rooms keeps the later.  A broadcast is one     *)
(* step, the pool's threshold is PoolThreshold members, and a pool that is *)
(* closed is closed at once: what happens inside is the subject of Room.   *)
(***************************************************************************)
EXTENDS Integers, Sequences, FiniteSets

CONSTANTS Conns,          \* the connections, one request each
          Rooms,          \* the rooms there are in the database
          PoolThreshold,  \* members at which a room's pool is started (10)
          Grace           \* the ten seconds of serve.go, in clock ticks

ASSUME SetsAssumption   == IsFiniteSet(Conns) /\ IsFiniteSet(Rooms)
ASSUME LimitsAssumption == PoolThreshold \in Nat \ {0} /\ Grace \in Nat

VARIABLES
  main,      \* control state of the main goroutine
  starter,   \* control state of the goroutine that runs ChatServer.Start
  exit,      \* how the process ended
  quit,      \* the channel quit has had a signal
  found,     \* Stop found cs.srv set
  elapsed,   \* ticks since the deadline was set
  limiter,   \* Handler.RateLimiter: "on", or "nil"
  hub,       \* Hub.Rooms: the objects it holds
  pool,      \* pool[o]: broadcastPool of the object o
  looked,    \* the objects that Hub.Shutdown has dealt with
  late,      \* history: objects whose pool was started after Hub.Shutdown
  at,        \* control state of each connection's handler
  kind,      \* kind[c]: the route
  room,      \* room[c]: the room of a socket
  object,    \* object[c]: the object that its handler got from the hub
  passed,    \* passed[c]: how many middlewares let the request through
  known,     \* the requests with a user in their context
  counted    \* history: the requests the rate limiter has counted

mainVars == <<main, exit, quit, found, elapsed>>
hubVars  == <<hub, pool, looked, late>>
connVars == <<at, kind, room, object, passed, known, counted>>
vars == <<mainVars, starter, limiter, hubVars, connVars>>

Init ==
  /\ main = "limiter"
  /\ starter = "off"
  /\ exit = "none"
  /\ quit = FALSE
  /\ found = FALSE
  /\ elapsed = 0
  /\ limiter = "nil"
  /\ hub = {}
  /\ pool = [c \in Conns |-> "none"]
  /\ looked = {}
  /\ late = {}
  /\ at = [c \in Conns |-> "new"]
  /\ kind = [c \in Conns |-> "open"]
  /\ room \in [Conns -> Rooms]
  /\ object = [c \in Conns |-> c]
  /\ passed = [c \in Conns |-> 0]
  /\ known = {}
  /\ counted = {}

Up == exit = "none"

-------------------------------------------------------------------------------
(* The main goroutine: serveCmd.                                           *)

\* Redis is asked once; without it the limiter is nil, and that is logged.
NewLimiter ==
  /\ Up /\ main = "limiter"
  /\ limiter' \in {"on", "nil"}
  /\ main' = "database"
  /\ UNCHANGED <<exit, quit, found, elapsed, starter, hubVars, connVars>>

OpenDatabase ==
  /\ Up /\ main = "database"
  /\ \/ main' = "spawn" /\ UNCHANGED exit
     \/ exit' = "error" /\ UNCHANGED main
  /\ UNCHANGED <<quit, found, elapsed, starter, limiter, hubVars, connVars>>

Spawn ==
  /\ Up /\ main = "spawn"
  /\ starter' = "set"
  /\ main' = "notify"
  /\ UNCHANGED <<exit, quit, found, elapsed, limiter, hubVars, connVars>>

Notify ==
  /\ Up /\ main = "notify"
  /\ main' = "wait"
  /\ UNCHANGED <<exit, quit, found, elapsed, starter, limiter, hubVars, connVars>>

\* SIGINT or SIGTERM: fatal before signal.Notify; afterwards it goes to quit, and
\* any further one waits there unread.
Signal ==
  /\ Up /\ ~quit
  /\ IF main \in {"wait", "hub", "http"}
     THEN quit' = TRUE /\ UNCHANGED exit
     ELSE exit' = "killed" /\ UNCHANGED quit
  /\ UNCHANGED <<main, found, elapsed, starter, limiter, hubVars, connVars>>

\* The deadline is set and Hub.Shutdown takes the hub's lock.
StopBegins ==
  /\ Up /\ main = "wait" /\ quit
  /\ main' = "hub"
  /\ UNCHANGED <<exit, quit, found, elapsed, starter, limiter, hubVars, connVars>>

\* Room.Shutdown of one object after the other.
ShutRoom(o) ==
  /\ Up /\ main = "hub"
  /\ o \in hub \ looked
  /\ looked' = looked \cup {o}
  /\ pool' = [pool EXCEPT ![o] = IF @ = "on" THEN "closed" ELSE @]
  /\ UNCHANGED <<mainVars, starter, limiter, hub, late, connVars>>

\* Mutant: rooms without members are skipped.
Occupied == {o \in hub : \E c \in Conns : at[c] = "member" /\ object[c] = o}
ToShut == hub

\* Stop reads cs.srv, which the other goroutine may not have set yet.
HubDone ==
  /\ Up /\ main = "hub"
  /\ ToShut \subseteq looked
  /\ IF starter = "set"
     THEN exit' = "ok" /\ UNCHANGED <<main, found>>
     ELSE main' = "http" /\ found' = TRUE /\ UNCHANGED exit
  /\ UNCHANGED <<quit, elapsed, starter, limiter, hubVars, connVars>>

\* The requests that http.Server.Shutdown waits for.  Mutant: Close for Shutdown.
NobodyActive == {}
Active == {c \in Conns : at[c] = "handling"}

HttpDone ==
  /\ Up /\ main = "http"
  /\ Active = {}
  /\ exit' = "ok"
  /\ UNCHANGED <<main, quit, found, elapsed, starter, limiter, hubVars, connVars>>

\* Mutant: context.Background() for the context with the timeout.
NeverOver == FALSE
DeadlineOver == elapsed = Grace

\* The context is done first: "graceful shutdown failed".
GiveUp ==
  /\ Up /\ main = "http"
  /\ Active # {} /\ DeadlineOver
  /\ exit' = "error"
  /\ UNCHANGED <<main, quit, found, elapsed, starter, limiter, hubVars, connVars>>

\* Time counts from the moment the deadline is set.
Tick ==
  /\ Up /\ main \in {"hub", "http"}
  /\ elapsed < Grace
  /\ elapsed' = elapsed + 1
  /\ UNCHANGED <<main, exit, quit, found, starter, limiter, hubVars, connVars>>

-------------------------------------------------------------------------------
(* The listening goroutine: ChatServer.Start.                              *)

\* cs.srv is set.
SetServer ==
  /\ Up /\ starter = "set"
  /\ starter' = "listen"
  /\ UNCHANGED <<mainVars, limiter, hubVars, connVars>>

\* The port is taken, which ends the process; or the server has been shut down
\* already (ErrServerClosed); or it serves.
Listen ==
  /\ Up /\ starter = "listen"
  /\ \/ main = "http" /\ starter' = "closed" /\ UNCHANGED exit
     \/ main # "http" /\ starter' = "serving" /\ UNCHANGED exit
     \/ main # "http" /\ exit' = "error" /\ UNCHANGED starter
  /\ UNCHANGED <<main, quit, found, elapsed, limiter, hubVars, connVars>>

\* ListenAndServe returns: because of Shutdown, or because accepting fails.
ServeReturns ==
  /\ Up /\ starter = "serving"
  /\ IF main = "http" THEN starter' = "closed" /\ UNCHANGED exit
                      ELSE exit' = "error" /\ UNCHANGED starter
  /\ UNCHANGED <<main, quit, found, elapsed, limiter, hubVars, connVars>>

-------------------------------------------------------------------------------
(* Requests: the router, and WSHandler as far as it concerns the hub.      *)

\* Shutdown closes the listener before anything else.
Accept(c, k, r) ==
  /\ Up /\ starter = "serving" /\ main # "http"
  /\ at[c] = "new"
  /\ at' = [at EXCEPT ![c] = "handling"]
  /\ kind' = [kind EXCEPT ![c] = k]
  /\ room' = [room EXCEPT ![c] = r]
  /\ UNCHANGED <<mainVars, starter, limiter, hubVars, object, passed, known, counted>>

\* POST /register is open; the other routes are in the group.  Mutants: the
\* middlewares in the other order; the limiter on the whole router as well.
SwappedChain(c) == IF kind[c] = "open" THEN <<>> ELSE <<"limit", "auth">>
LimitedTwice(c) == IF kind[c] = "open" THEN <<"limit">> ELSE <<"limit", "auth", "limit">>
Chain(c)        == IF kind[c] = "open" THEN <<>> ELSE <<"auth", "limit">>

\* A middleware lets c through.
Pass(c) == passed' = [passed EXCEPT ![c] = @ + 1] /\ UNCHANGED at

\* A middleware or a handler answers with an error, a panic recovered included.
Refuse(c) == at' = [at EXCEPT ![c] = "refused"] /\ UNCHANGED passed

\* APIKeyAuth puts the user into the request's context.
APIKeyAuth(c) ==
  \/ Pass(c) /\ known' = known \cup {c} /\ UNCHANGED counted
  \/ Refuse(c) /\ UNCHANGED <<known, counted>>

\* RateLimiter.Middleware.  A request without a user is none of its business; a nil
\* limiter panics on one that has a user.
Limit(c) ==
  IF c \notin known THEN Pass(c) /\ UNCHANGED <<known, counted>>
  ELSE /\ UNCHANGED known
       /\ IF limiter = "nil" THEN Refuse(c) /\ UNCHANGED counted
                             ELSE (Pass(c) \/ Refuse(c)) /\ counted' = counted \cup {c}

Middleware(c) ==
  /\ Up /\ at[c] = "handling" /\ passed[c] < Len(Chain(c))
  /\ IF Chain(c)[passed[c] + 1] = "auth" THEN APIKeyAuth(c) ELSE Limit(c)
  /\ UNCHANGED <<mainVars, starter, limiter, hubVars, kind, room, object>>

InHandler(c) == Up /\ at[c] = "handling" /\ passed[c] = Len(Chain(c))

\* RegisterHandler and RoomsHandler answer; WSHandler finds no such room.
Answer(c) ==
  /\ InHandler(c)
  /\ at' = [at EXCEPT ![c] = IF kind[c] = "socket" THEN "refused" ELSE "answered"]
  /\ UNCHANGED <<mainVars, starter, limiter, hubVars, kind, room, object, passed,
                 known, counted>>

\* websocket.Accept takes the connection over.
Upgrade(c) ==
  /\ InHandler(c) /\ kind[c] = "socket"
  /\ at' = [at EXCEPT ![c] = "upgraded"]
  /\ UNCHANGED <<mainVars, starter, limiter, hubVars, kind, room, object, passed,
                 known, counted>>

\* Hub.GetRoom, under the hub's lock.
GetRoom(c) ==
  /\ Up /\ at[c] = "upgraded" /\ main # "hub"
  /\ \/ \E o \in hub : /\ room[o] = room[c]
                      /\ object' = [object EXCEPT ![c] = o]
                      /\ at' = [at EXCEPT ![c] = "entered"]
     \/ /\ \A o \in hub : room[o] # room[c]
        /\ at' = [at EXCEPT ![c] = "creating"]
        /\ UNCHANGED object
  /\ UNCHANGED <<mainVars, starter, limiter, hubVars, kind, room, passed, known, counted>>

\* Hub.CreateRoom, under the lock once more: a new object, in the place of any
\* that another handler has put there meanwhile.
CreateRoom(c) ==
  /\ Up /\ at[c] = "creating" /\ main # "hub"
  /\ hub' = {o \in hub : room[o] # room[c]} \cup {c}
  /\ object' = [object EXCEPT ![c] = c]
  /\ at' = [at EXCEPT ![c] = "entered"]
  /\ UNCHANGED <<mainVars, starter, limiter, pool, looked, late, kind, room, passed,
                 known, counted>>

Members(o) == {c \in Conns : at[c] \in {"activating", "member"} /\ object[c] = o}

\* Room.Add: only the room's lock.
Add(c) ==
  /\ Up /\ at[c] = "entered"
  /\ at' = [at EXCEPT ![c] =
              IF /\ Cardinality(Members(object[c])) + 1 >= PoolThreshold
                 /\ pool[object[c]] = "none"
              THEN "activating" ELSE "member"]
  /\ UNCHANGED <<mainVars, starter, limiter, hubVars, kind, room, object, passed,
                 known, counted>>

\* Room.activatePool.  An object that Hub.Shutdown has passed keeps this pool.
Activate(c) ==
  LET o == object[c] IN
  /\ Up /\ at[c] = "activating"
  /\ at' = [at EXCEPT ![c] = "member"]
  /\ IF pool[o] # "none" THEN UNCHANGED <<pool, late>>
     ELSE /\ pool' = [pool EXCEPT ![o] = "on"]
          /\ late' = IF main = "http" \/ o \in looked THEN late \cup {o} ELSE late
  /\ UNCHANGED <<mainVars, starter, limiter, hub, looked, kind, room, object, passed,
                 known, counted>>

\* A broadcast to a closed pool panics in Submit, in the sender's handler: the
\* connection is removed from the room and closed.  Any other changes nothing here.
SendOnClosed(c) ==
  /\ Up /\ at[c] = "member"
  /\ pool[object[c]] = "closed" /\ Members(object[c]) # {c}
  /\ at' = [at EXCEPT ![c] = "left"]
  /\ UNCHANGED <<mainVars, starter, limiter, hubVars, kind, room, object, passed,
                 known, counted>>

\* The peer goes: Room.Remove.
Leave(c) ==
  /\ Up /\ at[c] = "member"
  /\ at' = [at EXCEPT ![c] = "left"]
  /\ UNCHANGED <<mainVars, starter, limiter, hubVars, kind, room, object, passed,
                 known, counted>>

Ended == ~Up /\ UNCHANGED vars

MainStep == \/ NewLimiter \/ OpenDatabase \/ Spawn \/ Notify \/ StopBegins
            \/ (\E o \in Conns : ShutRoom(o)) \/ HubDone \/ HttpDone \/ GiveUp
StarterStep == SetServer \/ Listen \/ ServeReturns
Request(c) == \/ \E k \in {"open", "rest", "socket"}, r \in Rooms : Accept(c, k, r)
              \/ Middleware(c) \/ Answer(c) \/ Upgrade(c)
Socket(c) == GetRoom(c) \/ CreateRoom(c) \/ Add(c) \/ Activate(c) \/ SendOnClosed(c) \/ Leave(c)

Next == \/ MainStep
        \/ StarterStep
        \/ Signal
        \/ Tick
        \/ \E c \in Conns : Request(c) \/ Socket(c)
        \/ Ended

Spec == Init /\ [][Next]_vars

\* The main goroutine runs when it can, and time goes on.  Nothing is assumed of
\* the requests: a database call may hang for ever.
FairSpec == Spec /\ WF_vars(MainStep) /\ WF_vars(Tick)

-------------------------------------------------------------------------------
(* Properties.                                                             *)

\* Every variable keeps its type.
TypeOK ==
  /\ main \in {"limiter", "database", "spawn", "notify", "wait", "hub", "http"}
  /\ starter \in {"off", "set", "listen", "serving", "closed"}
  /\ exit \in {"none", "ok", "error", "killed"}
  /\ quit \in BOOLEAN /\ found \in BOOLEAN
  /\ elapsed \in 0..Grace
  /\ limiter \in {"on", "nil"}
  /\ hub \subseteq Conns /\ looked \subseteq Conns /\ late \subseteq Conns
  /\ pool \in [Conns -> {"none", "on", "closed"}]
  /\ at \in [Conns -> {"new", "handling", "answered", "refused", "upgraded", "creating",
                       "entered", "activating", "member", "left"}]
  /\ object \in [Conns -> Conns]
  /\ kind \in [Conns -> {"open", "rest", "socket"}]
  /\ room \in [Conns -> Rooms]
  /\ passed \in [Conns -> 0..2]
  /\ known \subseteq Conns /\ counted \subseteq Conns

\* The exit status of a stop that found the HTTP server tells the truth: 0 when
\* no request was cut off, whenever it was accepted (also while the rooms were
\* being closed), and 1 when the deadline came first (serve.go:64-70,
\* server.go:35-45).
StatusTellsTruth ==
  found /\ exit \in {"ok", "error"} =>
    IF \E c \in Conns : at[c] = "handling" THEN exit = "error" /\ elapsed = Grace
                                           ELSE exit = "ok"

\* When Hub.Shutdown has been through the rooms, a pool that still runs was started
\* afterwards, by somebody who joined during the stop, or is of an object that another
\* one has replaced in Hub.Rooms: every other pool is closed, whoever was just creating,
\* joining or leaving (hub.go:32, hub.go:75-82, room.go:34, room.go:95).
OnlyLatePools ==
  found => \A o \in Conns : pool[o] = "on" => o \in late \/ o \notin hub

\* What gets through to the handler of a guarded route has a user and has been
\* counted against that user's limit (handler.go:56-60).
GuardedCounted ==
  \A c \in Conns :
    kind[c] # "open" /\ at[c] \notin {"new", "handling", "refused"}
      => c \in known /\ c \in counted

\* A signal ends the process, however many requests hang and whatever the rooms
\* are doing.
StopEnds == quit ~> ~Up
===============================================================================
