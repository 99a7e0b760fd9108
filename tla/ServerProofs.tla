----------------------------- MODULE ServerProofs -----------------------------
(***************************************************************************)
(* Proofs about Server: its safety invariants, for any number of           *)
(* connections and rooms, any threshold and any deadline.                  *)
(***************************************************************************)
EXTENDS Server, TLAPS

-------------------------------------------------------------------------------
(* The middleware.                                                         *)

\* An open route has no middleware, any other the two of handler.go:56-57.
LEMMA ChainIs ==
  ASSUME NEW c \in Conns
  PROVE  /\ kind[c] = "open" => Len(Chain(c)) = 0
         /\ kind[c] # "open" => /\ Len(Chain(c)) = 2
                                /\ Chain(c)[1] = "auth"
                                /\ Chain(c)[2] = "limit"
  BY DEF Chain

\* A middleware lets one request one step further, or answers it, and touches no
\* other request.
LEMMA MiddlewareStep ==
  ASSUME TypeOK, NEW c \in Conns, Middleware(c)
  PROVE  /\ passed[c] \in 0..1 /\ kind[c] # "open" /\ at[c] = "handling"
         /\ known' \in SUBSET Conns /\ counted' \in SUBSET Conns
         /\ known \subseteq known' /\ counted \subseteq counted'
         /\ \/ /\ passed' = [passed EXCEPT ![c] = @ + 1] /\ UNCHANGED at
               /\ passed[c] = 0 => c \in known'
               /\ passed[c] = 1 /\ c \in known => c \in counted'
            \/ at' = [at EXCEPT ![c] = "refused"] /\ UNCHANGED passed
<1>1. passed[c] \in 0..1 /\ kind[c] # "open" /\ at[c] = "handling"
  BY ChainIs DEF Middleware, TypeOK
<1>2. CASE passed[c] = 0
  BY <1>1, <1>2, ChainIs DEF Middleware, APIKeyAuth, Pass, Refuse, TypeOK
<1>3. CASE passed[c] = 1
  BY <1>1, <1>3, ChainIs DEF Middleware, Limit, Pass, Refuse, TypeOK
<1> QED
  BY <1>1, <1>2, <1>3

-------------------------------------------------------------------------------
(* The types.                                                              *)

LEMMA TypeStep ==
  ASSUME TypeOK, [Next]_vars
  PROVE  TypeOK'
<1> USE DEF mainVars, hubVars, connVars
<1>1. ASSUME MainStep PROVE TypeOK'
  <2>1. CASE NewLimiter \/ OpenDatabase \/ Spawn \/ Notify \/ StopBegins
    BY <2>1 DEF NewLimiter, OpenDatabase, Spawn, Notify, StopBegins, TypeOK
  <2>2. ASSUME NEW o \in Conns, ShutRoom(o) PROVE TypeOK'
    BY <2>2 DEF ShutRoom, TypeOK
  <2>3. CASE HubDone \/ HttpDone \/ GiveUp
    BY <2>3 DEF HubDone, HttpDone, GiveUp, TypeOK
  <2> QED
    BY <1>1, <2>1, <2>2, <2>3 DEF MainStep
<1>2. ASSUME StarterStep PROVE TypeOK'
  BY <1>2 DEF StarterStep, SetServer, Listen, ServeReturns, TypeOK
<1>3. ASSUME Signal PROVE TypeOK'
  BY <1>3 DEF Signal, TypeOK
<1>4. ASSUME Tick PROVE TypeOK'
  <2>1. elapsed' \in 0..Grace
    BY <1>4, LimitsAssumption DEF Tick, TypeOK
  <2> QED
    BY <1>4, <2>1 DEF Tick, TypeOK
<1>5. ASSUME NEW c \in Conns, Request(c) PROVE TypeOK'
  <2>1. ASSUME NEW k \in {"open", "rest", "socket"}, NEW r \in Rooms, Accept(c, k, r)
        PROVE  TypeOK'
    BY <2>1 DEF Accept, TypeOK
  <2>2. CASE Middleware(c)
    <3>1. passed' \in [Conns -> 0..2]
      BY <2>2, MiddlewareStep DEF TypeOK
    <3>2. at' \in [Conns -> {"new", "handling", "answered", "refused", "upgraded",
                             "creating", "entered", "activating", "member", "left"}]
      BY <2>2, MiddlewareStep DEF TypeOK
    <3>3. known' \subseteq Conns /\ counted' \subseteq Conns
      BY <2>2, MiddlewareStep
    <3> QED
      BY <2>2, <3>1, <3>2, <3>3 DEF Middleware, TypeOK
  <2>3. CASE Answer(c)
    BY <2>3 DEF Answer, TypeOK
  <2>4. CASE Upgrade(c)
    BY <2>4 DEF Upgrade, TypeOK
  <2> QED
    BY <1>5, <2>1, <2>2, <2>3, <2>4 DEF Request
<1>6. ASSUME NEW c \in Conns, Socket(c) PROVE TypeOK'
  <2>1. CASE GetRoom(c)
    BY <2>1 DEF GetRoom, TypeOK
  <2>5. CASE CreateRoom(c) \/ Add(c)
    BY <2>5 DEF CreateRoom, Add, TypeOK
  <2>2. CASE Activate(c)
    BY <2>2 DEF Activate, TypeOK
  <2>3. CASE SendOnClosed(c)
    BY <2>3 DEF SendOnClosed, TypeOK
  <2>4. CASE Leave(c)
    BY <2>4 DEF Leave, TypeOK
  <2> QED
    BY <1>6, <2>1, <2>2, <2>3, <2>4, <2>5 DEF Socket
<1>7. ASSUME UNCHANGED vars PROVE TypeOK'
  BY <1>7 DEF vars, TypeOK
<1> QED
  BY <1>1, <1>2, <1>3, <1>4, <1>5, <1>6, <1>7 DEF Next, Ended

\* Every variable keeps its type.
THEOREM TypeCorrect == Spec => []TypeOK
<1>1. Init => TypeOK
  <2> SUFFICES ASSUME Init PROVE TypeOK
    OBVIOUS
  <2>1. elapsed \in 0..Grace /\ passed \in [Conns -> 0..2]
    BY LimitsAssumption DEF Init
  <2>2. /\ pool \in [Conns -> {"none", "on", "closed"}]
        /\ at \in [Conns -> {"new", "handling", "answered", "refused", "upgraded",
                             "creating", "entered", "activating", "member", "left"}]
        /\ kind \in [Conns -> {"open", "rest", "socket"}]
    BY DEF Init
  <2> QED
    BY <2>1, <2>2 DEF Init, TypeOK
<1>2. TypeOK /\ [Next]_vars => TypeOK'
  BY TypeStep
<1> QED
  BY <1>1, <1>2, PTL DEF Spec

-------------------------------------------------------------------------------
(* The end of the process.                                                 *)

\* Stop has found the HTTP server exactly when it waits for it.
FoundInHttp == found <=> main = "http"

\* The exit status of a stop that found the HTTP server is 0 when no request was
\* cut off, and 1 when the deadline came first (serve.go:64-70, server.go:35-45).
THEOREM ExitStatus == Spec => []StatusTellsTruth
<1> DEFINE Inv == FoundInHttp /\ StatusTellsTruth
<1>1. Init => Inv
  BY DEF Init, FoundInHttp, StatusTellsTruth
<1>2. TypeOK /\ Inv /\ [Next]_vars => Inv'
  <2> SUFFICES ASSUME TypeOK, Inv, [Next]_vars PROVE Inv'
    OBVIOUS
  <2> USE DEF FoundInHttp, StatusTellsTruth, TypeOK, mainVars, hubVars, connVars, Up
  <2>1. ASSUME MainStep PROVE Inv'
    <3>1. CASE NewLimiter \/ OpenDatabase \/ Spawn \/ Notify \/ StopBegins
      BY <3>1 DEF NewLimiter, OpenDatabase, Spawn, Notify, StopBegins
    <3>2. CASE \E o \in Conns : ShutRoom(o)
      BY <3>2 DEF ShutRoom
    <3>3. CASE HubDone
      BY <3>3 DEF HubDone
    <3>4. CASE HttpDone
      BY <3>4 DEF HttpDone, Active
    <3>5. CASE GiveUp
      BY <3>5 DEF GiveUp, Active, DeadlineOver
    <3> QED
      BY <2>1, <3>1, <3>2, <3>3, <3>4, <3>5 DEF MainStep
  <2>2. ASSUME StarterStep PROVE Inv'
    BY <2>2 DEF StarterStep, SetServer, Listen, ServeReturns
  <2>3. ASSUME Signal \/ Tick PROVE Inv'
    BY <2>3 DEF Signal, Tick
  <2>4. ASSUME NEW c \in Conns, Request(c) PROVE Inv'
    BY <2>4 DEF Request, Accept, Middleware, InHandler, Answer, Upgrade
  <2>5. ASSUME NEW c \in Conns, Socket(c) PROVE Inv'
    BY <2>5 DEF Socket, GetRoom, CreateRoom, Add, Activate, SendOnClosed, Leave
  <2>6. ASSUME UNCHANGED vars PROVE Inv'
    BY <2>6 DEF vars
  <2> QED
    BY <2>1, <2>2, <2>3, <2>4, <2>5, <2>6 DEF Next, Ended
<1> QED
  BY <1>1, <1>2, TypeCorrect, PTL DEF Spec

-------------------------------------------------------------------------------
(* The pools.                                                              *)

\* Where a handler is that has its object from the hub.
Placed == {"entered", "activating", "member", "left"}

\* An object that is in the hub, has a pool or is somebody's was created by a handler
\* that is past that point, so a handler about to create one has a new one.
Created == /\ \A o \in Conns : pool[o] # "none" \/ o \in hub => at[o] \in Placed
           /\ \A c \in Conns : at[c] \in Placed => at[object[c]] \in Placed

\* What Hub.Shutdown has been to has no pool but a late one, nor has any other object
\* of Hub.Rooms when it is through.
LookedShut == \A o \in Conns :
  pool[o] = "on" /\ (o \in looked \/ (main = "http" /\ o \in hub)) => o \in late

PoolInv == FoundInHttp /\ Created /\ LookedShut

LEMMA PoolStep ==
  ASSUME TypeOK, PoolInv, [Next]_vars
  PROVE  PoolInv'
<1> USE DEF PoolInv, FoundInHttp, Created, LookedShut, Placed, TypeOK, mainVars, hubVars, connVars, Up
<1>1. ASSUME MainStep PROVE PoolInv'
  <2>1. CASE NewLimiter \/ OpenDatabase \/ Spawn \/ Notify \/ StopBegins
    BY <2>1 DEF NewLimiter, OpenDatabase, Spawn, Notify, StopBegins
  <2>2. ASSUME NEW o \in Conns, ShutRoom(o) PROVE PoolInv'
    BY <2>2 DEF ShutRoom
  <2>3. CASE HubDone
    BY <2>3 DEF HubDone, ToShut
  <2>4. CASE HttpDone \/ GiveUp
    BY <2>4 DEF HttpDone, GiveUp
  <2> QED
    BY <1>1, <2>1, <2>2, <2>3, <2>4 DEF MainStep
<1>2. ASSUME StarterStep \/ Signal \/ Tick PROVE PoolInv'
  BY <1>2 DEF StarterStep, SetServer, Listen, ServeReturns, Signal, Tick
<1>3. ASSUME NEW c \in Conns, Request(c) PROVE PoolInv'
  <2>1. ASSUME NEW k \in {"open", "rest", "socket"}, NEW r \in Rooms, Accept(c, k, r)
        PROVE  PoolInv'
    BY <2>1 DEF Accept
  <2>2. CASE Middleware(c)
    <3>1. CASE UNCHANGED at
      BY <2>2, <3>1 DEF Middleware
    <3>2. CASE at' = [at EXCEPT ![c] = "refused"]
      <4>1. at[c] = "handling"
        BY <2>2 DEF Middleware
      <4>2. \A d \in Conns : at'[d] \in Placed <=> at[d] \in Placed
        BY <3>2, <4>1
      <4> QED
        BY <2>2, <4>2 DEF Middleware
    <3>3. UNCHANGED at \/ at' = [at EXCEPT ![c] = "refused"]
      BY <2>2, MiddlewareStep
    <3> QED
      BY <3>1, <3>2, <3>3
  <2>3. CASE Answer(c) \/ Upgrade(c)
    <3>1. \A d \in Conns : at'[d] \in Placed <=> at[d] \in Placed
      BY <2>3 DEF Answer, Upgrade, InHandler
    <3> QED
      BY <2>3, <3>1 DEF Answer, Upgrade
  <2> QED
    BY <1>3, <2>1, <2>2, <2>3 DEF Request
<1>4. ASSUME NEW c \in Conns, Socket(c) PROVE PoolInv'
  <2>1. CASE GetRoom(c)
    BY <2>1 DEF GetRoom
  <2>2. CASE CreateRoom(c)
    BY <2>2 DEF CreateRoom
  <2>3. CASE Add(c)
    BY <2>3 DEF Add
  <2>4. CASE Activate(c)
    BY <2>4 DEF Activate
  <2>5. CASE SendOnClosed(c)
    BY <2>5 DEF SendOnClosed
  <2>6. CASE Leave(c)
    BY <2>6 DEF Leave
  <2> QED
    BY <1>4, <2>1, <2>2, <2>3, <2>4, <2>5, <2>6 DEF Socket
<1>5. ASSUME UNCHANGED vars PROVE PoolInv'
  BY <1>5 DEF vars
<1> QED
  BY <1>1, <1>2, <1>3, <1>4, <1>5 DEF Next, Ended

LEMMA PoolHolds == Spec => []PoolInv
<1>1. Init => PoolInv
  BY DEF Init, PoolInv, FoundInHttp, Created, LookedShut, Placed
<1>2. TypeOK /\ PoolInv /\ [Next]_vars => PoolInv'
  BY PoolStep
<1> QED
  BY <1>1, <1>2, TypeCorrect, PTL DEF Spec

\* When Hub.Shutdown has been through the rooms, a pool that still runs was started
\* afterwards, or is of an object that another one has replaced in Hub.Rooms
\* (hub.go:23-45 and 75-82, room.go:34 and 95).
THEOREM LatePools == Spec => []OnlyLatePools
<1>1. PoolInv => OnlyLatePools
  BY DEF PoolInv, FoundInHttp, LookedShut, OnlyLatePools
<1> QED
  BY <1>1, PoolHolds, PTL

-------------------------------------------------------------------------------
(* The guarded routes.                                                     *)

\* How far a request is: who has passed the first middleware is known, who has
\* passed the second is counted, and a handler runs after both.
Guarded(c) ==
  /\ at[c] = "new" => passed[c] = 0
  /\ kind[c] # "open" =>
       /\ passed[c] >= 1 => c \in known
       /\ passed[c] >= 2 => c \in counted
       /\ at[c] \notin {"new", "handling", "refused"} => passed[c] = 2

GuardInv == \A c \in Conns : Guarded(c)

\* What gets through to the handler of a guarded route has a user and has been
\* counted (handler.go:56-60).
THEOREM Counted == Spec => []GuardedCounted
<1>1. Init => GuardInv
  BY DEF Init, GuardInv, Guarded
<1>2. TypeOK /\ GuardInv /\ [Next]_vars => GuardInv'
  <2> SUFFICES ASSUME TypeOK, GuardInv, [Next]_vars, NEW d \in Conns
               PROVE  Guarded(d)'
    BY DEF GuardInv
  <2> USE DEF GuardInv, Guarded, TypeOK, mainVars, hubVars, connVars
  <2>1. ASSUME MainStep \/ StarterStep \/ Signal \/ Tick PROVE Guarded(d)'
    BY <2>1 DEF MainStep, NewLimiter, OpenDatabase, Spawn, Notify, StopBegins, ShutRoom,
                HubDone, HttpDone, GiveUp, StarterStep, SetServer, Listen, ServeReturns,
                Signal, Tick
  <2>2. ASSUME NEW c \in Conns, Request(c) PROVE Guarded(d)'
    <3>1. ASSUME NEW k \in {"open", "rest", "socket"}, NEW r \in Rooms, Accept(c, k, r)
          PROVE  Guarded(d)'
      BY <3>1 DEF Accept
    <3>2. CASE Middleware(c)
      <4>1. UNCHANGED kind
        BY <3>2 DEF Middleware
      <4> QED
        BY <3>2, <4>1, MiddlewareStep
    <3>3. CASE Answer(c) \/ Upgrade(c)
      <4>1. kind[c] # "open" => passed[c] = 2
        BY <3>3, ChainIs DEF Answer, Upgrade, InHandler
      <4> QED
        BY <3>3, <4>1 DEF Answer, Upgrade, InHandler
    <3> QED
      BY <2>2, <3>1, <3>2, <3>3 DEF Request
  <2>3. ASSUME NEW c \in Conns, Socket(c) PROVE Guarded(d)'
    BY <2>3 DEF Socket, GetRoom, CreateRoom, Add, Activate, SendOnClosed, Leave
  <2>4. ASSUME UNCHANGED vars PROVE Guarded(d)'
    BY <2>4 DEF vars
  <2> QED
    BY <2>1, <2>2, <2>3, <2>4 DEF Next, Ended
<1>3. GuardInv => GuardedCounted
  BY DEF GuardInv, Guarded, GuardedCounted
<1> QED
  BY <1>1, <1>2, <1>3, TypeCorrect, PTL DEF Spec

-------------------------------------------------------------------------------
(* The part of StopEnds that is not about time.                            *)

\* The stages of a stop.
Stage == [wait |-> 0, hub |-> 1, http |-> 2]

\* After a signal the main goroutine is in the stop, or about to begin it.
Stopping == quit => main \in DOMAIN Stage

\* A stop only goes forward (serve.go:49-70, server.go:35-45): the signal is not
\* forgotten, the stages are left in order, no object is added to or taken from those that
\* Hub.Shutdown goes through, an object is dealt with once, the deadline does not move
\* away; and every step of the main goroutine ends the process, enters the next stage
\* or deals with one more object.
Forward ==
  quit =>
    /\ quit'
    /\ Stage[main] <= Stage[main']
    /\ main = "hub" => hub' = hub
    /\ looked \subseteq looked'
    /\ elapsed' \in {elapsed, elapsed + 1}
    /\ MainStep => exit' # "none" \/ Stage[main] < Stage[main'] \/ looked' # looked

\* A stop cannot hang (serve.go:49-70): it goes only forward, among finitely many
\* objects and ticks, and when it waits for requests either they have ended or the
\* deadline is reached or still to come.
THEOREM StopGoesOn ==
  Spec => /\ [](quit => /\ main \in {"wait", "hub", "http"}
                        /\ main = "http" => Active = {} \/ DeadlineOver \/ elapsed < Grace)
          /\ [][Forward]_vars
<1>1. Init => Stopping
  BY DEF Init, Stopping
<1>2. TypeOK /\ Stopping /\ [Next]_vars => Stopping' /\ [Forward]_vars
  <2> SUFFICES ASSUME TypeOK, Stopping, [Next]_vars
               PROVE  Stopping' /\ (Next => Forward)
    BY DEF vars
  <2> USE DEF mainVars, hubVars, connVars, Up
  <2>1. ASSUME UNCHANGED <<main, quit, elapsed, looked>>, ~MainStep,
               main = "hub" => hub' = hub
        PROVE  Stopping' /\ (Next => Forward)
    BY <2>1 DEF Stopping, Stage, Forward, TypeOK
  <2>2. CASE MainStep
    <3>1. CASE NewLimiter \/ OpenDatabase \/ Spawn \/ Notify
      BY <3>1 DEF NewLimiter, OpenDatabase, Spawn, Notify, Stopping, Stage, Forward
    <3>2. CASE StopBegins
      BY <3>2 DEF StopBegins, Stopping, Stage, Forward, TypeOK
    <3>3. ASSUME NEW o \in Conns, ShutRoom(o) PROVE Stopping' /\ Forward
      BY <3>3 DEF ShutRoom, Stopping, Stage, Forward, TypeOK
    <3>4. CASE HubDone
      BY <3>4 DEF HubDone, Stopping, Stage, Forward, TypeOK
    <3>5. CASE HttpDone \/ GiveUp
      BY <3>5 DEF HttpDone, GiveUp, Stopping, Stage, Forward, TypeOK
    <3> QED
      BY <2>2, <3>1, <3>2, <3>3, <3>4, <3>5 DEF MainStep
  <2>3. CASE ~MainStep
    <3>1. CASE StarterStep
      BY <2>1, <2>3, <3>1 DEF StarterStep, SetServer, Listen, ServeReturns
    <3>2. CASE Signal
      BY <2>3, <3>2 DEF Signal, Stopping, Stage, Forward
    <3>3. CASE Tick
      BY <2>3, <3>3 DEF Tick, Stopping, Stage, Forward, TypeOK
    <3>4. ASSUME NEW c \in Conns, Request(c) PROVE Stopping' /\ (Next => Forward)
      BY <2>1, <2>3, <3>4 DEF Request, Accept, Middleware, Answer, Upgrade, InHandler
    <3>5. ASSUME NEW c \in Conns, Socket(c) PROVE Stopping' /\ (Next => Forward)
      BY <2>1, <2>3, <3>5 DEF Socket, GetRoom, CreateRoom, Add, Activate, SendOnClosed, Leave
    <3>6. CASE Ended \/ UNCHANGED vars
      BY <2>1, <2>3, <3>6 DEF Ended, vars
    <3> QED
      BY <2>3, <3>1, <3>2, <3>3, <3>4, <3>5, <3>6 DEF Next
  <2> QED
    BY <2>2, <2>3
<1>3. TypeOK /\ Stopping
        => (quit => /\ main \in {"wait", "hub", "http"}
                    /\ main = "http" => Active = {} \/ DeadlineOver \/ elapsed < Grace)
  <2> SUFFICES ASSUME TypeOK, Stopping, quit
               PROVE  main \in {"wait", "hub", "http"} /\ (DeadlineOver \/ elapsed < Grace)
    OBVIOUS
  <2>1. main \in {"wait", "hub", "http"}
    BY DEF Stopping, Stage
  <2>2. DeadlineOver \/ elapsed < Grace
    BY LimitsAssumption DEF DeadlineOver, TypeOK
  <2> QED
    BY <2>1, <2>2
<1> QED
  BY <1>1, <1>2, <1>3, TypeCorrect, PTL DEF Spec
===============================================================================
