------------------------------ MODULE RateLimiter ------------------------------
(***************************************************************************)
(* The way of an authenticated request through the middleware: APIKeyAuth, *)
(* then RateLimiter.Middleware, which counts the user's requests under a   *)
(* Redis key that lives for one window.                                    *)
(*                                                                         *)
(* Requests run concurrently; each Redis call is one step.  A call can     *)
(* fail, with or without having had its effect: the reply is lost, or the  *)
(* peer goes away and cancels the request's context.  The server can be    *)
(* killed and started again between any two steps; Redis stays.  Requests  *)
(* are numbered in the order in which they arrive.                         *)
(***************************************************************************)
EXTENDS Integers, FiniteSets

CONSTANTS Users,        \* the registered users
          MaxReqs,      \* RateLimiter.maxReqs
          Window,       \* RateLimiter.windowSecs, in clock ticks
          MaxRequests,  \* bound: requests in all
          MaxFaults     \* bound: failed Redis calls and server restarts in all

ASSUME UsersAssumption  == IsFiniteSet(Users) /\ Users # {}
ASSUME LimitAssumption  == MaxReqs \in Nat /\ Window \in Nat \ {0}
ASSUME BoundsAssumption == MaxRequests \in Nat /\ MaxFaults \in Nat

VARIABLES
  limiter,  \* Handler.RateLimiter: "on", or "nil" when Redis was not there
  pc,       \* pc[r]: where request r is
  user,     \* user[r]: whose request it is
  count,    \* count[r]: what Incr answered
  counter,  \* counter[u]: the value under the user's key, 0 without the key
  ttl,      \* ttl[u]: ticks the key has to live, 0 when it has no TTL
  life,     \* history: life[u], how many times the key has been created
  window,   \* history: window[r], the life of the key r was counted in
  age,      \* history: age[r], ticks since r was let through, Window at most
  orphan,   \* history: the users whose key was left without a TTL
  faults    \* failed calls and restarts so far

reqVars   == <<pc, user, count>>
redisVars == <<counter, ttl>>
vars == <<limiter, reqVars, redisVars, life, window, age, orphan, faults>>

Requests == 1..MaxRequests
InFlight == {"incr", "expire"}

\* NewRateLimiter pings Redis once; the server starts without a limiter when
\* that fails.
Init ==
  /\ limiter \in {"on", "nil"}
  /\ pc = [r \in Requests |-> "new"]
  /\ user = [r \in Requests |-> CHOOSE u \in Users : TRUE]
  /\ count = [r \in Requests |-> 0]
  /\ counter = [u \in Users |-> 0]
  /\ ttl = [u \in Users |-> 0]
  /\ life = [u \in Users |-> 0]
  /\ window = [r \in Requests |-> 0]
  /\ age = [r \in Requests |-> Window]
  /\ orphan = {}
  /\ faults = 0

IsNext(r) == pc[r] = "new" /\ \A q \in 1..(r - 1) : pc[q] # "new"

\* APIKeyAuth: no header, or no user with this key.
Refuse(r) ==
  /\ IsNext(r)
  /\ pc' = [pc EXCEPT ![r] = "unauthorized"]
  /\ UNCHANGED <<limiter, user, count, redisVars, life, window, age, orphan, faults>>

\* APIKeyAuth lets user u pass and Middleware calls isAllowed, which reads the
\* cache of a limiter that may be nil: a panic, which the router recovers.
Authenticate(r, u) ==
  /\ IsNext(r)
  /\ user' = [user EXCEPT ![r] = u]
  /\ pc' = [pc EXCEPT ![r] = IF limiter = "nil" THEN "panicked" ELSE "incr"]
  /\ UNCHANGED <<limiter, count, redisVars, life, window, age, orphan, faults>>

\* Mutants of isAllowed: the first request is the one that finds 0; each allowed
\* request prolongs the window.
NeedsExpiryAtZero(n) == n = 0
NeedsExpiryAlways(n) == n <= MaxReqs
NeedsExpiry(n) == n = 1

\* Mutant: one request too many.
VerdictOneMore(n) == IF n <= MaxReqs + 1 THEN "served" ELSE "limited"
Verdict(n) == IF n <= MaxReqs THEN "served" ELSE "limited"

Count(u) == counter[u] + 1

\* Redis: INCR creates the key, without a TTL, if it is not there.
INCR(u) ==
  /\ counter' = [counter EXCEPT ![u] = Count(u)]
  /\ life' = [life EXCEPT ![u] = IF counter[u] = 0 THEN @ + 1 ELSE @]

\* isAllowed: Incr, and the answer of the middleware unless Expire comes first.
Incr(r) ==
  /\ pc[r] = "incr"
  /\ INCR(user[r])
  /\ LET n == Count(user[r])
         next == IF NeedsExpiry(n) THEN "expire" ELSE Verdict(n)
     IN /\ count' = [count EXCEPT ![r] = n]
        /\ pc' = [pc EXCEPT ![r] = next]
        /\ age' = [age EXCEPT ![r] = IF next = "served" THEN 0 ELSE @]
  /\ window' = [window EXCEPT ![r] = life'[user[r]]]
  /\ UNCHANGED <<limiter, user, ttl, orphan, faults>>

Fault == faults < MaxFaults /\ faults' = faults + 1

\* Incr returns an error: 500.
IncrFails(r) ==
  /\ pc[r] = "incr"
  /\ Fault
  /\ pc' = [pc EXCEPT ![r] = "failed"]
  /\ \/ UNCHANGED <<counter, life, orphan>>
     \/ /\ INCR(user[r])
        /\ orphan' = IF counter[user[r]] = 0 THEN orphan \cup {user[r]} ELSE orphan
  /\ UNCHANGED <<limiter, user, count, ttl, window, age>>

\* Mutants: half of it; the wrong unit.
TTLTooShort == Window \div 2
TTLInMillis == 1000 * Window
TTL == Window

\* isAllowed: Expire, by the request that was counted first.
Expire(r) ==
  /\ pc[r] = "expire"
  /\ ttl' = [ttl EXCEPT ![user[r]] = TTL]
  /\ pc' = [pc EXCEPT ![r] = Verdict(count[r])]
  /\ age' = [age EXCEPT ![r] = IF Verdict(count[r]) = "served" THEN 0 ELSE @]
  /\ UNCHANGED <<limiter, user, count, counter, life, window, orphan, faults>>

\* Expire returns an error: 500.
ExpireFails(r) ==
  /\ pc[r] = "expire"
  /\ Fault
  /\ pc' = [pc EXCEPT ![r] = "failed"]
  /\ \/ ttl' = [ttl EXCEPT ![user[r]] = TTL] /\ UNCHANGED orphan
     \/ orphan' = orphan \cup {user[r]} /\ UNCHANGED ttl
  /\ UNCHANGED <<limiter, user, count, counter, life, window, age>>

\* The server is killed and started again.
Restart ==
  /\ Fault
  /\ limiter' \in {"on", "nil"}
  /\ pc' = [r \in Requests |-> IF pc[r] \in InFlight THEN "killed" ELSE pc[r]]
  /\ orphan' = orphan \cup {user[r] : r \in {q \in Requests : pc[q] = "expire"}}
  /\ UNCHANGED <<user, count, redisVars, life, window, age>>

\* Redis and the clock: a key whose TTL runs out is deleted.
Tick ==
  /\ ttl' = [u \in Users |-> IF ttl[u] = 0 THEN 0 ELSE ttl[u] - 1]
  /\ counter' = [u \in Users |-> IF ttl[u] = 1 THEN 0 ELSE counter[u]]
  /\ age' = [r \in Requests |-> IF age[r] = Window THEN Window ELSE age[r] + 1]
  /\ UNCHANGED <<limiter, reqVars, life, window, orphan, faults>>

Handle(r) == Incr(r) \/ IncrFails(r) \/ Expire(r) \/ ExpireFails(r)

Next ==
  \/ \E r \in Requests :
       Refuse(r) \/ (\E u \in Users : Authenticate(r, u)) \/ Handle(r)
  \/ Restart
  \/ Tick

Spec == Init /\ [][Next]_vars

\* Time goes on, and every Redis call returns (the client has I/O timeouts).
FairSpec == Spec /\ WF_vars(Tick) /\ \A r \in Requests : WF_vars(Handle(r))

-------------------------------------------------------------------------------
(* Properties.                                                             *)

\* Every variable keeps its type; a key has no longer to live than a window
\* (ratelimit.go:24-28, 89-94).
TypeOK ==
  /\ limiter \in {"on", "nil"}
  /\ pc \in [Requests -> {"new", "unauthorized", "panicked", "incr", "expire",
                          "served", "limited", "failed", "killed"}]
  /\ user \in [Requests -> Users]
  /\ count \in [Requests -> Nat]
  /\ counter \in [Users -> Nat]
  /\ ttl \in [Users -> 0..Window]
  /\ life \in [Users -> Nat]
  /\ window \in [Requests -> Nat]
  /\ age \in [Requests -> 0..Window]
  /\ orphan \subseteq Users
  /\ faults \in 0..MaxFaults

Served(u) == {r \in Requests : pc[r] = "served" /\ user[r] = u}

\* In one life of the key no more than maxReqs requests of the user get through,
\* in whatever order their calls reach Redis and whichever of them fail
\* (ratelimit.go:83-97).
WithinLimit ==
  \A u \in Users : \A w \in 1..life[u] :
    Cardinality({r \in Served(u) : window[r] = w}) <= MaxReqs

\* The window is fixed, not sliding: in any stretch as long as a window, up to
\* twice maxReqs get through, and never more (ratelimit.go:89-96).
BurstBound ==
  \A u \in Users : Cardinality({r \in Served(u) : age[r] < Window}) <= 2 * MaxReqs

\* A key without a TTL has exactly one request about to set it, unless that one
\* failed; nobody else ever will, and no late Expire meets a key that has one
\* (ratelimit.go:89-94).
OneKeeper ==
  \A u \in Users :
    LET keepers == {r \in Requests : pc[r] = "expire" /\ user[r] = u} IN
      /\ Cardinality(keepers) <= 1
      /\ keepers # {} => counter[u] > 0 /\ ttl[u] = 0
      /\ counter[u] > 0 /\ ttl[u] = 0 => keepers # {} \/ u \in orphan

\* A user over the limit is let in again, unless the key was left without a TTL.
Readmitted ==
  \A u \in Users : counter[u] > MaxReqs ~> counter[u] = 0 \/ u \in orphan
===============================================================================
