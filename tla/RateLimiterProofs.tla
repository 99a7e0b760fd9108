--------------------------- MODULE RateLimiterProofs ---------------------------
(***************************************************************************)
(* Proofs about RateLimiter, for any users, limit, window, number of       *)
(* requests and number of faults.                                          *)
(***************************************************************************)
EXTENDS RateLimiter, FiniteSetTheorems, FunctionTheorems, TLAPS

States == {"new", "unauthorized", "panicked", "incr", "expire", "served", "limited",
           "failed", "killed"}

-------------------------------------------------------------------------------
(* The types.                                                              *)

\* What isAllowed answers is one of the two.
LEMMA VerdictIs ==
  ASSUME NEW n
  PROVE  Verdict(n) \in {"served", "limited"} /\ (Verdict(n) = "served" => n <= MaxReqs)
  BY DEF Verdict

\* The effect of INCR on one user's key.
LEMMA INCRIs ==
  ASSUME TypeOK, NEW u \in Users, INCR(u)
  PROVE  /\ counter' = [counter EXCEPT ![u] = counter[u] + 1]
         /\ life' = [life EXCEPT ![u] = IF counter[u] = 0 THEN life[u] + 1 ELSE life[u]]
         /\ counter' \in [Users -> Nat] /\ life' \in [Users -> Nat]
<1>1. counter' = [counter EXCEPT ![u] = counter[u] + 1]
  BY DEF INCR, Count
<1>2. life' = [life EXCEPT ![u] = IF counter[u] = 0 THEN life[u] + 1 ELSE life[u]]
  BY DEF INCR
<1> QED
  BY <1>1, <1>2 DEF TypeOK

LEMMA TypeStep ==
  ASSUME TypeOK, [Next]_vars
  PROVE  TypeOK'
<1> USE DEF reqVars, redisVars
<1>1. ASSUME NEW r \in Requests, Refuse(r) PROVE TypeOK'
  BY <1>1 DEF Refuse, TypeOK
<1>2. ASSUME NEW r \in Requests, NEW u \in Users, Authenticate(r, u) PROVE TypeOK'
  BY <1>2 DEF Authenticate, TypeOK
<1>3. ASSUME NEW r \in Requests, Incr(r) PROVE TypeOK'
  <2>1. PICK n \in Nat : n = Count(user[r])
    BY DEF Count, TypeOK
  <2>2. PICK next : next = IF NeedsExpiry(n) THEN "expire" ELSE Verdict(n)
    OBVIOUS
  <2>3. next \in States
    BY <2>2, VerdictIs DEF States
  <2>4. /\ count' = [count EXCEPT ![r] = n] /\ pc' = [pc EXCEPT ![r] = next]
        /\ age' = [age EXCEPT ![r] = IF next = "served" THEN 0 ELSE age[r]]
        /\ window' = [window EXCEPT ![r] = life'[user[r]]]
        /\ UNCHANGED <<limiter, user, ttl, orphan, faults>>
    BY <1>3, <2>1, <2>2 DEF Incr
  <2>5. counter' \in [Users -> Nat] /\ life' \in [Users -> Nat]
    BY <1>3, INCRIs DEF Incr, TypeOK
  <2>6. window' \in [Requests -> Nat] /\ age' \in [Requests -> 0..Window]
    BY <2>4, <2>5, LimitAssumption DEF TypeOK
  <2> QED
    BY <2>3, <2>4, <2>5, <2>6 DEF TypeOK, States
<1>4. ASSUME NEW r \in Requests, IncrFails(r) PROVE TypeOK'
  <2>1. counter' \in [Users -> Nat] /\ life' \in [Users -> Nat] /\ orphan' \subseteq Users
    <3>1. CASE UNCHANGED <<counter, life, orphan>>
      BY <3>1 DEF TypeOK
    <3>2. CASE INCR(user[r]) /\ orphan' \in {orphan, orphan \cup {user[r]}}
      BY <3>2, INCRIs DEF TypeOK
    <3> QED
      BY <1>4, <3>1, <3>2 DEF IncrFails
  <2> QED
    BY <1>4, <2>1, BoundsAssumption DEF IncrFails, Fault, TypeOK
<1>5. ASSUME NEW r \in Requests, Expire(r) PROVE TypeOK'
  <2>1. Verdict(count[r]) \in {"served", "limited"}
    BY VerdictIs
  <2>2. ttl' \in [Users -> 0..Window]
    BY <1>5, LimitAssumption DEF Expire, TTL, TypeOK
  <2>3. age' \in [Requests -> 0..Window]
    BY <1>5, LimitAssumption DEF Expire, TypeOK
  <2> QED
    BY <1>5, <2>1, <2>2, <2>3 DEF Expire, TypeOK
<1>6. ASSUME NEW r \in Requests, ExpireFails(r) PROVE TypeOK'
  <2>1. ttl' \in [Users -> 0..Window] /\ orphan' \subseteq Users
    BY <1>6, LimitAssumption DEF ExpireFails, TTL, TypeOK
  <2> QED
    BY <1>6, <2>1, BoundsAssumption DEF ExpireFails, Fault, TypeOK
<1>7. ASSUME Restart PROVE TypeOK'
  <2>1. pc' \in [Requests -> States] /\ orphan' \subseteq Users
    BY <1>7 DEF Restart, TypeOK, States
  <2> QED
    BY <1>7, <2>1, BoundsAssumption DEF Restart, Fault, TypeOK, States
<1>8. ASSUME Tick PROVE TypeOK'
  <2>1. ttl' \in [Users -> 0..Window] /\ counter' \in [Users -> Nat]
    BY <1>8, LimitAssumption DEF Tick, TypeOK
  <2>2. age' \in [Requests -> 0..Window]
    BY <1>8, LimitAssumption DEF Tick, TypeOK
  <2> QED
    BY <1>8, <2>1, <2>2 DEF Tick, TypeOK
<1>9. ASSUME UNCHANGED vars PROVE TypeOK'
  BY <1>9 DEF vars, TypeOK
<1> QED
  BY <1>1, <1>2, <1>3, <1>4, <1>5, <1>6, <1>7, <1>8, <1>9 DEF Next, Handle

\* Every variable keeps its type, and no key lives longer than a window
\* (ratelimit.go:24-28, 89-94).
THEOREM TypeCorrect == Spec => []TypeOK
<1>1. Init => TypeOK
  <2> SUFFICES ASSUME Init PROVE TypeOK
    OBVIOUS
  <2>1. PICK u \in Users : user = [r \in Requests |-> u]
    <3>1. (CHOOSE u \in Users : TRUE) \in Users
      BY UsersAssumption
    <3> QED
      BY <3>1, Zenon DEF Init
  <2>2. /\ limiter \in {"on", "nil"}
        /\ pc = [r \in Requests |-> "new"] /\ count = [r \in Requests |-> 0]
        /\ counter = [v \in Users |-> 0] /\ ttl = [v \in Users |-> 0]
        /\ life = [v \in Users |-> 0] /\ window = [r \in Requests |-> 0]
        /\ age = [r \in Requests |-> Window] /\ orphan = {} /\ faults = 0
    BY Zenon DEF Init
  <2>3. user \in [Requests -> Users]
    BY <2>1
  <2>4. /\ ttl \in [Users -> 0..Window] /\ age \in [Requests -> 0..Window]
        /\ faults \in 0..MaxFaults
    BY <2>2, LimitAssumption, BoundsAssumption
  <2>5. orphan \subseteq Users
    BY <2>2
  <2> QED
    BY <2>2, <2>3, <2>4, <2>5 DEF TypeOK
<1>2. TypeOK /\ [Next]_vars => TypeOK'
  BY TypeStep
<1> QED
  BY <1>1, <1>2, PTL DEF Spec

-------------------------------------------------------------------------------
(* What the steps do to one user's key, and to one request.                *)

\* Nobody moves but r.
Only(r) == \A q \in Requests \ {r} :
             /\ pc'[q] = pc[q] /\ user'[q] = user[q] /\ count'[q] = count[q]
             /\ window'[q] = window[q] /\ age'[q] = age[q]

\* The keys other than that of u stay as they are.
OnlyKey(u) == \A v \in Users \ {u} :
                counter'[v] = counter[v] /\ ttl'[v] = ttl[v] /\ life'[v] = life[v]

\* Incr and IncrFails count at most once; the one that finds no key creates it.
LEMMA IncrStep ==
  ASSUME TypeOK, NEW r \in Requests, Incr(r) \/ IncrFails(r)
  PROVE  LET u == user[r] IN
         /\ pc[r] = "incr" /\ Only(r) /\ OnlyKey(u) /\ user' = user /\ ttl' = ttl
         /\ orphan \subseteq orphan'
         /\ \/ /\ counter'[u] = counter[u] + 1
               /\ life'[u] = IF counter[u] = 0 THEN life[u] + 1 ELSE life[u]
               /\ \/ pc'[r] = "failed" /\ (counter[u] = 0 => u \in orphan')
                  \/ /\ count'[r] = counter[u] + 1 /\ window'[r] = life'[u]
                     /\ counter[u] = 0 => pc'[r] = "expire"
                     /\ counter[u] > 0 => /\ pc'[r] \in {"served", "limited"}
                                          /\ pc'[r] = "served" => count'[r] <= MaxReqs
            \/ counter'[u] = counter[u] /\ life'[u] = life[u] /\ pc'[r] = "failed"
<1> DEFINE u == user[r]
<1> u \in Users
  BY DEF TypeOK
<1>1. CASE Incr(r)
  <2>1. PICK n \in Nat : n = Count(u) /\ n = counter[u] + 1
    BY DEF Count, TypeOK
  <2>2. PICK next : next = IF NeedsExpiry(n) THEN "expire" ELSE Verdict(n)
    OBVIOUS
  <2>3. /\ counter[u] = 0 => next = "expire"
        /\ counter[u] > 0 => /\ next \in {"served", "limited"}
                             /\ next = "served" => n <= MaxReqs
    BY <2>1, <2>2, VerdictIs DEF NeedsExpiry, TypeOK
  <2>4. /\ count' = [count EXCEPT ![r] = n] /\ pc' = [pc EXCEPT ![r] = next]
        /\ age' = [age EXCEPT ![r] = IF next = "served" THEN 0 ELSE age[r]]
        /\ window' = [window EXCEPT ![r] = life'[u]]
        /\ UNCHANGED <<user, ttl, orphan>> /\ pc[r] = "incr"
    BY <1>1, <2>1, <2>2 DEF Incr
  <2>5. /\ counter' = [counter EXCEPT ![u] = counter[u] + 1]
        /\ life' = [life EXCEPT ![u] = IF counter[u] = 0 THEN life[u] + 1 ELSE life[u]]
    BY <1>1, INCRIs DEF Incr
  <2>6. Only(r) /\ OnlyKey(u)
    BY <2>4, <2>5 DEF Only, OnlyKey, TypeOK
  <2>7. /\ counter'[u] = counter[u] + 1
        /\ life'[u] = IF counter[u] = 0 THEN life[u] + 1 ELSE life[u]
        /\ count'[r] = n /\ pc'[r] = next /\ window'[r] = life'[u]
    BY <2>4, <2>5 DEF TypeOK
  <2> QED
    BY <2>1, <2>3, <2>4, <2>6, <2>7
<1>2. CASE IncrFails(r)
  <2>1. /\ pc[r] = "incr" /\ pc' = [pc EXCEPT ![r] = "failed"]
        /\ UNCHANGED <<user, count, ttl, window, age>>
    BY <1>2 DEF IncrFails
  <2>2. Only(r) /\ pc'[r] = "failed"
    BY <2>1 DEF Only, TypeOK
  <2>3. CASE UNCHANGED <<counter, life, orphan>>
    BY <2>1, <2>2, <2>3 DEF OnlyKey
  <2>4. CASE /\ INCR(u)
             /\ orphan' = IF counter[u] = 0 THEN orphan \cup {u} ELSE orphan
    <3>1. /\ counter' = [counter EXCEPT ![u] = counter[u] + 1]
          /\ life' = [life EXCEPT ![u] = IF counter[u] = 0 THEN life[u] + 1 ELSE life[u]]
      BY <2>4, INCRIs
    <3>2. /\ counter'[u] = counter[u] + 1 /\ OnlyKey(u)
          /\ life'[u] = IF counter[u] = 0 THEN life[u] + 1 ELSE life[u]
      BY <2>1, <3>1 DEF OnlyKey, TypeOK
    <3> QED
      BY <2>1, <2>2, <2>4, <3>2
  <2> QED
    BY <1>2, <2>3, <2>4 DEF IncrFails
<1> QED
  BY <1>1, <1>2

\* Expire and ExpireFails end with a TTL, or with an orphan.
LEMMA ExpireStep ==
  ASSUME TypeOK, NEW r \in Requests, Expire(r) \/ ExpireFails(r)
  PROVE  LET u == user[r] IN
         /\ pc[r] = "expire" /\ UNCHANGED <<user, counter, life, count, window>>
         /\ \A q \in Requests \ {r} : pc'[q] = pc[q] /\ age'[q] = age[q]
         /\ \A v \in Users \ {u} : ttl'[v] = ttl[v]
         /\ orphan \subseteq orphan'
         /\ \/ ttl'[u] = Window
            \/ ttl'[u] = ttl[u] /\ u \in orphan' /\ pc'[r] = "failed"
         /\ \/ pc'[r] \in {"failed", "limited"}
            \/ pc'[r] = "served" /\ count[r] <= MaxReqs
<1>1. user[r] \in Users
  BY DEF TypeOK
<1>2. CASE Expire(r)
  BY <1>1, <1>2, VerdictIs DEF Expire, TTL, TypeOK
<1>3. CASE ExpireFails(r)
  BY <1>1, <1>3 DEF ExpireFails, TTL, TypeOK
<1> QED
  BY <1>2, <1>3

-------------------------------------------------------------------------------
(* One keeper for each key.                                                *)

\* A key that is not there has no TTL; one without a TTL has a single request that
\* is about to set it, which was counted in this life of the key.
KeeperInv ==
  \A u \in Users :
    /\ counter[u] = 0 => ttl[u] = 0
    /\ counter[u] > 0 /\ ttl[u] = 0 =>
         u \in orphan \/ \E r \in Requests : pc[r] = "expire" /\ user[r] = u
    /\ \A r \in Requests :
         pc[r] = "expire" /\ user[r] = u =>
           /\ counter[u] > 0 /\ ttl[u] = 0 /\ window[r] = life[u]
           /\ \A q \in Requests : pc[q] = "expire" /\ user[q] = u => q = r

LEMMA KeeperStep ==
  ASSUME TypeOK, KeeperInv, [Next]_vars
  PROVE  KeeperInv'
<1> USE DEF reqVars, redisVars
<1>1. ASSUME NEW r \in Requests, Refuse(r) \/ \E u \in Users : Authenticate(r, u)
      PROVE  KeeperInv'
  <2>1. /\ pc[r] = "new" /\ pc'[r] # "expire"
        /\ \A q \in Requests \ {r} : pc'[q] = pc[q] /\ user'[q] = user[q]
        /\ UNCHANGED <<counter, ttl, life, window, orphan>>
    BY <1>1 DEF Refuse, Authenticate, IsNext, TypeOK
  <2> QED
    BY <2>1 DEF KeeperInv
<1>2. ASSUME NEW r \in Requests, Incr(r) \/ IncrFails(r) PROVE KeeperInv'
  <2> SUFFICES ASSUME NEW u \in Users
               PROVE  /\ counter'[u] = 0 => ttl'[u] = 0
                      /\ counter'[u] > 0 /\ ttl'[u] = 0 =>
                           \/ u \in orphan'
                           \/ \E q \in Requests : pc'[q] = "expire" /\ user'[q] = u
                      /\ \A q \in Requests :
                           pc'[q] = "expire" /\ user'[q] = u =>
                             /\ counter'[u] > 0 /\ ttl'[u] = 0 /\ window'[q] = life'[u]
                             /\ \A s \in Requests :
                                  pc'[s] = "expire" /\ user'[s] = u => s = q
    BY DEF KeeperInv
  <2>1. user[r] \in Users /\ counter[user[r]] \in Nat /\ counter[u] \in Nat
    BY DEF TypeOK
  <2>2. CASE u # user[r]
    BY <1>2, <2>2, IncrStep DEF KeeperInv, Only, OnlyKey
  <2>3. CASE u = user[r] /\ counter[u] = 0
    <3>1. \A q \in Requests : ~(pc[q] = "expire" /\ user[q] = u)
      BY <2>3 DEF KeeperInv
    <3>2. ttl[u] = 0
      BY <2>3 DEF KeeperInv
    <3> QED
      BY <1>2, <2>1, <2>3, <3>1, <3>2, IncrStep DEF Only
  <2>4. CASE u = user[r] /\ counter[u] > 0
    <3>1. pc'[r] # "expire" /\ pc[r] # "expire"
      BY <1>2, <2>4, IncrStep
    <3>2. \A q \in Requests \ {r} : pc'[q] = pc[q] /\ user'[q] = user[q] /\ window'[q] = window[q]
      BY <1>2, IncrStep DEF Only
    <3>3. counter'[u] > 0 /\ life'[u] = life[u] /\ ttl'[u] = ttl[u] /\ orphan \subseteq orphan'
      BY <1>2, <2>1, <2>4, IncrStep
    <3> QED
      BY <2>4, <3>1, <3>2, <3>3 DEF KeeperInv
  <2> QED
    BY <2>1, <2>2, <2>3, <2>4
<1>3. ASSUME NEW r \in Requests, Expire(r) \/ ExpireFails(r) PROVE KeeperInv'
  <2>1. user[r] \in Users /\ Window > 0
    BY LimitAssumption DEF TypeOK
  <2>2. pc[r] = "expire" /\ counter[user[r]] > 0
    BY <1>3, <2>1, ExpireStep DEF KeeperInv
  <2>3. \A q \in Requests : pc'[q] = "expire" => pc[q] = "expire" /\ q # r
    BY <1>3, ExpireStep
  <2>4. \A q \in Requests : pc'[q] = "expire" => user[q] # user[r]
    BY <2>1, <2>2, <2>3 DEF KeeperInv
  <2>5. \A q \in Requests : q # r => pc'[q] = pc[q]
    BY <1>3, ExpireStep
  <2> QED
    BY <1>3, <2>1, <2>2, <2>3, <2>4, <2>5, ExpireStep DEF KeeperInv
<1>4. ASSUME Restart PROVE KeeperInv'
  <2>1. /\ \A q \in Requests : pc'[q] # "expire"
        /\ \A q \in Requests : pc[q] = "expire" => user[q] \in orphan'
        /\ orphan \subseteq orphan'
        /\ UNCHANGED <<counter, ttl, user, life, window>>
    BY <1>4 DEF Restart, InFlight, TypeOK
  <2> QED
    BY <2>1 DEF KeeperInv
<1>5. ASSUME Tick PROVE KeeperInv'
  <2>1. \A u \in Users : /\ ttl[u] = 0 => ttl'[u] = 0 /\ counter'[u] = counter[u]
                         /\ ttl[u] = 1 => ttl'[u] = 0 /\ counter'[u] = 0
                         /\ ttl[u] > 1 => ttl'[u] > 0 /\ counter'[u] = counter[u]
                         /\ ttl[u] \in Nat
    BY <1>5, LimitAssumption DEF Tick, TypeOK
  <2>2. UNCHANGED <<pc, user, life, window, orphan>>
    BY <1>5 DEF Tick
  <2> SUFFICES ASSUME NEW u \in Users
               PROVE  /\ counter'[u] = 0 => ttl'[u] = 0
                      /\ counter'[u] > 0 /\ ttl'[u] = 0 =>
                           \/ u \in orphan
                           \/ \E q \in Requests : pc[q] = "expire" /\ user[q] = u
                      /\ \A q \in Requests :
                           pc[q] = "expire" /\ user[q] = u =>
                             /\ counter'[u] > 0 /\ ttl'[u] = 0 /\ window[q] = life[u]
                             /\ \A s \in Requests :
                                  pc[s] = "expire" /\ user[s] = u => s = q
    BY <2>2 DEF KeeperInv
  <2>3. CASE ttl[u] = 0
    BY <2>1, <2>3 DEF KeeperInv
  <2>4. CASE ttl[u] = 1
    BY <2>1, <2>4 DEF KeeperInv
  <2>5. CASE ttl[u] > 1
    BY <2>1, <2>5 DEF KeeperInv
  <2> QED
    BY <2>1, <2>3, <2>4, <2>5
<1>6. ASSUME UNCHANGED vars PROVE KeeperInv'
  BY <1>6 DEF vars, KeeperInv
<1> QED
  BY <1>1, <1>2, <1>3, <1>4, <1>5, <1>6 DEF Next, Handle

\* At the start nobody has been counted.
LEMMA InitIs ==
  ASSUME Init
  PROVE  /\ \A r \in Requests : pc[r] = "new"
         /\ \A u \in Users : counter[u] = 0 /\ ttl[u] = 0
  BY Zenon DEF Init

LEMMA KeeperHolds == Spec => []KeeperInv
<1>1. Init => KeeperInv
  <2> SUFFICES ASSUME Init, NEW u \in Users
               PROVE  counter[u] = 0 /\ ttl[u] = 0 /\ \A r \in Requests : pc[r] # "expire"
    BY DEF KeeperInv
  <2> QED
    BY InitIs
<1>2. TypeOK /\ KeeperInv /\ [Next]_vars => KeeperInv'
  BY KeeperStep
<1> QED
  BY <1>1, <1>2, TypeCorrect, PTL DEF Spec

\* A key without a TTL has exactly one request about to set it, unless that one
\* failed, and no late Expire meets a key that has one (ratelimit.go:89-94).
THEOREM KeepersAreSingle == Spec => []OneKeeper
<1>1. KeeperInv => OneKeeper
  <2> SUFFICES ASSUME KeeperInv, NEW u \in Users,
                      NEW K, K = {r \in Requests : pc[r] = "expire" /\ user[r] = u}
               PROVE  /\ Cardinality(K) <= 1
                      /\ K # {} => counter[u] > 0 /\ ttl[u] = 0
                      /\ counter[u] > 0 /\ ttl[u] = 0 => K # {} \/ u \in orphan
    BY DEF OneKeeper
  <2>1. Cardinality(K) <= 1
    <3>1. CASE K = {}
      BY <3>1, FS_EmptySet
    <3>2. CASE K # {}
      <4>1. PICK r \in K : TRUE
        BY <3>2
      <4>2. \A q \in K : q = r
        BY <4>1 DEF KeeperInv
      <4>3. K = {r}
        BY <4>1, <4>2
      <4>4. Cardinality({r}) = 1
        BY FS_Singleton
      <4> QED
        BY <4>3, <4>4
    <3> QED
      BY <3>1, <3>2
  <2> QED
    BY <2>1 DEF KeeperInv
<1> QED
  BY <1>1, KeeperHolds, PTL

-------------------------------------------------------------------------------
(* How many get through in one life of a key.                              *)

Counted == {r \in Requests : pc[r] \in {"expire", "served", "limited"}}

\* What r was told: a number of its window, no higher than the counter stands, and
\* within the limit when r was served.
Told(r) ==
  /\ count[r] >= 1 /\ window[r] <= life[user[r]]
  /\ counter[user[r]] > 0 /\ window[r] = life[user[r]] => count[r] <= counter[user[r]]
  /\ pc[r] = "served" => count[r] <= MaxReqs

\* No two requests of a user are told the same number in the same window.
CountInv ==
  /\ \A r \in Counted : Told(r)
  /\ \A q, r \in Counted : q # r /\ user[q] = user[r] /\ window[q] = window[r]
                             => count[q] # count[r]

LEMMA CountStep ==
  ASSUME TypeOK, KeeperInv, CountInv, [Next]_vars
  PROVE  CountInv'
<1> USE DEF reqVars, redisVars
<1>1. ASSUME NEW r \in Requests, Refuse(r) \/ \E u \in Users : Authenticate(r, u)
      PROVE  CountInv'
  <2>1. /\ \A q \in Requests \ {r} : pc'[q] = pc[q] /\ user'[q] = user[q]
        /\ pc'[r] \notin {"expire", "served", "limited"}
        /\ UNCHANGED <<count, counter, life, window>>
    BY <1>1 DEF Refuse, Authenticate, TypeOK
  <2> QED
    BY <2>1 DEF CountInv, Counted, Told
<1>2. ASSUME NEW r \in Requests, Incr(r) \/ IncrFails(r) PROVE CountInv'
  <2>1. user[r] \in Users /\ counter \in [Users -> Nat] /\ life \in [Users -> Nat]
    BY DEF TypeOK
  <2>2. \A q \in Counted : q # r
    BY <1>2, IncrStep DEF Counted
  <2>3. \A q \in Counted' : q = r \/ q \in Counted
    BY <1>2, IncrStep DEF Counted, Only
  <2>4. \A q \in Counted : /\ count'[q] = count[q] /\ window'[q] = window[q]
                           /\ user'[q] = user[q] /\ pc'[q] = pc[q] /\ user[q] \in Users
                           /\ count[q] \in Nat /\ window[q] \in Nat
    BY <1>2, <2>2, IncrStep DEF Only, Counted, TypeOK
  <2>5. \A q \in Counted : Told(q)'
    <3> SUFFICES ASSUME NEW q \in Counted PROVE Told(q)'
      OBVIOUS
    <3>1. Told(q)
      BY DEF CountInv
    <3>2. CASE user[q] # user[r]
      BY <1>2, <2>4, <3>1, <3>2, IncrStep DEF Told, OnlyKey
    <3>3. CASE user[q] = user[r]
      <4>1. CASE UNCHANGED <<counter, life>> \/ (/\ counter'[user[r]] = counter[user[r]]
                                                 /\ life'[user[r]] = life[user[r]])
        BY <2>4, <3>1, <3>3, <4>1 DEF Told
      <4>2. CASE /\ counter'[user[r]] = counter[user[r]] + 1
                 /\ life'[user[r]] = IF counter[user[r]] = 0 THEN life[user[r]] + 1
                                                              ELSE life[user[r]]
        BY <2>1, <2>4, <3>1, <3>3, <4>2 DEF Told
      <4> QED
        BY <1>2, <4>1, <4>2, IncrStep
    <3> QED
      BY <3>2, <3>3
  <2>6. ASSUME r \in Counted'
        PROVE  /\ Told(r)'
               /\ \A q \in Counted : user[q] = user[r] /\ window'[q] = window'[r]
                                       => count'[q] # count'[r]
    <3>1. pc'[r] \in {"expire", "served", "limited"}
      BY <2>6 DEF Counted
    <3>2. /\ count'[r] = counter[user[r]] + 1 /\ window'[r] = life'[user[r]]
          /\ counter'[user[r]] = counter[user[r]] + 1 /\ user'[r] = user[r]
          /\ life'[user[r]] = IF counter[user[r]] = 0 THEN life[user[r]] + 1
                                                       ELSE life[user[r]]
          /\ pc'[r] = "served" => count'[r] <= MaxReqs
      <4>1. pc'[r] # "failed" /\ user'[r] = user[r]
        BY <1>2, <3>1, IncrStep
      <4>2. pc'[r] = "served" => counter[user[r]] > 0
        BY <1>2, <2>1, IncrStep
      <4> QED
        BY <1>2, <4>1, <4>2, IncrStep
    <3>3. Told(r)'
      <4>1. PICK n \in Nat, l \in Nat : n = counter[user[r]] /\ l = life'[user[r]]
        BY <2>1, <3>2
      <4>2. /\ count'[r] = n + 1 /\ counter'[user'[r]] = n + 1
            /\ window'[r] = l /\ life'[user'[r]] = l
        BY <3>2, <4>1
      <4> QED
        BY <3>2, <4>1, <4>2 DEF Told
    <3>4. ASSUME NEW q \in Counted, user[q] = user[r], window'[q] = window'[r]
          PROVE  count'[q] # count'[r]
      <4>1. Told(q)
        BY DEF CountInv
      <4> QED
        BY <2>1, <2>4, <3>2, <3>4, <4>1 DEF Told
    <3> QED
      BY <3>3, <3>4
  <2>7. \A q \in Counted' : Told(q)'
    BY <2>3, <2>5, <2>6
  <2>8. \A q, s \in Counted' : q # s /\ user'[q] = user'[s] /\ window'[q] = window'[s]
                                 => count'[q] # count'[s]
    <3> SUFFICES ASSUME NEW q \in Counted', NEW s \in Counted', q # s,
                        user'[q] = user'[s], window'[q] = window'[s]
                 PROVE  count'[q] # count'[s]
      OBVIOUS
    <3>1. user'[r] = user[r]
      BY <1>2, IncrStep
    <3>2. CASE q = r
      BY <2>3, <2>4, <2>6, <3>1, <3>2
    <3>3. CASE s = r
      BY <2>3, <2>4, <2>6, <3>1, <3>3
    <3>4. CASE q # r /\ s # r
      BY <2>3, <2>4, <3>4 DEF CountInv
    <3> QED
      BY <3>2, <3>3, <3>4
  <2> QED
    BY <2>7, <2>8 DEF CountInv
<1>3. ASSUME NEW r \in Requests, Expire(r) \/ ExpireFails(r) PROVE CountInv'
  <2>1. UNCHANGED <<user, counter, life, count, window>>
    BY <1>3, ExpireStep
  <2>2. \A q \in Counted' : q \in Counted /\ (pc'[q] = "served" => count[q] <= MaxReqs)
    <3> SUFFICES ASSUME NEW q \in Counted'
                 PROVE  q \in Counted /\ (pc'[q] = "served" => count[q] <= MaxReqs)
      OBVIOUS
    <3>1. CASE q = r
      BY <1>3, <3>1, ExpireStep DEF Counted
    <3>2. CASE q # r
      <4>1. pc'[q] = pc[q] /\ q \in Counted
        BY <1>3, <3>2, ExpireStep DEF Counted
      <4> QED
        BY <4>1 DEF CountInv, Told
    <3> QED
      BY <3>1, <3>2
  <2> QED
    BY <2>1, <2>2 DEF CountInv, Told
<1>4. ASSUME Restart PROVE CountInv'
  <2>1. /\ UNCHANGED <<user, counter, life, count, window>>
        /\ \A q \in Requests : pc'[q] \in {pc[q], "killed"}
    BY <1>4 DEF Restart, TypeOK
  <2> QED
    BY <2>1 DEF CountInv, Counted, Told
<1>5. ASSUME Tick PROVE CountInv'
  <2>1. /\ UNCHANGED <<pc, user, life, count, window>>
        /\ \A u \in Users : counter'[u] \in {0, counter[u]}
    BY <1>5 DEF Tick, TypeOK
  <2>2. \A r \in Requests : user[r] \in Users
    BY DEF TypeOK
  <2> QED
    BY <2>1, <2>2 DEF CountInv, Counted, Told
<1>6. ASSUME UNCHANGED vars PROVE CountInv'
  BY <1>6 DEF vars, CountInv, Counted, Told
<1> QED
  BY <1>1, <1>2, <1>3, <1>4, <1>5, <1>6 DEF Next, Handle

LEMMA CountHolds == Spec => []CountInv
<1>1. Init => CountInv
  BY InitIs DEF CountInv, Counted
<1>2. TypeOK /\ KeeperInv /\ CountInv /\ [Next]_vars => CountInv'
  BY CountStep
<1> QED
  BY <1>1, <1>2, TypeCorrect, KeeperHolds, PTL DEF Spec

\* The requests of one user that were served in one window are numbered from 1 to
\* MaxReqs.
LEMMA FewInAWindow ==
  ASSUME TypeOK, CountInv, NEW u \in Users, NEW w,
         NEW S, S = {r \in Served(u) : window[r] = w}
  PROVE  IsFiniteSet(S) /\ Cardinality(S) <= MaxReqs
<1>1. PICK f : f = [r \in S |-> count[r]]
  OBVIOUS
<1>2. f \in [S -> 1..MaxReqs]
  BY <1>1, LimitAssumption DEF CountInv, Counted, Told, Served, TypeOK
<1>3. \A q, r \in S : f[q] = f[r] => q = r
  BY <1>1 DEF CountInv, Counted, Served
<1>4. f \in Injection(S, 1..MaxReqs)
  BY <1>2, <1>3, Fun_IsInj
<1>5. IsFiniteSet(1..MaxReqs) /\ Cardinality(1..MaxReqs) = MaxReqs
  BY LimitAssumption, FS_Interval
<1> QED
  BY <1>4, <1>5, FS_Injection

\* In one life of the key no more than maxReqs requests of the user get through
\* (ratelimit.go:83-97).
THEOREM LimitKept == Spec => []WithinLimit
<1>1. TypeOK /\ CountInv => WithinLimit
  BY FewInAWindow DEF WithinLimit
<1> QED
  BY <1>1, TypeCorrect, CountHolds, PTL

-------------------------------------------------------------------------------
(* How many get through in any stretch as long as a window.                *)

\* A key with a TTL keeps the requests of the life before away from the present:
\* when it is deleted they are as old as a window, and so they are all the time
\* when another life has come in between.
Passed(r) ==
  /\ counter[user[r]] = 0 /\ window[r] < life[user[r]] => age[r] = Window
  /\ ttl[user[r]] > 0 /\ window[r] < life[user[r]] => age[r] + ttl[user[r]] >= Window
  /\ window[r] + 1 < life[user[r]] => age[r] = Window

AgeInv == \A r \in Requests : pc[r] = "served" => Passed(r)

LEMMA AgeStep ==
  ASSUME TypeOK, KeeperInv, AgeInv, [Next]_vars
  PROVE  AgeInv'
<1> USE DEF reqVars, redisVars
<1> SUFFICES ASSUME NEW q \in Requests, pc'[q] = "served" PROVE Passed(q)'
  BY DEF AgeInv
<1>0. user[q] \in Users
  BY DEF TypeOK
<1>1. ASSUME NEW r \in Requests, Refuse(r) \/ \E u \in Users : Authenticate(r, u)
      PROVE  Passed(q)'
  <2>1. pc'[q] = pc[q] /\ user'[q] = user[q] /\ UNCHANGED <<counter, ttl, life, window, age>>
    BY <1>1 DEF Refuse, Authenticate, TypeOK
  <2> QED
    BY <2>1 DEF AgeInv, Passed
<1>2. ASSUME NEW r \in Requests, Incr(r) \/ IncrFails(r) PROVE Passed(q)'
  <2>1. /\ user[r] \in Users /\ counter \in [Users -> Nat] /\ life \in [Users -> Nat]
        /\ ttl \in [Users -> 0..Window] /\ age \in [Requests -> 0..Window]
        /\ window \in [Requests -> Nat]
    BY DEF TypeOK
  <2>2. user' = user /\ ttl' = ttl
    BY <1>2, IncrStep
  <2>3. CASE q = r
    <3>1. window'[q] = life'[user[q]] /\ life'[user[q]] \in Nat
      BY <1>2, <2>1, <2>3, IncrStep
    <3> QED
      BY <2>2, <3>1 DEF Passed
  <2>4. CASE q # r
    <3>1. pc'[q] = pc[q] /\ window'[q] = window[q] /\ age'[q] = age[q]
      BY <1>2, <2>4, IncrStep DEF Only
    <3>2. Passed(q)
      BY <3>1 DEF AgeInv
    <3>3. CASE counter'[user[q]] = counter[user[q]] /\ life'[user[q]] = life[user[q]]
      BY <2>2, <3>1, <3>2, <3>3 DEF Passed
    <3>4. CASE /\ counter'[user[q]] = counter[user[q]] + 1 /\ counter[user[q]] > 0
               /\ life'[user[q]] = life[user[q]]
      <4>1. counter'[user[q]] # 0
        BY <1>0, <2>1, <3>4
      <4> QED
        BY <2>2, <3>1, <3>2, <3>4, <4>1 DEF Passed
    <3>5. CASE /\ counter'[user[q]] = counter[user[q]] + 1 /\ counter[user[q]] = 0
               /\ life'[user[q]] = life[user[q]] + 1
      <4>1. ttl[user[q]] = 0
        BY <1>0, <3>5 DEF KeeperInv
      <4>2. counter'[user[q]] = 1
        BY <3>5
      <4>3. window[q] + 1 < life[user[q]] + 1 => window[q] < life[user[q]]
        BY <1>0, <2>1
      <4> QED
        BY <2>2, <3>1, <3>2, <3>5, <4>1, <4>2, <4>3 DEF Passed
    <3>6. CASE user[q] # user[r]
      BY <1>0, <1>2, <3>3, <3>6, IncrStep DEF OnlyKey
    <3>7. CASE user[q] = user[r]
      BY <1>2, <2>1, <3>3, <3>4, <3>5, <3>7, IncrStep
    <3> QED
      BY <3>6, <3>7
  <2> QED
    BY <2>3, <2>4
<1>3. ASSUME NEW r \in Requests, Expire(r) \/ ExpireFails(r) PROVE Passed(q)'
  <2>1. UNCHANGED <<user, counter, life, window>>
    BY <1>3, ExpireStep
  <2>2. CASE q = r
    <3>1. window[q] = life[user[q]] /\ life[user[q]] \in Nat
      BY <1>0, <1>3, <2>2, ExpireStep DEF KeeperInv, TypeOK
    <3> QED
      BY <2>1, <3>1 DEF Passed
  <2>3. CASE q # r
    <3>1. pc'[q] = pc[q] /\ age'[q] = age[q] /\ age[q] \in Nat
      BY <1>3, <2>3, ExpireStep, LimitAssumption DEF TypeOK
    <3>2. Passed(q)
      BY <3>1 DEF AgeInv
    <3>3. ttl'[user[q]] \in {ttl[user[q]], Window}
      BY <1>0, <1>3, ExpireStep
    <3>4. PICK a \in Nat : a = age[q]
      BY <3>1
    <3>5. window[q] < life[user[q]] /\ ttl'[user[q]] > 0 => a + ttl'[user[q]] >= Window
      <4>1. CASE ttl'[user[q]] = ttl[user[q]]
        BY <3>2, <3>4, <4>1 DEF Passed
      <4>2. CASE ttl'[user[q]] = Window
        BY <4>2, LimitAssumption
      <4> QED
        BY <3>3, <4>1, <4>2
    <3> QED
      BY <2>1, <3>1, <3>2, <3>4, <3>5 DEF Passed
  <2> QED
    BY <2>2, <2>3
<1>4. ASSUME Restart PROVE Passed(q)'
  <2>1. pc[q] = "served" /\ UNCHANGED <<user, counter, ttl, life, window, age>>
    BY <1>4 DEF Restart, TypeOK
  <2> QED
    BY <2>1 DEF AgeInv, Passed
<1>5. ASSUME Tick PROVE Passed(q)'
  <2>1. pc[q] = "served" /\ UNCHANGED <<user, life, window>>
    BY <1>5 DEF Tick
  <2>2. Passed(q)
    BY <2>1 DEF AgeInv
  <2>3. PICK t \in 0..Window : t = ttl[user[q]]
    BY <1>0 DEF TypeOK
  <2>4. PICK a \in 0..Window : a = age[q]
    BY DEF TypeOK
  <2>5. /\ ttl'[user[q]] = IF t = 0 THEN 0 ELSE t - 1
        /\ counter'[user[q]] = IF t = 1 THEN 0 ELSE counter[user[q]]
        /\ age'[q] = IF a = Window THEN Window ELSE a + 1
    BY <1>0, <1>5, <2>3, <2>4 DEF Tick
  <2>6. window[q] < life[user[q]] /\ t > 0 => a + t >= Window
    BY <2>2, <2>3, <2>4 DEF Passed
  <2>7. window[q] < life[user[q]] /\ t = 1 => age'[q] = Window
    BY <2>5, <2>6, LimitAssumption
  <2>8. window[q] < life[user[q]] /\ ttl'[user[q]] > 0 => age'[q] + ttl'[user[q]] >= Window
    BY <2>5, <2>6, LimitAssumption
  <2>9. window[q] < life[user[q]] /\ counter[user[q]] = 0 => age'[q] = Window
    BY <2>2, <2>4, <2>5 DEF Passed
  <2>10. window[q] + 1 < life[user[q]] => age'[q] = Window
    BY <2>2, <2>4, <2>5 DEF Passed
  <2> QED
    BY <2>1, <2>5, <2>7, <2>8, <2>9, <2>10 DEF Passed
<1>6. ASSUME UNCHANGED vars PROVE Passed(q)'
  BY <1>6 DEF vars, AgeInv, Passed
<1> QED
  BY <1>1, <1>2, <1>3, <1>4, <1>5, <1>6 DEF Next, Handle

LEMMA AgeHolds == Spec => []AgeInv
<1>1. Init => AgeInv
  BY InitIs DEF AgeInv
<1>2. TypeOK /\ KeeperInv /\ AgeInv /\ [Next]_vars => AgeInv'
  BY AgeStep
<1> QED
  BY <1>1, <1>2, TypeCorrect, KeeperHolds, PTL DEF Spec

\* In any stretch as long as a window up to twice maxReqs get through, and never
\* more (ratelimit.go:89-96).
THEOREM BurstKept == Spec => []BurstBound
<1>1. TypeOK /\ CountInv /\ AgeInv => BurstBound
  <2> SUFFICES ASSUME TypeOK, CountInv, AgeInv, NEW u \in Users,
                      NEW S, S = {r \in Served(u) : age[r] < Window}
               PROVE  Cardinality(S) <= 2 * MaxReqs
    BY DEF BurstBound
  <2>1. PICK A : A = {r \in Served(u) : window[r] = life[u]}
    OBVIOUS
  <2>2. PICK B : B = {r \in Served(u) : window[r] = life[u] - 1}
    OBVIOUS
  <2>3. S \subseteq A \cup B
    <3> SUFFICES ASSUME NEW r \in S PROVE window[r] = life[u] \/ window[r] = life[u] - 1
      BY <2>1, <2>2
    <3>1. r \in Requests /\ pc[r] = "served" /\ user[r] = u /\ age[r] < Window
      BY DEF Served
    <3>2. window[r] \in Nat /\ life[u] \in Nat /\ window[r] <= life[u]
      BY <3>1 DEF CountInv, Counted, Told, TypeOK
    <3>3. ~(window[r] + 1 < life[u])
      BY <3>1, LimitAssumption DEF AgeInv, Passed, TypeOK
    <3> QED
      BY <3>2, <3>3
  <2>4. IsFiniteSet(A) /\ Cardinality(A) <= MaxReqs
    BY <2>1, FewInAWindow
  <2>5. IsFiniteSet(B) /\ Cardinality(B) <= MaxReqs
    BY <2>2, FewInAWindow
  <2>6. /\ Cardinality(A) \in Nat /\ Cardinality(B) \in Nat
        /\ IsFiniteSet(A \cap B) /\ Cardinality(A \cap B) \in Nat
    <3>1. IsFiniteSet(A \cap B)
      BY <2>4, FS_Subset
    <3> QED
      BY <2>4, <2>5, <3>1, FS_CardinalityType
  <2>7. /\ IsFiniteSet(A \cup B)
        /\ Cardinality(A \cup B) = Cardinality(A) + Cardinality(B) - Cardinality(A \cap B)
    BY <2>4, <2>5, FS_Union
  <2>8. IsFiniteSet(S) /\ Cardinality(S) <= Cardinality(A \cup B)
    BY <2>3, <2>7, FS_Subset
  <2>9. Cardinality(S) \in Nat
    BY <2>8, FS_CardinalityType
  <2> QED
    BY <2>4, <2>5, <2>6, <2>7, <2>8, <2>9, LimitAssumption
<1> QED
  BY <1>1, TypeCorrect, CountHolds, AgeHolds, PTL

-------------------------------------------------------------------------------
(* The part of Readmitted that is not about time.                          *)

\* A window once begun can only run out (ratelimit.go:83-97): no request, retry or
\* restart prolongs it, the counter only rises while it lasts, and the counter is gone
\* at its end.  With OneKeeper, a user over the limit waits one window at most, unless
\* the key is an orphan.
THEOREM WindowIsFixed ==
  Spec => [][\A u \in Users : ttl[u] > 0 =>
               /\ ttl'[u] \in {ttl[u], ttl[u] - 1}
               /\ ttl'[u] > 0 => counter'[u] >= counter[u]
               /\ ttl'[u] = 0 => counter'[u] = 0
               /\ Tick => ttl'[u] = ttl[u] - 1]_vars
<1> DEFINE Goal(u) == ttl[u] > 0 =>
                        /\ ttl'[u] \in {ttl[u], ttl[u] - 1}
                        /\ ttl'[u] > 0 => counter'[u] >= counter[u]
                        /\ ttl'[u] = 0 => counter'[u] = 0
                        /\ Tick => ttl'[u] = ttl[u] - 1
<1>1. TypeOK /\ KeeperInv /\ [Next]_vars => [\A u \in Users : Goal(u)]_vars
  <2> SUFFICES ASSUME TypeOK, KeeperInv, Next, NEW u \in Users, ttl[u] > 0
               PROVE  /\ ttl'[u] \in {ttl[u], ttl[u] - 1}
                      /\ ttl'[u] > 0 => counter'[u] >= counter[u]
                      /\ ttl'[u] = 0 => counter'[u] = 0
                      /\ Tick => ttl'[u] = ttl[u] - 1
    OBVIOUS
  <2> USE DEF reqVars, redisVars
  <2>1. ttl[u] \in Nat /\ counter[u] \in Nat
    BY LimitAssumption DEF TypeOK
  <2>2. Tick => /\ ttl'[u] = ttl[u] - 1
                /\ counter'[u] = IF ttl[u] = 1 THEN 0 ELSE counter[u]
    BY DEF Tick
  <2>3. CASE Tick
    BY <2>1, <2>2, <2>3
  <2>4. ASSUME ~Tick, ttl'[u] = ttl[u], counter'[u] >= counter[u]
        PROVE  /\ ttl'[u] \in {ttl[u], ttl[u] - 1}
               /\ ttl'[u] > 0 => counter'[u] >= counter[u]
               /\ ttl'[u] = 0 => counter'[u] = 0
               /\ Tick => ttl'[u] = ttl[u] - 1
    BY <2>4
  <2>5. CASE ~Tick
    <3>1. ASSUME NEW r \in Requests, Incr(r) \/ IncrFails(r)
          PROVE  ttl'[u] = ttl[u] /\ counter'[u] >= counter[u]
      <4>1. user[r] \in Users
        BY DEF TypeOK
      <4>2. ttl' = ttl /\ OnlyKey(user[r])
        BY <3>1, IncrStep
      <4>3. counter'[user[r]] \in {counter[user[r]], counter[user[r]] + 1}
        BY <3>1, IncrStep
      <4> QED
        BY <2>1, <4>1, <4>2, <4>3 DEF OnlyKey
    <3>2. ASSUME NEW r \in Requests, Expire(r) \/ ExpireFails(r)
          PROVE  ttl'[u] = ttl[u] /\ counter'[u] >= counter[u]
      <4>1. pc[r] = "expire" /\ counter' = counter /\ \A v \in Users \ {user[r]} : ttl'[v] = ttl[v]
        BY <3>2, ExpireStep
      <4>2. u # user[r]
        BY <4>1, <2>1 DEF KeeperInv
      <4> QED
        BY <2>1, <4>1, <4>2
    <3>3. ASSUME NEW r \in Requests, Refuse(r) \/ \E v \in Users : Authenticate(r, v)
          PROVE  ttl'[u] = ttl[u] /\ counter'[u] >= counter[u]
      BY <2>1, <3>3 DEF Refuse, Authenticate
    <3>4. ASSUME Restart PROVE ttl'[u] = ttl[u] /\ counter'[u] >= counter[u]
      BY <2>1, <3>4 DEF Restart
    <3> QED
      BY <2>4, <2>5, <3>1, <3>2, <3>3, <3>4 DEF Next, Handle
  <2> QED
    BY <2>3, <2>5
<1> QED
  BY <1>1, TypeCorrect, KeeperHolds, PTL DEF Spec
===============================================================================
