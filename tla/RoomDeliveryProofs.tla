-------------------------- MODULE RoomDeliveryProofs --------------------------
(***************************************************************************)
(* Room delivers what it promises, for any set of connections and any      *)
(* capacities, thresholds and bounds: nothing is lost off the record,      *)
(* nothing comes twice in the same way, Room implements Delivery, one      *)
(* sender's broadcasts keep their order where one worker or the handler    *)
(* sends them, and nobody gets stuck.                                      *)
(***************************************************************************)
EXTENDS RoomProofs

-------------------------------------------------------------------------------
(* Lemmas about sequences: the channels and what was written.              *)

\* No element is there twice.
Distinct(s) == \A i, j \in DOMAIN s : s[i] = s[j] => i = j

LEMMA AppendElements ==
  ASSUME NEW S, NEW s \in Seq(S), NEW e \in S
  PROVE  Elements(Append(s, e)) = Elements(s) \cup {e}
<1>1. DOMAIN s = 1..Len(s) /\ Len(s) \in Nat
  OBVIOUS
<1>2. DOMAIN Append(s, e) = 1..(Len(s) + 1)
  OBVIOUS
<1>3. \A i \in 1..Len(s) : Append(s, e)[i] = s[i]
  OBVIOUS
<1>4. Append(s, e)[Len(s) + 1] = e
  OBVIOUS
<1>5. 1..(Len(s) + 1) = 1..Len(s) \cup {Len(s) + 1}
  BY <1>1
<1> QED
  BY <1>1, <1>2, <1>3, <1>4, <1>5 DEF Elements

LEMMA TailElements ==
  ASSUME NEW S, NEW s \in Seq(S), s # <<>>
  PROVE  Elements(s) = {Head(s)} \cup Elements(Tail(s))
<1>1. DOMAIN s = 1..Len(s) /\ Len(s) \in Nat /\ Len(s) >= 1
  OBVIOUS
<1>2. DOMAIN Tail(s) = 1..(Len(s) - 1)
  OBVIOUS
<1>3. \A i \in 1..(Len(s) - 1) : Tail(s)[i] = s[i + 1]
  OBVIOUS
<1>4. Head(s) = s[1]
  OBVIOUS
<1>5. Elements(Tail(s)) \subseteq Elements(s) /\ Head(s) \in Elements(s)
  BY <1>1, <1>2, <1>3, <1>4 DEF Elements
<1>6. ASSUME NEW i \in 1..Len(s) PROVE s[i] \in {Head(s)} \cup Elements(Tail(s))
  <2>1. CASE i = 1
    BY <2>1, <1>4
  <2>2. CASE i # 1
    <3>1. i - 1 \in 1..(Len(s) - 1) /\ (i - 1) + 1 = i
      BY <1>1, <2>2
    <3>2. Tail(s)[i - 1] = s[i]
      BY <1>3, <3>1
    <3> QED
      BY <1>2, <3>1, <3>2 DEF Elements
  <2> QED
    BY <2>1, <2>2
<1> QED
  BY <1>1, <1>5, <1>6 DEF Elements

LEMMA AppendDistinct ==
  ASSUME NEW S, NEW s \in Seq(S), NEW e \in S, Distinct(s), e \notin Elements(s)
  PROVE  Distinct(Append(s, e))
<1>1. DOMAIN s = 1..Len(s) /\ Len(s) \in Nat /\ DOMAIN Append(s, e) = 1..(Len(s) + 1)
  OBVIOUS
<1>2. \A i \in 1..Len(s) : Append(s, e)[i] = s[i] /\ s[i] # e
  BY <1>1 DEF Elements
<1>3. Append(s, e)[Len(s) + 1] = e
  OBVIOUS
<1>4. \A i \in 1..(Len(s) + 1) : i \in 1..Len(s) \/ i = Len(s) + 1
  BY <1>1
<1> QED
  BY <1>1, <1>2, <1>3, <1>4 DEF Distinct

LEMMA TailDistinct ==
  ASSUME NEW S, NEW s \in Seq(S), s # <<>>, Distinct(s)
  PROVE  Distinct(Tail(s)) /\ Head(s) \notin Elements(Tail(s))
<1>1. DOMAIN s = 1..Len(s) /\ Len(s) \in Nat /\ Len(s) >= 1
  OBVIOUS
<1>2. DOMAIN Tail(s) = 1..(Len(s) - 1)
  OBVIOUS
<1>3. \A i \in 1..(Len(s) - 1) : Tail(s)[i] = s[i + 1] /\ i + 1 \in DOMAIN s /\ i + 1 # 1
  BY <1>1
<1>4. Head(s) = s[1] /\ 1 \in DOMAIN s
  BY <1>1
<1>5. \A i, j \in 1..(Len(s) - 1) : i + 1 = j + 1 => i = j
  BY <1>1
<1> QED
  BY <1>2, <1>3, <1>4, <1>5 DEF Distinct, Elements

LEMMA ConcatDistinct ==
  ASSUME NEW S, NEW s \in Seq(S), NEW r \in Seq(S), Distinct(s), Distinct(r),
         Elements(s) \cap Elements(r) = {}
  PROVE  Distinct(s \o r)
<1> DEFINE q == s \o r
<1>1. /\ DOMAIN s = 1..Len(s) /\ Len(s) \in Nat
      /\ DOMAIN r = 1..Len(r) /\ Len(r) \in Nat
      /\ DOMAIN q = 1..(Len(s) + Len(r))
  OBVIOUS
<1>2. \A i \in 1..Len(s) : q[i] = s[i]
  OBVIOUS
<1>3. \A i \in DOMAIN q : i \notin 1..Len(s) => i - Len(s) \in DOMAIN r /\ q[i] = r[i - Len(s)]
  BY <1>1
<1>4. \A i, j \in DOMAIN q : i - Len(s) = j - Len(s) => i = j
  BY <1>1
<1>5. ASSUME NEW i \in DOMAIN q, NEW j \in DOMAIN q, q[i] = q[j] PROVE i = j
  <2>1. CASE i \in 1..Len(s) /\ j \in 1..Len(s)
    BY <1>1, <1>2, <1>5, <2>1 DEF Distinct
  <2>2. CASE i \notin 1..Len(s) /\ j \notin 1..Len(s)
    BY <1>3, <1>4, <1>5, <2>2 DEF Distinct
  <2>3. CASE i \in 1..Len(s) /\ j \notin 1..Len(s)
    BY <1>1, <1>2, <1>3, <1>5, <2>3 DEF Elements
  <2>4. CASE i \notin 1..Len(s) /\ j \in 1..Len(s)
    BY <1>1, <1>2, <1>3, <1>5, <2>4 DEF Elements
  <2> QED
    BY <2>1, <2>2, <2>3, <2>4
<1> QED
  BY <1>5 DEF Distinct

-------------------------------------------------------------------------------
(* Before the beginning: the pool and the connections.                     *)

\* Before the pool is activated nothing is in its channels, nor on its way there.
PoolFirst ==
  pools = 0 => /\ \A k \in Workers : jobs[k] = <<>>
               /\ \A c \in Clients : pc[c] # "submit"

\* A connection that has not joined has no messages, and its write pump starts when
\* it has.
Joining == {"out", "check", "activate", "joined", "replay"}
NotYetIn ==
  \A c \in Clients :
    /\ pc[c] = "out" => owed[c] = {} /\ written[c] = <<>>
    /\ pc[c] \in Joining => pump[c] = "off"

LEMMA EntryHolds == Spec => [](PoolFirst /\ NotYetIn)
<1> DEFINE Given == TypeOK /\ HasFrame /\ ChannelsOpenWhileMember
           EInv == PoolFirst /\ NotYetIn
<1>1. Init => EInv
  BY DEF Init, PoolFirst, NotYetIn
<1>2. Given /\ EInv /\ [Next]_vars => EInv'
  <2> SUFFICES ASSUME TypeOK, ChannelsOpenWhileMember, PoolFirst, NotYetIn, [Next]_vars
               PROVE  PoolFirst' /\ NotYetIn'
    OBVIOUS
  <2> USE DEF roomVars, localVars, handlerVars, clientVars, workerVars, stopVars,
             historyVars
  <2>1. ASSUME UNCHANGED <<pools, jobs, owed, written>>,
               \A c \in Clients : /\ pc'[c] = "out" => pc[c] = "out"
                                  /\ pc'[c] = "submit" => pc[c] = "submit"
                                  /\ pc'[c] \in Joining => pc[c] \in Joining
                                  /\ pump'[c] = pump[c] \/ pc[c] \notin Joining
        PROVE  PoolFirst' /\ NotYetIn'
    BY <2>1 DEF PoolFirst, NotYetIn
  <2>2. ASSUME NEW c \in Clients, Add(c) \/ CheckPool(c) \/ ReadError(c) \/ Remove(c)
        PROVE  PoolFirst' /\ NotYetIn'
    <3>1. \A d \in Clients : \/ pc'[d] = pc[d]
                             \/ pc'[d] \in {"leaving", "gone"}
                             \/ /\ pc[d] \in {"out", "check"}
                                /\ pc'[d] \in {"check", "activate", "joined"}
      BY <2>2 DEF Add, CheckPool, ReadError, Remove, Goto, TypeOK
    <3> QED
      BY <2>1, <2>2, <3>1 DEF Add, CheckPool, ReadError, Remove, Joining
  <2>3. ASSUME NEW c \in Clients, ActivatePool(c) PROVE PoolFirst' /\ NotYetIn'
    <3>1. \A d \in Clients :
             pc'[d] = pc[d] \/ (pc[d] = "activate" /\ pc'[d] = "joined")
      BY <2>3 DEF ActivatePool, Goto, TypeOK
    <3>2. CASE pools # 0
      BY <2>1, <2>3, <3>1, <3>2 DEF ActivatePool, Recheck, Joining
    <3>3. CASE pools = 0
      <4>1. pools' # 0 /\ UNCHANGED <<owed, written, pump>>
        BY <2>3, <3>3 DEF ActivatePool, Recheck
      <4> QED
        BY <3>1, <4>1 DEF PoolFirst, NotYetIn, Joining
    <3> QED
      BY <3>2, <3>3
  <2>4. ASSUME NEW c \in Clients, Run(c) PROVE PoolFirst' /\ NotYetIn'
    <3>1. \A d \in Clients : d # c => pc'[d] = pc[d] /\ pump'[d] = pump[d]
      BY <2>4 DEF Run, Goto, TypeOK
    <3>2. pc'[c] = "reading" /\ UNCHANGED <<pools, jobs, owed, written>>
      BY <2>4 DEF Run, Goto, TypeOK
    <3> QED
      BY <3>1, <3>2 DEF PoolFirst, NotYetIn, Joining
  <2>5. ASSUME NEW c \in Clients, ReadFrame(c) PROVE PoolFirst' /\ NotYetIn'
    <3>1. \A d \in Clients : d # c => pc'[d] = pc[d]
      BY <2>5 DEF ReadFrame, Goto, TypeOK
    <3>2. pc'[c] \in {"reading", "inline"} \/ (pools # 0 /\ pc'[c] = "submit")
      BY <2>5 DEF ReadFrame, Goto, TypeOK
    <3>3. \A d \in Clients : pc[d] = "out" => owed'[d] = owed[d]
      BY <2>5 DEF ReadFrame, Snapshot, ChannelsOpenWhileMember
    <3>4. UNCHANGED <<pools, jobs, written, pump>>
      BY <2>5 DEF ReadFrame
    <3>5. PoolFirst'
      BY <3>1, <3>2, <3>4 DEF PoolFirst
    <3>6. NotYetIn'
      BY <3>1, <3>2, <3>3, <3>4 DEF NotYetIn, Joining
    <3> QED
      BY <3>5, <3>6
  <2>6. ASSUME NEW c \in Clients, ReadTooLong(c) PROVE PoolFirst' /\ NotYetIn'
    <3>1. \A d \in Clients : pc'[d] = pc[d] \/ pc'[d] = "leaving"
      BY <2>6 DEF ReadTooLong, Goto, TypeOK
    <3> QED
      BY <2>1, <2>6, <3>1 DEF ReadTooLong, Joining
  <2>7. ASSUME NEW c \in Clients, NEW t \in Clients, InlineSend(c, t)
        PROVE  PoolFirst' /\ NotYetIn'
    <3>1. \A d \in Clients : pc'[d] = pc[d] \/ pc'[d] \in {"leaving", "reading"}
      BY <2>7 DEF InlineSend, Panic, Served, Goto, TypeOK
    <3> QED
      BY <2>1, <2>7, <3>1 DEF InlineSend, Joining
  <2>8. ASSUME NEW c \in Clients, NEW T \in SUBSET Clients, SubmitShard(c, T)
        PROVE  PoolFirst' /\ NotYetIn'
    <3>1. \A d \in Clients : pc'[d] = pc[d] \/ pc'[d] \in {"leaving", "reading"}
      BY <2>8 DEF SubmitShard, Panic, Served, Goto, TypeOK
    <3>2. pools # 0 /\ UNCHANGED <<pools, owed, written, pump>>
      BY <2>8 DEF SubmitShard, PoolFirst
    <3> QED
      BY <3>1, <3>2 DEF PoolFirst, NotYetIn, Joining
  <2>9. ASSUME NEW c \in Clients, PumpWrite(c) PROVE PoolFirst' /\ NotYetIn'
    <3>1. pump[c] = "on" /\ \A d \in Clients : d # c => written'[d] = written[d]
      BY <2>9 DEF PumpWrite, Serving, TypeOK
    <3>2. UNCHANGED <<pools, jobs, pc, owed, pump>>
      BY <2>9 DEF PumpWrite
    <3> QED
      BY <3>1, <3>2 DEF PoolFirst, NotYetIn, Joining
  <2>10. ASSUME NEW c \in Clients, PumpFail(c) \/ PumpStop(c)
         PROVE  PoolFirst' /\ NotYetIn'
    <3>1. pump[c] = "on" /\ \A d \in Clients : d # c => pump'[d] = pump[d]
      BY <2>10 DEF PumpFail, PumpStop, Serving, TypeOK
    <3> QED
      BY <2>1, <2>10, <3>1 DEF PumpFail, PumpStop, NotYetIn
  <2>11. ASSUME NEW k \in Workers, WorkerTake(k) PROVE PoolFirst' /\ NotYetIn'
    <3>1. pools # 0 /\ UNCHANGED <<pools, pc, owed, written, pump>>
      BY <2>11 DEF WorkerTake, Idle
    <3> QED
      BY <3>1 DEF PoolFirst, NotYetIn
  <2>12. ASSUME NEW k \in Workers, (\E t \in Clients : WorkerSend(k, t)) \/ WorkerExit(k)
         PROVE  PoolFirst' /\ NotYetIn'
    BY <2>1, <2>12 DEF WorkerSend, WorkerExit
  <2>13. ASSUME Stop PROVE PoolFirst' /\ NotYetIn'
    BY <2>1, <2>13 DEF Stop, Closing, ShutdownStart, CloseWorker, ShutdownWait
  <2>14. ASSUME UNCHANGED vars PROVE PoolFirst' /\ NotYetIn'
    BY <2>1, <2>14 DEF vars
  <2>15. ASSUME NEW c \in Clients, Query(c) PROVE PoolFirst' /\ NotYetIn'
    <3>1. \A d \in Clients :
             pc'[d] = pc[d] \/ (pc[d] = "joined" /\ pc'[d] = "replay")
      BY <2>15, QueryFrame DEF TypeOK
    <3> QED
      BY <2>1, <2>15, <3>1, QueryFrame DEF Joining
  <2>16. ASSUME NEW c \in Clients, NEW m \in Old, Replay(c, m)
         PROVE  PoolFirst' /\ NotYetIn'
    BY <2>1, <2>16, ReplayFrame
  <2> QED
    BY <2>2, <2>3, <2>4, <2>5, <2>6, <2>7, <2>8, <2>9, <2>10, <2>11, <2>12, <2>13, <2>14,
       <2>15, <2>16
    DEF Next, Handler, Peer, Pump, Worker, Terminated
<1> QED
  BY <1>1, <1>2, TypeCorrect, ChannelsOpen, PTL DEF Spec

-------------------------------------------------------------------------------
(* How a message moves from place to place.                                *)

LEMMA HandlerHas ==
  ASSUME NEW t, NEW m
  PROVE  m \in WithHandler(t) <=>
           \E c \in Clients : pc[c] \in Broadcasting /\ t \in todo[c] /\ m = Current(c)
  BY DEF WithHandler

LEMMA WorkersHave ==
  ASSUME NEW t, NEW m
  PROVE  m \in WithWorkers(t) <=>
           \E k \in Workers : \E j \in Elements(jobs[k]) \cup {cur[k]} :
             t \in j.to /\ m = j.msg
  BY DEF WithWorkers

LEMMA LeftHas ==
  ASSUME NEW t, NEW m
  PROVE  m \in LeftBehind(t) <=>
           \E c \in Clients : BrokenOff(c) /\ t \in todo[c] /\ m = Current(c)
  BY DEF LeftBehind

\* A non-blocking send puts the message into the channel or on the record.
LEMMA SendRawPlaces ==
  ASSUME TypeOK, NEW t \in Clients, NEW m \in Wire, SendRaw(t, m), UNCHANGED written
  PROVE  /\ \A u \in Clients : u # t => send'[u] = send[u] /\ dropped'[u] = dropped[u]
         /\ \/ /\ send'[t] = Append(send[t], m) /\ dropped'[t] = dropped[t]
               /\ Elements(send'[t]) = Elements(send[t]) \cup {m}
            \/ send'[t] = send[t] /\ dropped'[t] = dropped[t] \cup {m}
<1>1. m \in Msg /\ send[t] \in Seq(Msg)
  BY DEF Wire, TypeOK
<1>2. CASE Full(t)
  BY <1>2 DEF SendRaw, TypeOK
<1>3. CASE ~Full(t)
  BY <1>1, <1>3, AppendElements DEF SendRaw, TypeOK
<1> QED
  BY <1>2, <1>3

\* A handler that has served T has the message for the others only.
LEMMA ServedPlaces ==
  ASSUME TypeOK, NEW c \in Clients, NEW T, Served(c, T), pc[c] \in Broadcasting,
         UNCHANGED frames, NEW t \in Clients
  PROVE  /\ WithHandler(t)' \subseteq WithHandler(t)
         /\ t \in T => Current(c) \notin WithHandler(t)'
         /\ WithHandler(t) \subseteq WithHandler(t)' \cup {Current(c)}
         /\ t \notin T => WithHandler(t) \subseteq WithHandler(t)'
         /\ LeftBehind(t)' = LeftBehind(t)
<1>1. \A d \in Clients : d # c => pc'[d] = pc[d] /\ todo'[d] = todo[d]
  BY DEF Served, Goto, TypeOK
<1>2. /\ todo'[c] = todo[c] \ T
      /\ pc'[c] = IF todo[c] \subseteq T THEN "reading" ELSE pc[c]
  BY DEF Served, Goto, TypeOK
<1>3. \A d \in Clients : Current(d)' = Current(d) /\ Current(d).from = d
  BY DEF Current
<1>4. WithHandler(t)' \subseteq WithHandler(t)
  BY <1>1, <1>2, <1>3 DEF WithHandler
<1>5. t \in T => Current(c) \notin WithHandler(t)'
  BY <1>2, <1>3 DEF WithHandler
<1>6. WithHandler(t) \subseteq WithHandler(t)' \cup {Current(c)}
  BY <1>1, <1>3 DEF WithHandler
<1>7. t \notin T => WithHandler(t) \subseteq WithHandler(t)'
  BY <1>1, <1>2, <1>3 DEF WithHandler
<1>8. \A d \in Clients : /\ BrokenOff(d)' <=> BrokenOff(d)
                         /\ BrokenOff(d) => todo'[d] = todo[d]
  BY <1>1, <1>2 DEF BrokenOff, Broadcasting
<1>9. LeftBehind(t)' = LeftBehind(t)
  BY <1>3, <1>8 DEF LeftBehind
<1> QED
  BY <1>4, <1>5, <1>6, <1>7, <1>9

\* A broadcast that breaks off leaves behind what its handler still had.
LEMMA PanicPlaces ==
  ASSUME TypeOK, NEW c \in Clients, Panic(c), pc[c] \in Broadcasting,
         UNCHANGED frames, NEW t \in Clients
  PROVE  /\ WithHandler(t)' \subseteq WithHandler(t)
         /\ WithHandler(t) \cup LeftBehind(t) \subseteq WithHandler(t)' \cup LeftBehind(t)'
<1>1. /\ \A d \in Clients : d # c => pc'[d] = pc[d]
      /\ pc'[c] = "leaving" /\ todo' = todo
  BY DEF Panic, Goto, TypeOK
<1>2. \A d \in Clients : Current(d)' = Current(d)
  BY DEF Current
<1>3. WithHandler(t)' \subseteq WithHandler(t)
  BY <1>1, <1>2 DEF WithHandler, Broadcasting
<1>4. ASSUME NEW d \in Clients, pc[d] \in Broadcasting, t \in todo[d]
      PROVE  (pc'[d] \in Broadcasting \/ BrokenOff(d)') /\ t \in todo'[d]
  BY <1>1, <1>4 DEF BrokenOff, Broadcasting
<1>5. ASSUME NEW d \in Clients, BrokenOff(d), t \in todo[d]
      PROVE  BrokenOff(d)' /\ t \in todo'[d]
  BY <1>1, <1>5 DEF BrokenOff, Broadcasting
<1> QED
  BY <1>2, <1>3, <1>4, <1>5 DEF WithHandler, LeftBehind

\* A job that a worker takes stays with the workers.
LEMMA TakePlaces ==
  ASSUME TypeOK, NEW k \in Workers, WorkerTake(k), NEW t \in Clients
  PROVE  WithWorkers(t)' = WithWorkers(t)
<1>1. /\ jobs[k] \in Seq(Job) /\ jobs[k] # <<>> /\ cur[k].to = {}
      /\ cur'[k] = Head(jobs[k]) /\ jobs'[k] = Tail(jobs[k])
      /\ \A l \in Workers : l # k => cur'[l] = cur[l] /\ jobs'[l] = jobs[l]
  BY DEF WorkerTake, Idle, OldestFirst, TypeOK
<1>2. Elements(jobs[k]) = {Head(jobs[k])} \cup Elements(Tail(jobs[k]))
  BY <1>1, TailElements
<1> DEFINE Of(J, m) == \E j \in J : t \in j.to /\ m = j.msg
           Held(l)  == Elements(jobs[l]) \cup {cur[l]}
           Holds(l) == Elements(jobs'[l]) \cup {cur'[l]}
<1>3. Elements(jobs'[k]) \cup {cur'[k]} = Elements(jobs[k])
  BY <1>1, <1>2
<1>4. \A m : Of(Holds(k), m) <=> Of(Held(k), m)
  BY <1>1, <1>3
<1>5. \A l \in Workers : l # k => Holds(l) = Held(l)
  BY <1>1
<1>6. \A m : (\E l \in Workers : Of(Holds(l), m)) <=> (\E l \in Workers : Of(Held(l), m))
  BY <1>4, <1>5
<1>7. \A m : m \in WithWorkers(t) <=> \E l \in Workers : Of(Held(l), m)
  BY WorkersHave
<1>8. \A m : m \in WithWorkers(t)' <=> \E l \in Workers : Of(Holds(l), m)
  BY DEF WithWorkers
<1> QED
  BY <1>6, <1>7, <1>8

\* A shard that is accepted is with the workers.
LEMMA AcceptPlaces ==
  ASSUME TypeOK, NEW k \in Workers, NEW j \in Job,
         jobs' = [jobs EXCEPT ![k] = Append(@, j)], UNCHANGED cur, NEW t \in Clients
  PROVE  WithWorkers(t)' = WithWorkers(t) \cup (IF t \in j.to THEN {j.msg} ELSE {})
<1>1. Elements(jobs'[k]) = Elements(jobs[k]) \cup {j}
  BY AppendElements DEF TypeOK
<1>2. \A l \in Workers : l # k => jobs'[l] = jobs[l]
  BY DEF TypeOK
<1>3. \A m : m \in WithWorkers(t)' <=>
         \E l \in Workers : \E i \in Elements(jobs'[l]) \cup {cur[l]} : t \in i.to /\ m = i.msg
  BY DEF WithWorkers
<1>4. \A m : m \in WithWorkers(t)' => m \in WithWorkers(t) \/ (t \in j.to /\ m = j.msg)
  BY <1>1, <1>2, <1>3, WorkersHave
<1>5. \A m : m \in WithWorkers(t) => m \in WithWorkers(t)'
  BY <1>1, <1>2, <1>3, WorkersHave
<1>6. t \in j.to => j.msg \in WithWorkers(t)'
  BY <1>1, <1>3
<1> QED
  BY <1>4, <1>5, <1>6

\* What a worker has served client t of is no longer with it.
LEMMA WorkerSendPlaces ==
  ASSUME TypeOK, NEW k \in Workers, NEW t \in Clients, t \in cur[k].to,
         cur' = [cur EXCEPT ![k] = Without(cur[k], t)], UNCHANGED jobs, NEW u \in Clients
  PROVE  /\ WithWorkers(u)' \subseteq WithWorkers(u)
         /\ WithWorkers(u) \subseteq WithWorkers(u)' \cup {cur[k].msg}
         /\ u # t => WithWorkers(u) \subseteq WithWorkers(u)'
<1>1. /\ \A l \in Workers : l # k => cur'[l] = cur[l]
      /\ cur'[k] = Without(cur[k], t)
  BY DEF TypeOK
<1>2. /\ cur'[k].to = cur[k].to \ {t}
      /\ cur'[k].to # {} => cur'[k].msg = cur[k].msg
  BY <1>1 DEF Without, NoJob
<1>3. \A m : m \in WithWorkers(u)' <=>
         \E l \in Workers : \E i \in Elements(jobs[l]) \cup {cur'[l]} : u \in i.to /\ m = i.msg
  BY DEF WithWorkers
<1>4. \A m : m \in WithWorkers(u)' => m \in WithWorkers(u)
  BY <1>1, <1>2, <1>3, WorkersHave
<1>5. \A m : m \in WithWorkers(u) => m \in WithWorkers(u)' \/ m = cur[k].msg
  BY <1>1, <1>3, WorkersHave
<1>6. \A m : u # t /\ m \in WithWorkers(u) => m \in WithWorkers(u)'
  BY <1>1, <1>2, <1>3, WorkersHave
<1> QED
  BY <1>4, <1>5, <1>6

-------------------------------------------------------------------------------
(* Nothing is lost off the record.                                         *)

Accounted(t) == Received(t) \cup WithHandler(t) \cup WithWorkers(t) \cup dropped[t]
                \cup LeftBehind(t)

\* A message stays accounted for while its client is served (room.go:59-91,
\* broadcast_pool.go:40-68, client.go:136-142): each step that takes it from one
\* place puts it into the next, or on the record.  In particular the second look of
\* activatePool keeps the jobs of the first pool.
THEOREM NothingLost == Spec => []NoSilentLoss
<1> DEFINE Given == TypeOK /\ HasFrame /\ ChannelsOpenWhileMember /\ PoolFirst /\ NotYetIn
<1>1. Init => NoSilentLoss
  BY DEF Init, NoSilentLoss
<1>2. Given /\ NoSilentLoss /\ [Next]_vars => NoSilentLoss'
  <2> SUFFICES ASSUME TypeOK, HasFrame, ChannelsOpenWhileMember, PoolFirst, NotYetIn,
                      NoSilentLoss, [Next]_vars
               PROVE  NoSilentLoss'
    OBVIOUS
  <2> USE DEF roomVars, localVars, handlerVars, clientVars, workerVars, stopVars,
             historyVars
  <2>1. \A t \in clients : pump[t] # "done" => owed[t] \subseteq Accounted(t)
    BY DEF NoSilentLoss, Accounted
  <2>2. ASSUME \A t \in Clients : t \in clients' /\ pump'[t] # "done" =>
                 \/ owed'[t] = {}
                 \/ /\ t \in clients /\ pump[t] # "done" /\ owed'[t] = owed[t]
                    /\ Accounted(t) \subseteq Accounted(t)',
               clients' \subseteq Clients
        PROVE  NoSilentLoss'
    BY <2>1, <2>2 DEF NoSilentLoss, Accounted
  <2>3. ASSUME UNCHANGED <<send, written, jobs, cur, dropped, frames, todo>>,
               \A d \in Clients : \/ pc'[d] = pc[d]
                                  \/ /\ pc[d] \notin Broadcasting \cup {"leaving", "gone"}
                                     /\ pc'[d] \notin Broadcasting
                                  \/ /\ pc[d] \notin Broadcasting
                                     /\ pc'[d] \in {"leaving", "gone"},
               NEW t \in Clients
        PROVE  Accounted(t) \subseteq Accounted(t)'
    <3>1. Received(t)' = Received(t) /\ WithWorkers(t)' = WithWorkers(t)
      BY <2>3 DEF Received, WithWorkers
    <3>2. WithHandler(t) \subseteq WithHandler(t)' /\ LeftBehind(t) \subseteq LeftBehind(t)'
      BY <2>3 DEF WithHandler, LeftBehind, BrokenOff, Broadcasting, Current
    <3> QED
      BY <2>3, <3>1, <3>2 DEF Accounted
  <2>4. ASSUME NEW c \in Clients, Add(c) PROVE NoSilentLoss'
    <3>1. /\ pc[c] = "out" /\ pc'[c] \in {"check", "joined"}
          /\ \A d \in Clients : d # c => pc'[d] = pc[d]
          /\ UNCHANGED <<send, written, jobs, cur, dropped, frames, todo, owed, pump>>
          /\ clients' = clients \cup {c}
      BY <2>4 DEF Add, Goto, TypeOK
    <3>2. \A t \in Clients : Accounted(t) \subseteq Accounted(t)'
      BY <2>3, <3>1 DEF Broadcasting
    <3>3. owed'[c] = {}
      BY <3>1 DEF NotYetIn
    <3> QED
      BY <2>2, <3>1, <3>2, <3>3 DEF TypeOK
  <2>5. ASSUME NEW c \in Clients,
               CheckPool(c) \/ Query(c) \/ Run(c) \/ ReadError(c) \/ Remove(c) \/ ActivatePool(c)
        PROVE  NoSilentLoss'
    <3>1. jobs' = jobs
      <4>1. CASE ActivatePool(c) /\ pools = 0
        <5>1. jobs' = [k \in Workers |-> <<>>]
          BY <4>1 DEF ActivatePool, Recheck, FreshChannels
        <5>2. \A k \in Workers : jobs[k] = <<>>
          BY <4>1 DEF PoolFirst
        <5>3. jobs = [k \in Workers |-> jobs[k]]
          BY DEF TypeOK
        <5> QED
          BY <5>1, <5>2, <5>3
      <4> QED
        BY <2>5, <4>1 DEF CheckPool, Query, Run, ReadError, Remove, ActivatePool, Recheck
    <3>2. UNCHANGED <<send, written, cur, dropped, frames, todo, owed>>
      BY <2>5 DEF CheckPool, Query, Run, ReadError, Remove, ActivatePool, Recheck
    <3>3. \A d \in Clients : \/ pc'[d] = pc[d]
                             \/ /\ pc[d] \in {"check", "activate", "joined", "replay"}
                                /\ pc'[d] \in {"activate", "joined", "replay", "reading"}
                             \/ /\ pc[d] \in {"reading", "leaving"}
                                /\ pc'[d] \in {"leaving", "gone"}
      BY <2>5 DEF CheckPool, Query, Run, ReadError, Remove, ActivatePool, Goto, TypeOK
    <3>4. \A t \in Clients : Accounted(t) \subseteq Accounted(t)'
      BY <2>3, <3>1, <3>2, <3>3 DEF Broadcasting
    <3>5. clients' \subseteq clients
      BY <2>5 DEF CheckPool, Query, Run, ReadError, Remove, ActivatePool
    <3>6. \A t \in Clients : pump'[t] # "done" => pump[t] # "done"
      <4>1. CASE Run(c)
        <5>1. pump[c] = "off" /\ \A t \in Clients : t # c => pump'[t] = pump[t]
          BY <4>1 DEF Run, NotYetIn, Joining, TypeOK
        <5> QED
          BY <5>1
      <4> QED
        BY <2>5, <4>1 DEF CheckPool, Query, ReadError, Remove, ActivatePool
    <3> QED
      BY <2>2, <3>2, <3>4, <3>5, <3>6 DEF TypeOK
  <2>6. ASSUME NEW c \in Clients, ReadFrame(c) PROVE NoSilentLoss'
    <3>1. /\ pc[c] = "reading" /\ todo'[c] = Snapshot(c)
          /\ Snapshot(c) # {} => pc'[c] \in Broadcasting
          /\ \A d \in Clients : d # c => /\ pc'[d] = pc[d] /\ todo'[d] = todo[d]
                                        /\ frames'[d] = frames[d]
          /\ UNCHANGED <<send, written, jobs, cur, dropped, clients, pump>>
          /\ \A t \in Clients : owed'[t] = IF t \in Snapshot(c)
                                            THEN owed[t] \cup {Current(c)'} ELSE owed[t]
      BY <2>6 DEF ReadFrame, Goto, TypeOK, Broadcasting
    <3>2. ASSUME NEW t \in Clients
          PROVE  /\ Accounted(t) \subseteq Accounted(t)'
                 /\ t \in Snapshot(c) => Current(c)' \in Accounted(t)'
      <4>1. Received(t)' = Received(t) /\ WithWorkers(t)' = WithWorkers(t)
        BY <3>1 DEF Received, WithWorkers
      <4>2. /\ WithHandler(t) \subseteq WithHandler(t)'
            /\ LeftBehind(t) \subseteq LeftBehind(t)'
        BY <3>1 DEF WithHandler, LeftBehind, BrokenOff, Broadcasting, Current
      <4>3. t \in Snapshot(c) => Current(c)' \in WithHandler(t)'
        BY <3>1 DEF WithHandler
      <4> QED
        BY <3>1, <4>1, <4>2, <4>3 DEF Accounted
    <3>3. ASSUME NEW t \in clients, pump[t] # "done" PROVE owed'[t] \subseteq Accounted(t)'
      <4>1. t \in Clients /\ owed[t] \subseteq Accounted(t)
        BY <2>1, <3>3 DEF TypeOK
      <4> QED
        BY <3>1, <3>2, <4>1
    <3> QED
      BY <3>1, <3>3 DEF NoSilentLoss, Accounted
  <2>7. ASSUME NEW c \in Clients, ReadTooLong(c) PROVE NoSilentLoss'
    <3> DEFINE e == [from |-> c, seq |-> frames[c] + 1, kind |-> "error"]
    <3>1. /\ pc[c] = "reading" /\ pc'[c] \notin Broadcasting
          /\ \A d \in Clients : d # c => pc'[d] = pc[d] /\ frames'[d] = frames[d]
          /\ UNCHANGED <<todo, written, jobs, cur, dropped, clients, pump, owed>>
      BY <2>7 DEF ReadTooLong, Goto, TypeOK, Broadcasting
    <3>2. \A t \in Clients : Elements(send[t]) \subseteq Elements(send'[t])
      <4>1. e \in Msg /\ send[c] \in Seq(Msg)
        <5>1. frames[c] + 1 \in 1..MaxFrames
          BY <2>7, BoundsAssumption DEF ReadTooLong, MoreFrames, TypeOK
        <5> QED
          BY <5>1 DEF Msg, TypeOK
      <4>2. Elements(Append(send[c], e)) = Elements(send[c]) \cup {e}
        BY <4>1, AppendElements
      <4>3. send' = send \/ send' = [send EXCEPT ![c] = Append(@, e)]
        BY <2>7 DEF ReadTooLong
      <4> QED
        BY <4>2, <4>3 DEF TypeOK
    <3>3. ASSUME NEW t \in Clients PROVE Accounted(t) \subseteq Accounted(t)'
      <4>1. Received(t) \subseteq Received(t)' /\ WithWorkers(t)' = WithWorkers(t)
        BY <3>1, <3>2 DEF Received, WithWorkers
      <4>2. /\ WithHandler(t) \subseteq WithHandler(t)'
            /\ LeftBehind(t) \subseteq LeftBehind(t)'
        BY <3>1 DEF WithHandler, LeftBehind, BrokenOff, Broadcasting, Current
      <4> QED
        BY <3>1, <4>1, <4>2 DEF Accounted
    <3> QED
      BY <2>2, <3>1, <3>3 DEF TypeOK
  <2>8. ASSUME NEW c \in Clients, NEW t \in Clients, InlineSend(c, t)
        PROVE  NoSilentLoss'
    <3>1. /\ pc[c] \in Broadcasting /\ Current(c) \in Wire
          /\ UNCHANGED <<frames, written, jobs, cur, clients, pump, owed>>
      BY <2>8, CurrentType DEF InlineSend, Broadcasting, HasFrame
    <3>2. ASSUME NEW u \in Clients PROVE Accounted(u) \subseteq Accounted(u)'
      <4>1. WithWorkers(u)' = WithWorkers(u)
        BY <3>1 DEF WithWorkers
      <4>2. CASE Panic(c) /\ UNCHANGED <<send, dropped>>
        <5>1. WithHandler(u) \cup LeftBehind(u) \subseteq WithHandler(u)' \cup LeftBehind(u)'
          BY <3>1, <4>2, PanicPlaces
        <5>2. Received(u)' = Received(u)
          BY <3>1, <4>2 DEF Received
        <5> QED
          BY <4>1, <4>2, <5>1, <5>2 DEF Accounted
      <4>3. CASE SendRaw(t, Current(c)) /\ Served(c, {t})
        <5>1. /\ WithHandler(u) \subseteq WithHandler(u)' \cup {Current(c)}
              /\ u # t => WithHandler(u) \subseteq WithHandler(u)'
              /\ LeftBehind(u)' = LeftBehind(u)
          BY <3>1, <4>3, ServedPlaces
        <5>2. /\ Received(u) \subseteq Received(u)' /\ dropped[u] \subseteq dropped'[u]
              /\ u = t => Current(c) \in Received(u)' \cup dropped'[u]
          BY <3>1, <4>3, SendRawPlaces DEF Received
        <5> QED
          BY <4>1, <5>1, <5>2 DEF Accounted
      <4> QED
        BY <2>8, <4>2, <4>3 DEF InlineSend
    <3> QED
      BY <2>2, <3>1, <3>2 DEF TypeOK
  <2>9. ASSUME NEW c \in Clients, NEW T \in SUBSET Clients, SubmitShard(c, T)
        PROVE  NoSilentLoss'
    <3> DEFINE k == shard[c]
               j == [msg |-> Current(c), to |-> T]
    <3>1. /\ pc[c] \in Broadcasting /\ Current(c) \in Wire
          /\ UNCHANGED <<frames, send, written, cur, clients, pump, owed>>
      BY <2>9, CurrentType DEF SubmitShard, Broadcasting, HasFrame
    <3>2. ASSUME NEW u \in Clients PROVE Accounted(u) \subseteq Accounted(u)'
      <4>1. Received(u)' = Received(u)
        BY <3>1 DEF Received
      <4>2. CASE Panic(c) /\ UNCHANGED <<jobs, dropped>>
        <5>1. WithHandler(u) \cup LeftBehind(u) \subseteq WithHandler(u)' \cup LeftBehind(u)'
          BY <3>1, <4>2, PanicPlaces
        <5>2. WithWorkers(u)' = WithWorkers(u)
          BY <3>1, <4>2 DEF WithWorkers
        <5> QED
          BY <4>1, <4>2, <5>1, <5>2 DEF Accounted
      <4>3. CASE Served(c, T)
        <5>1. /\ WithHandler(u) \subseteq WithHandler(u)' \cup {Current(c)}
              /\ u \notin T => WithHandler(u) \subseteq WithHandler(u)'
              /\ LeftBehind(u)' = LeftBehind(u)
          BY <3>1, <4>3, ServedPlaces
        <5>2. CASE UNCHANGED dropped /\ k \in Workers /\ jobs' = [jobs EXCEPT ![k] = Append(@, j)]
          <6>1. j \in Job
            BY <3>1 DEF Job
          <6>2. WithWorkers(u)' = WithWorkers(u) \cup (IF u \in j.to THEN {j.msg} ELSE {})
            BY <3>1, <5>2, <6>1, AcceptPlaces
          <6> QED
            BY <4>1, <5>1, <5>2, <6>2 DEF Accounted
        <5>3. CASE UNCHANGED jobs /\ dropped' = [v \in Clients |-> IF v \in T THEN dropped[v] \cup {Current(c)}
                                                              ELSE dropped[v]]
          <6>1. WithWorkers(u)' = WithWorkers(u)
            BY <3>1, <5>3 DEF WithWorkers
          <6> QED
            BY <4>1, <5>1, <5>3, <6>1 DEF Accounted
        <5>4. CASE UNCHANGED <<jobs, dropped>> /\ Panic(c)
          BY <4>2, <5>4
        <5> QED
          BY <2>9, <5>2, <5>3, <5>4 DEF SubmitShard
      <4> QED
        BY <2>9, <4>2, <4>3 DEF SubmitShard
    <3> QED
      BY <2>2, <3>1, <3>2 DEF TypeOK
  <2>10. ASSUME NEW c \in Clients, Pump(c) PROVE NoSilentLoss'
    <3>1. /\ send[c] \in Seq(Msg) /\ written[c] \in Seq(Msg)
          /\ UNCHANGED <<pc, frames, todo, jobs, cur, dropped, clients, owed>>
          /\ \A t \in Clients : t # c => /\ send'[t] = send[t] /\ written'[t] = written[t]
                                        /\ pump'[t] = pump[t]
      BY <2>10 DEF Pump, PumpWrite, PumpFail, PumpStop, TypeOK
    <3>2. \A t \in Clients :
             WithHandler(t)' = WithHandler(t) /\ WithWorkers(t)' = WithWorkers(t)
             /\ LeftBehind(t)' = LeftBehind(t)
      BY <3>1 DEF WithHandler, WithWorkers, LeftBehind, BrokenOff, Current
    <3>3. pump'[c] # "done" => Received(c) \subseteq Received(c)' /\ pump[c] # "done"
      <4>1. CASE PumpWrite(c)
        <5>1. /\ send[c] # <<>> /\ send'[c] = Tail(send[c]) /\ pump' = pump
              /\ written'[c] = Append(written[c], Head(send[c])) /\ Head(send[c]) \in Msg
          BY <3>1, <4>1 DEF PumpWrite, TypeOK
        <5>2. Elements(send[c]) = {Head(send[c])} \cup Elements(Tail(send[c]))
          BY <3>1, <5>1, TailElements
        <5>3. Elements(Append(written[c], Head(send[c]))) = Elements(written[c]) \cup {Head(send[c])}
          BY <3>1, <5>1, AppendElements
        <5> QED
          BY <5>1, <5>2, <5>3 DEF Received
      <4>2. CASE PumpFail(c) \/ PumpStop(c)
        BY <4>2 DEF PumpFail, PumpStop, TypeOK
      <4> QED
        BY <2>10, <4>1, <4>2 DEF Pump
    <3>4. ASSUME NEW t \in Clients, pump'[t] # "done"
          PROVE  Accounted(t) \subseteq Accounted(t)' /\ pump[t] # "done"
      BY <3>1, <3>2, <3>3, <3>4 DEF Accounted, Received
    <3> QED
      BY <2>2, <3>1, <3>4 DEF TypeOK
  <2>11. ASSUME NEW k \in Workers, WorkerTake(k) PROVE NoSilentLoss'
    <3>1. UNCHANGED <<pc, frames, todo, send, written, dropped, clients, pump, owed>>
      BY <2>11 DEF WorkerTake
    <3>2. ASSUME NEW t \in Clients PROVE Accounted(t) \subseteq Accounted(t)'
      <4>1. WithWorkers(t)' = WithWorkers(t)
        BY <2>11, TakePlaces
      <4>2. Received(t)' = Received(t) /\ WithHandler(t)' = WithHandler(t)
            /\ LeftBehind(t)' = LeftBehind(t)
        BY <3>1 DEF Received, WithHandler, LeftBehind, BrokenOff, Current
      <4> QED
        BY <3>1, <4>1, <4>2 DEF Accounted
    <3> QED
      BY <2>2, <3>1, <3>2 DEF TypeOK
  <2>12. ASSUME NEW k \in Workers, NEW t \in Clients, WorkerSend(k, t)
         PROVE  NoSilentLoss'
    <3>1. /\ cur[k] \in Job /\ t \in cur[k].to
          /\ UNCHANGED <<pc, frames, todo, written, jobs, clients, pump, owed>>
      BY <2>12 DEF WorkerSend, TypeOK, NoJob
    <3>2. ASSUME NEW u \in Clients PROVE Accounted(u) \subseteq Accounted(u)'
      <4>1. WithHandler(u)' = WithHandler(u) /\ LeftBehind(u)' = LeftBehind(u)
        BY <3>1 DEF WithHandler, LeftBehind, BrokenOff, Current
      <4>2. CASE UNCHANGED <<send, dropped, cur>>
        BY <3>1, <4>1, <4>2 DEF Accounted, Received, WithWorkers
      <4>3. CASE SendRaw(t, cur[k].msg) /\ cur' = [cur EXCEPT ![k] = Without(cur[k], t)]
        <5>1. cur[k].msg \in Wire
          BY <3>1 DEF Job
        <5>2. /\ Received(u) \subseteq Received(u)' /\ dropped[u] \subseteq dropped'[u]
              /\ u = t => cur[k].msg \in Received(u)' \cup dropped'[u]
          <6> DEFINE m == cur[k].msg
          <6>1. SendRaw(t, m) /\ m \in Wire /\ written' = written
            BY <3>1, <4>3, <5>1
          <6> HIDE DEF m
          <6>2. /\ \A v \in Clients : v # t => send'[v] = send[v] /\ dropped'[v] = dropped[v]
                /\ \/ /\ Elements(send'[t]) = Elements(send[t]) \cup {m}
                      /\ dropped'[t] = dropped[t]
                   \/ send'[t] = send[t] /\ dropped'[t] = dropped[t] \cup {m}
            BY <6>1, SendRawPlaces
          <6>3. /\ Received(u) \subseteq Received(u)' /\ dropped[u] \subseteq dropped'[u]
                /\ u = t => m \in Received(u)' \cup dropped'[u]
            BY <6>1, <6>2 DEF Received
          <6> QED
            BY <6>3 DEF m
        <5>3. /\ WithWorkers(u) \subseteq WithWorkers(u)' \cup {cur[k].msg}
              /\ u # t => WithWorkers(u) \subseteq WithWorkers(u)'
          BY <3>1, <4>3, WorkerSendPlaces
        <5> QED
          BY <4>1, <5>2, <5>3 DEF Accounted
      <4> QED
        BY <2>12, <4>2, <4>3 DEF WorkerSend
    <3> QED
      BY <2>2, <3>1, <3>2 DEF TypeOK
  <2>13. ASSUME UNCHANGED <<clients, pc, frames, todo, send, written, jobs, cur, dropped, pump, owed>>
         PROVE  NoSilentLoss'
    <3>1. \A t \in Clients : Accounted(t) \subseteq Accounted(t)'
      BY <2>3, <2>13
    <3> QED
      BY <2>2, <2>13, <3>1 DEF TypeOK
  <2>14. ASSUME NEW k \in Workers, WorkerExit(k) PROVE NoSilentLoss'
    BY <2>13, <2>14 DEF WorkerExit
  <2>15. ASSUME Stop PROVE NoSilentLoss'
    BY <2>13, <2>15 DEF Stop, Closing, ShutdownStart, CloseWorker, ShutdownWait
  <2>16. ASSUME UNCHANGED vars PROVE NoSilentLoss'
    BY <2>13, <2>16 DEF vars
  <2>17. ASSUME NEW c \in Clients, NEW m \in Old, Replay(c, m) PROVE NoSilentLoss'
    <3>1. /\ UNCHANGED <<pc, frames, todo, written, jobs, cur, dropped, clients, pump, owed>>
          /\ m \in Msg /\ send'[c] \in {send[c], Append(send[c], m)}
          /\ \A t \in Clients : t # c => send'[t] = send[t]
      BY <2>17, ReplayFrame
    <3>2. \A t \in Clients : Elements(send[t]) \subseteq Elements(send'[t])
      <4>1. Elements(Append(send[c], m)) = Elements(send[c]) \cup {m}
        BY <3>1, AppendElements DEF TypeOK
      <4> QED
        BY <3>1, <4>1
    <3>3. ASSUME NEW t \in Clients PROVE Accounted(t) \subseteq Accounted(t)'
      <4>1. Received(t) \subseteq Received(t)' /\ WithWorkers(t)' = WithWorkers(t)
        BY <3>1, <3>2 DEF Received, WithWorkers
      <4>2. WithHandler(t)' = WithHandler(t) /\ LeftBehind(t)' = LeftBehind(t)
        BY <3>1 DEF WithHandler, LeftBehind, BrokenOff, Current
      <4> QED
        BY <3>1, <4>1, <4>2 DEF Accounted
    <3> QED
      BY <2>2, <3>1, <3>3 DEF TypeOK
  <2> QED
    BY <2>4, <2>5, <2>6, <2>7, <2>8, <2>9, <2>10, <2>11, <2>12, <2>14, <2>15, <2>16, <2>17
    DEF Next, Handler, Peer, Worker, Terminated
<1> QED
  BY <1>1, <1>2, TypeCorrect, ChannelsOpen, EntryHolds, PTL DEF Spec

-------------------------------------------------------------------------------
(* Nothing comes twice in the same way.  The invariant is about one client *)
(* at a time.                                                              *)

\* What is anywhere on its way to t, or owed to t, is of a frame already read; so
\* the next frame's message is new everywhere.
Read(m)    == m.seq <= frames[m.from]
AllRead(t) == \A m \in Received(t) \cup WithWorkers(t) \cup owed[t] : Read(m)

\* What is on its way to t, has reached it or was dropped is owed to t, except the
\* history and the answers to t's own over-long frames.
OnlyOwed(t) ==
  /\ dropped[t] \cup WithHandler(t) \cup WithWorkers(t) \subseteq owed[t]
  /\ \A m \in Received(t) : m \in owed[t] \/ m \in Old \/ (m \in Error /\ m.from = t)

\* The places exclude each other.
OnePlace(t) ==
  /\ Elements(written[t]) \cap Elements(send[t]) = {}
  /\ Received(t) \cap dropped[t] = {}
  /\ (Received(t) \cup dropped[t]) \cap (WithHandler(t) \cup WithWorkers(t)) = {}
  /\ WithHandler(t) \cap WithWorkers(t) = {}

Once(t) == Distinct(written[t]) /\ Distinct(send[t])

ClientInv(t) == AllRead(t) /\ OnlyOwed(t) /\ OnePlace(t) /\ Once(t)

\* Where a job of worker k is: in its hands (0), or at a place of its channel.
Slots(k)    == 0..Len(jobs[k])
JobAt(k, i) == IF i = 0 THEN cur[k] ELSE jobs[k][i]

OnceWithWorkers ==
  \A k, l \in Workers : \A i \in Slots(k), j \in Slots(l) :
    \A t \in JobAt(k, i).to \cap JobAt(l, j).to :
      JobAt(k, i).msg = JobAt(l, j).msg => k = l /\ i = j

\* What is read stays read, and what goes on nowhere for t disturbs nothing.
StaysRead == \A m \in Msg : Read(m) => Read(m)'
Lasting(t) == UNCHANGED <<written[t], owed[t]>> /\ StaysRead

\* The messages that t may have, or be owed, are messages.
LEMMA PlacesType ==
  ASSUME TypeOK, HasFrame, NEW t \in Clients
  PROVE  /\ Received(t) \subseteq Msg /\ WithWorkers(t) \subseteq Msg
         /\ owed[t] \subseteq Msg /\ dropped[t] \subseteq Msg
         /\ send[t] \in Seq(Msg) /\ written[t] \in Seq(Msg)
<1>1. Received(t) \subseteq Msg
  BY DEF TypeOK, Received, Elements
<1>2. ASSUME NEW k \in Workers, NEW j \in Elements(jobs[k]) \cup {cur[k]}, t \in j.to
      PROVE  j.msg \in Msg
  <2>1. j \in Job \cup {NoJob}
    BY DEF TypeOK, Elements
  <2>2. j \in Job
    BY <1>2, <2>1 DEF NoJob
  <2> QED
    BY <2>2 DEF Job, Wire
<1>3. WithWorkers(t) \subseteq Msg
  BY <1>2, WorkersHave
<1> QED
  BY <1>1, <1>3 DEF TypeOK, Wire

LEMMA Quiet ==
  ASSUME TypeOK, HasFrame, NEW t \in Clients, ClientInv(t), Lasting(t),
         UNCHANGED <<send[t], dropped[t]>>,
         WithHandler(t)' \subseteq WithHandler(t), WithWorkers(t)' \subseteq WithWorkers(t)
  PROVE  ClientInv(t)'
<1>1. Received(t)' = Received(t)
  BY DEF Lasting, Received
<1>2. AllRead(t)'
  BY <1>1, PlacesType DEF ClientInv, AllRead, Lasting, StaysRead
<1>3. OnlyOwed(t)'
  BY <1>1 DEF ClientInv, OnlyOwed, Lasting
<1>4. OnePlace(t)'
  BY <1>1 DEF ClientInv, OnePlace, Lasting
<1>5. Once(t)'
  BY DEF ClientInv, Once, Lasting
<1> QED
  BY <1>2, <1>3, <1>4, <1>5 DEF ClientInv

\* A new message is with its handler.
LEMMA Published ==
  ASSUME TypeOK, HasFrame, NEW t \in Clients, ClientInv(t), StaysRead,
         UNCHANGED <<written[t], send[t], dropped[t]>>,
         NEW m, ~Read(m), Read(m)', owed'[t] = owed[t] \cup {m},
         WithHandler(t)' \subseteq WithHandler(t) \cup {m}, WithWorkers(t)' = WithWorkers(t)
  PROVE  ClientInv(t)'
<1>1. Received(t)' = Received(t)
  BY DEF Received
<1>2. m \notin Received(t) \cup WithWorkers(t) \cup owed[t]
  BY DEF ClientInv, AllRead
<1>3. AllRead(t)'
  BY <1>1, PlacesType DEF ClientInv, AllRead, StaysRead
<1>4. OnlyOwed(t)'
  BY <1>1 DEF ClientInv, OnlyOwed
<1>5. OnePlace(t)'
  BY <1>1, <1>2 DEF ClientInv, OnePlace, OnlyOwed
<1>6. Once(t)'
  BY DEF ClientInv, Once
<1> QED
  BY <1>3, <1>4, <1>5, <1>6 DEF ClientInv

\* A message goes from its handler, or a worker, into the channel of t.
LEMMA Sent ==
  ASSUME TypeOK, HasFrame, NEW t \in Clients, ClientInv(t), Lasting(t),
         UNCHANGED dropped[t], NEW m \in WithHandler(t) \cup WithWorkers(t), m \in Msg,
         send'[t] = Append(send[t], m),
         WithHandler(t)' \subseteq WithHandler(t), WithWorkers(t)' \subseteq WithWorkers(t),
         m \notin WithHandler(t)' \cup WithWorkers(t)'
  PROVE  ClientInv(t)'
<1>1. Elements(send'[t]) = Elements(send[t]) \cup {m} /\ send[t] \in Seq(Msg)
  BY AppendElements, PlacesType
<1>2. Received(t)' = Received(t) \cup {m}
  BY <1>1 DEF Lasting, Received
<1>3. m \in owed[t] /\ m \notin Received(t) \cup dropped[t]
  BY DEF ClientInv, OnlyOwed, OnePlace
<1>4. AllRead(t)'
  BY <1>2, <1>3, PlacesType DEF ClientInv, AllRead, Lasting, StaysRead
<1>5. OnlyOwed(t)'
  BY <1>2, <1>3 DEF ClientInv, OnlyOwed, Lasting
<1>6. OnePlace(t)'
  BY <1>1, <1>2, <1>3 DEF ClientInv, OnePlace, Lasting, Received
<1>7. Once(t)'
  BY <1>1, <1>3, AppendDistinct DEF ClientInv, Once, Lasting, Received
<1> QED
  BY <1>4, <1>5, <1>6, <1>7 DEF ClientInv

\* A message is dropped.
LEMMA Dropped ==
  ASSUME TypeOK, HasFrame, NEW t \in Clients, ClientInv(t), Lasting(t),
         UNCHANGED send[t], NEW m \in WithHandler(t) \cup WithWorkers(t),
         dropped'[t] = dropped[t] \cup {m},
         WithHandler(t)' \subseteq WithHandler(t), WithWorkers(t)' \subseteq WithWorkers(t),
         m \notin WithHandler(t)' \cup WithWorkers(t)'
  PROVE  ClientInv(t)'
<1>1. Received(t)' = Received(t)
  BY DEF Lasting, Received
<1>2. AllRead(t)'
  BY <1>1, PlacesType DEF ClientInv, AllRead, Lasting, StaysRead
<1>3. OnlyOwed(t)'
  BY <1>1 DEF ClientInv, OnlyOwed, Lasting
<1>4. OnePlace(t)'
  BY <1>1 DEF ClientInv, OnePlace, Lasting
<1>5. Once(t)'
  BY DEF ClientInv, Once, Lasting
<1> QED
  BY <1>2, <1>3, <1>4, <1>5 DEF ClientInv

\* A message goes from its handler to a worker.
LEMMA Submitted ==
  ASSUME TypeOK, HasFrame, NEW t \in Clients, ClientInv(t), Lasting(t),
         UNCHANGED <<send[t], dropped[t]>>, NEW m \in WithHandler(t),
         WithHandler(t)' \subseteq WithHandler(t), m \notin WithHandler(t)',
         WithWorkers(t)' = WithWorkers(t) \cup {m}
  PROVE  ClientInv(t)'
<1>1. Received(t)' = Received(t)
  BY DEF Lasting, Received
<1>2. m \in owed[t] /\ m \in Msg
  BY PlacesType DEF ClientInv, OnlyOwed
<1>3. AllRead(t)'
  BY <1>1, <1>2, PlacesType DEF ClientInv, AllRead, Lasting, StaysRead
<1>4. OnlyOwed(t)'
  BY <1>1, <1>2 DEF ClientInv, OnlyOwed, Lasting
<1>5. OnePlace(t)'
  BY <1>1 DEF ClientInv, OnePlace, Lasting
<1>6. Once(t)'
  BY DEF ClientInv, Once, Lasting
<1> QED
  BY <1>3, <1>4, <1>5, <1>6 DEF ClientInv

\* A stored message, or the answer to t's own over-long frame, goes into its channel.
LEMMA Told ==
  ASSUME TypeOK, HasFrame, NEW t \in Clients, ClientInv(t), Lasting(t),
         UNCHANGED dropped[t], NEW e \in Msg, e \in Old \/ (e \in Error /\ e.from = t),
         Read(e)', e \notin Received(t) \cup WithWorkers(t) \cup owed[t],
         send'[t] = Append(send[t], e),
         WithHandler(t)' \subseteq WithHandler(t), WithWorkers(t)' = WithWorkers(t)
  PROVE  ClientInv(t)'
<1>1. Elements(send'[t]) = Elements(send[t]) \cup {e} /\ send[t] \in Seq(Msg)
  BY AppendElements, PlacesType
<1>2. Received(t)' = Received(t) \cup {e}
  BY <1>1 DEF Lasting, Received
<1>3. e \notin Received(t) \cup WithWorkers(t) \cup owed[t]
  OBVIOUS
<1>4. AllRead(t)'
  BY <1>2, <1>3, PlacesType DEF ClientInv, AllRead, Lasting, StaysRead
<1>5. OnlyOwed(t)'
  BY <1>2, <1>3 DEF ClientInv, OnlyOwed, Lasting
<1>6. OnePlace(t)'
  BY <1>1, <1>2, <1>3 DEF ClientInv, OnePlace, OnlyOwed, Lasting, Received
<1>7. Once(t)'
  BY <1>1, <1>3, AppendDistinct DEF ClientInv, Once, Lasting, Received
<1> QED
  BY <1>4, <1>5, <1>6, <1>7 DEF ClientInv

\* The oldest message of the channel is written, or lost with the connection.
LEMMA Pumped ==
  ASSUME TypeOK, HasFrame, NEW t \in Clients, ClientInv(t), StaysRead,
         UNCHANGED <<owed[t], dropped[t]>>, send[t] # <<>>, send'[t] = Tail(send[t]),
         written'[t] = written[t] \/ written'[t] = Append(written[t], Head(send[t])),
         WithHandler(t)' = WithHandler(t), WithWorkers(t)' = WithWorkers(t)
  PROVE  ClientInv(t)'
<1> DEFINE m == Head(send[t])
<1>1. send[t] \in Seq(Msg) /\ written[t] \in Seq(Msg) /\ m \in Msg
  BY PlacesType
<1>2. /\ Elements(send[t]) = {m} \cup Elements(send'[t])
      /\ Distinct(send'[t]) /\ m \notin Elements(send'[t])
  BY <1>1, TailElements, TailDistinct DEF ClientInv, Once
<1>3. m \notin Elements(written[t])
  BY <1>2 DEF ClientInv, OnePlace
<1>4. /\ Elements(written'[t]) \subseteq Elements(written[t]) \cup {m}
      /\ Distinct(written'[t])
  <2>1. Elements(Append(written[t], m)) = Elements(written[t]) \cup {m}
    BY <1>1, AppendElements
  <2>2. Distinct(written[t])
    BY DEF ClientInv, Once
  <2>3. Distinct(Append(written[t], m))
    BY <1>1, <1>3, <2>2, AppendDistinct
  <2> QED
    BY <2>1, <2>2, <2>3
<1>5. Received(t)' \subseteq Received(t)
  BY <1>2, <1>4 DEF Received
<1>6. AllRead(t)'
  BY <1>5, PlacesType DEF ClientInv, AllRead, StaysRead
<1>7. OnlyOwed(t)'
  BY <1>5 DEF ClientInv, OnlyOwed
<1>8. OnePlace(t)'
  BY <1>2, <1>4, <1>5 DEF ClientInv, OnePlace
<1> QED
  BY <1>2, <1>4, <1>6, <1>7, <1>8 DEF ClientInv, Once

-------------------------------------------------------------------------------
\* Messages with the workers are there once, whatever the workers do.

LEMMA SlotsOf ==
  ASSUME TypeOK, NEW k \in Workers
  PROVE  /\ Len(jobs[k]) \in Nat
         /\ \A i \in Slots(k) : \A t \in JobAt(k, i).to :
              t \in Clients /\ JobAt(k, i).msg \in WithWorkers(t)
<1>1. /\ jobs[k] \in Seq(Job) /\ Len(jobs[k]) \in Nat /\ DOMAIN jobs[k] = 1..Len(jobs[k])
  BY DEF TypeOK
<1>2. \A i \in Slots(k) : JobAt(k, i) \in Elements(jobs[k]) \cup {cur[k]}
  BY <1>1 DEF Slots, JobAt, Elements
<1>3. \A j \in Elements(jobs[k]) \cup {cur[k]} : j.to \subseteq Clients
  <2>1. Job \cup {NoJob} \subseteq {j \in Job \cup {NoJob} : j.to \subseteq Clients}
    BY DEF Job, NoJob
  <2>2. Elements(jobs[k]) \cup {cur[k]} \subseteq Job \cup {NoJob}
    BY <1>1 DEF TypeOK, Elements
  <2> QED
    BY <2>1, <2>2
<1>4. ASSUME NEW i \in Slots(k), NEW t \in JobAt(k, i).to
      PROVE  t \in Clients /\ JobAt(k, i).msg \in WithWorkers(t)
  BY <1>2, <1>3, WorkersHave
<1> QED
  BY <1>1, <1>4

\* Jobs keep their places, or all those of a worker move up by one; they may lose
\* clients.
Moved(shift) ==
  \A k \in Workers : \A i \in Slots(k)' :
    JobAt(k, i)'.to # {} =>
      /\ i + shift[k] \in Slots(k)
      /\ JobAt(k, i)'.to \subseteq JobAt(k, i + shift[k]).to
      /\ JobAt(k, i)'.msg = JobAt(k, i + shift[k]).msg

Shifts == [Workers -> {0, 1}]

LEMMA SlotsMoved ==
  ASSUME TypeOK, OnceWithWorkers, NEW shift \in Shifts, Moved(shift)
  PROVE  OnceWithWorkers'
<1> SUFFICES ASSUME NEW k \in Workers, NEW l \in Workers,
                    NEW i \in Slots(k)', NEW j \in Slots(l)',
                    NEW t \in JobAt(k, i)'.to \cap JobAt(l, j)'.to,
                    JobAt(k, i)'.msg = JobAt(l, j)'.msg
             PROVE  k = l /\ i = j
  BY DEF OnceWithWorkers
<1>1. /\ i + shift[k] \in Slots(k) /\ j + shift[l] \in Slots(l)
      /\ t \in JobAt(k, i + shift[k]).to \cap JobAt(l, j + shift[l]).to
      /\ JobAt(k, i + shift[k]).msg = JobAt(l, j + shift[l]).msg
  BY DEF Moved
<1>2. k = l /\ i + shift[k] = j + shift[l]
  BY <1>1 DEF OnceWithWorkers
<1>3. i \in Int /\ j \in Int /\ shift[k] \in Int
  BY DEF Slots, Shifts
<1> QED
  BY <1>2, <1>3

\* Jobs that are left alone keep their places.
LEMMA SlotsStay ==
  ASSUME TypeOK, UNCHANGED <<jobs, cur>>
  PROVE  \E shift \in Shifts : Moved(shift)
<1> DEFINE shift == [k \in Workers |-> 0]
<1>1. shift \in Shifts
  BY DEF Shifts
<1>2. ASSUME NEW k \in Workers, NEW i \in Slots(k)'
      PROVE  i + shift[k] = i /\ i \in Slots(k) /\ JobAt(k, i)' = JobAt(k, i)
  BY DEF Slots, JobAt
<1>3. Moved(shift)
  BY <1>2 DEF Moved
<1> QED
  BY <1>1, <1>3

\* So do those of a worker that has served a client.
LEMMA ServedMoves ==
  ASSUME TypeOK, NEW k \in Workers, NEW t,
         cur' = [cur EXCEPT ![k] = Without(cur[k], t)], UNCHANGED jobs
  PROVE  \E shift \in Shifts : Moved(shift)
<1> DEFINE shift == [l \in Workers |-> 0]
<1>1. /\ \A l \in Workers : l # k => cur'[l] = cur[l]
      /\ cur'[k].to \subseteq cur[k].to
      /\ cur'[k].to # {} => cur'[k].msg = cur[k].msg
  BY DEF TypeOK, Without, NoJob
<1>2. ASSUME NEW l \in Workers, NEW i \in Slots(l)', JobAt(l, i)'.to # {}
      PROVE  /\ i + shift[l] = i /\ i \in Slots(l)
             /\ JobAt(l, i)'.to \subseteq JobAt(l, i).to
             /\ JobAt(l, i)'.msg = JobAt(l, i).msg
  <2>1. i \in Slots(l) /\ i \in Int
    BY DEF Slots
  <2> QED
    BY <1>1, <1>2, <2>1 DEF JobAt
<1>3. shift \in Shifts
  BY DEF Shifts
<1>4. Moved(shift)
  BY <1>2 DEF Moved
<1> QED
  BY <1>3, <1>4

\* A worker that takes a job moves its jobs up.
LEMMA TakenMoves ==
  ASSUME TypeOK, NEW k \in Workers, WorkerTake(k)
  PROVE  \E shift \in Shifts : Moved(shift)
<1> DEFINE shift == [l \in Workers |-> IF l = k THEN 1 ELSE 0]
<1>1. /\ jobs[k] \in Seq(Job) /\ jobs[k] # <<>>
      /\ cur'[k] = Head(jobs[k]) /\ jobs'[k] = Tail(jobs[k])
      /\ \A l \in Workers : l # k => cur'[l] = cur[l] /\ jobs'[l] = jobs[l]
  BY DEF WorkerTake, OldestFirst, TypeOK
<1>2. /\ Len(jobs[k]) \in Nat /\ Len(jobs[k]) >= 1 /\ Len(jobs'[k]) = Len(jobs[k]) - 1
      /\ Head(jobs[k]) = jobs[k][1]
      /\ \A i \in 1..(Len(jobs[k]) - 1) : jobs'[k][i] = jobs[k][i + 1]
  BY <1>1
<1>3. ASSUME NEW i \in Slots(k)'
      PROVE  i + shift[k] = i + 1 /\ i + 1 \in Slots(k) /\ JobAt(k, i)' = JobAt(k, i + 1)
  <2>1. i \in 0..(Len(jobs[k]) - 1) /\ i + 1 \in Slots(k) /\ i + 1 # 0
    BY <1>2 DEF Slots
  <2>2. JobAt(k, i + 1) = jobs[k][i + 1]
    BY <2>1 DEF JobAt
  <2>3. JobAt(k, i)' = IF i = 0 THEN cur'[k] ELSE jobs'[k][i]
    BY DEF JobAt
  <2>4. CASE i = 0
    BY <1>1, <1>2, <2>1, <2>2, <2>3, <2>4
  <2>5. CASE i # 0
    <3>1. i \in 1..(Len(jobs[k]) - 1)
      BY <1>2, <2>1, <2>5
    <3> QED
      BY <1>2, <2>1, <2>2, <2>3, <2>5, <3>1
  <2> QED
    BY <2>4, <2>5
<1>4. ASSUME NEW l \in Workers, l # k, NEW i \in Slots(l)'
      PROVE  i + shift[l] = i /\ i \in Slots(l) /\ JobAt(l, i)' = JobAt(l, i)
  <2>1. i \in Slots(l) /\ i \in Int
    BY <1>1, <1>4 DEF Slots
  <2> QED
    BY <1>1, <1>4, <2>1 DEF JobAt
<1>5. shift \in Shifts
  BY DEF Shifts
<1>6. \A l \in Workers : \A i \in Slots(l)' :
         /\ i + shift[l] \in Slots(l)
         /\ JobAt(l, i)' = JobAt(l, i + shift[l])
  BY <1>3, <1>4
<1>7. Moved(shift)
  BY <1>6 DEF Moved
<1> QED
  BY <1>5, <1>7

\* A new job comes last in the channel of its worker, and moves no other.
LEMMA AddedLast ==
  ASSUME TypeOK, NEW k \in Workers, NEW new \in Job,
         jobs' = [jobs EXCEPT ![k] = Append(@, new)], UNCHANGED cur
  PROVE  \A l \in Workers : \A i \in Slots(l)' :
           \/ l = k /\ i = Len(jobs[k]) + 1 /\ JobAt(l, i)' = new
           \/ i \in Slots(l) /\ JobAt(l, i)' = JobAt(l, i)
<1>1. /\ jobs[k] \in Seq(Job) /\ Len(jobs[k]) \in Nat /\ jobs'[k] = Append(jobs[k], new)
      /\ \A l \in Workers : l # k => jobs'[l] = jobs[l]
  BY DEF TypeOK
<1> SUFFICES ASSUME NEW l \in Workers, NEW i \in Slots(l)'
             PROVE  \/ l = k /\ i = Len(jobs[k]) + 1 /\ JobAt(l, i)' = new
                    \/ i \in Slots(l) /\ JobAt(l, i)' = JobAt(l, i)
  OBVIOUS
<1>2. CASE l # k
  BY <1>1, <1>2 DEF Slots, JobAt
<1>3. CASE l = k /\ i = Len(jobs[k]) + 1
  <2>1. i # 0 /\ jobs'[k][i] = new
    BY <1>1, <1>3
  <2> QED
    BY <1>3, <2>1 DEF JobAt
<1>4. CASE l = k /\ i # Len(jobs[k]) + 1
  <2>1. i \in 0..Len(jobs[k])
    BY <1>1, <1>4 DEF Slots
  <2>2. i # 0 => jobs'[k][i] = jobs[k][i]
    BY <1>1, <2>1
  <2> QED
    BY <1>4, <2>1, <2>2 DEF JobAt, Slots
<1> QED
  BY <1>2, <1>3, <1>4

\* A new job of a message that the workers do not have for any of its clients.
LEMMA SlotsAdded ==
  ASSUME TypeOK, OnceWithWorkers, NEW k \in Workers, NEW new \in Job,
         \A t \in new.to : new.msg \notin WithWorkers(t),
         jobs' = [jobs EXCEPT ![k] = Append(@, new)], UNCHANGED cur
  PROVE  OnceWithWorkers'
<1>1. SUFFICES ASSUME NEW l \in Workers, NEW m \in Workers,
                      NEW i \in Slots(l)', NEW j \in Slots(m)',
                      NEW t \in JobAt(l, i)'.to \cap JobAt(m, j)'.to,
                      JobAt(l, i)'.msg = JobAt(m, j)'.msg
               PROVE  l = m /\ i = j
  BY DEF OnceWithWorkers
<1>2. \A p \in Workers : \A q \in Slots(p)' :
         \/ p = k /\ q = Len(jobs[k]) + 1 /\ JobAt(p, q)' = new
         \/ q \in Slots(p) /\ JobAt(p, q)' = JobAt(p, q)
  BY AddedLast
<1>3. \A p \in Workers : \A q \in Slots(p) :
         t \in JobAt(p, q).to => JobAt(p, q).msg \in WithWorkers(t)
  BY SlotsOf
<1>4. CASE JobAt(l, i)' = new \/ JobAt(m, j)' = new
  <2>1. t \in new.to /\ JobAt(l, i)'.msg = new.msg /\ JobAt(m, j)'.msg = new.msg
    BY <1>1, <1>4
  <2> QED
    BY <1>1, <1>2, <1>3, <2>1
<1>5. CASE JobAt(l, i)' # new /\ JobAt(m, j)' # new
  BY <1>1, <1>2, <1>5 DEF OnceWithWorkers
<1> QED
  BY <1>4, <1>5

-------------------------------------------------------------------------------
DeliveryInv == (\A t \in Clients : ClientInv(t)) /\ OnceWithWorkers

\* What worker k sends next is nowhere else with the workers.
LEMMA SendOnce ==
  ASSUME TypeOK, OnceWithWorkers, NEW k \in Workers, NEW t \in Clients, t \in cur[k].to,
         cur' = [cur EXCEPT ![k] = Without(cur[k], t)], UNCHANGED jobs
  PROVE  cur[k].msg \in WithWorkers(t) /\ cur[k].msg \notin WithWorkers(t)'
<1> DEFINE m == cur[k].msg
<1>1. m \in WithWorkers(t)
  BY WorkersHave
<1>2. /\ \A l \in Workers : l # k => cur'[l] = cur[l]
      /\ t \notin cur'[k].to
  BY DEF TypeOK, Without, NoJob
<1>3. 0 \in Slots(k) /\ JobAt(k, 0) = cur[k]
  <2>1. Len(jobs[k]) \in Nat
    BY DEF TypeOK
  <2> QED
    BY <2>1 DEF Slots, JobAt
<1>4. ASSUME NEW l \in Workers, NEW j \in Elements(jobs[l]) \cup {cur'[l]},
             t \in j.to, j.msg = m
      PROVE  FALSE
  <2>1. CASE j = cur'[l]
    <3>1. l # k /\ j = cur[l]
      BY <1>2, <1>4, <2>1
    <3>2. 0 \in Slots(l) /\ JobAt(l, 0) = cur[l]
      <4>1. Len(jobs[l]) \in Nat
        BY DEF TypeOK
      <4> QED
        BY <4>1 DEF Slots, JobAt
    <3> QED
      BY <1>3, <1>4, <3>1, <3>2 DEF OnceWithWorkers
  <2>2. CASE j \in Elements(jobs[l])
    <3>1. PICK i \in DOMAIN jobs[l] : j = jobs[l][i]
      BY <2>2 DEF Elements
    <3>2. i \in Slots(l) /\ i # 0 /\ JobAt(l, i) = j
      <4>1. DOMAIN jobs[l] = 1..Len(jobs[l]) /\ Len(jobs[l]) \in Nat
        BY DEF TypeOK
      <4> QED
        BY <3>1, <4>1 DEF Slots, JobAt
    <3> QED
      BY <1>3, <1>4, <3>2 DEF OnceWithWorkers
  <2> QED
    BY <1>4, <2>1, <2>2
<1>5. m \notin WithWorkers(t)'
  BY <1>4 DEF WithWorkers
<1> QED
  BY <1>1, <1>5

\* Reading a frame makes nothing unread.
LEMMA ReadStays ==
  ASSUME TypeOK, NEW c \in Clients,
         frames' = frames \/ frames' = [frames EXCEPT ![c] = @ + 1]
  PROVE  StaysRead
<1>1. \A d \in Clients : frames[d] \in Nat /\ frames'[d] \in Nat /\ frames'[d] >= frames[d]
  <2>1. frames \in [Clients -> Nat]
    BY BoundsAssumption DEF TypeOK
  <2>2. \A d \in Clients : frames'[d] = frames[d] \/ frames'[d] = frames[d] + 1
    BY <2>1
  <2> QED
    BY <2>1, <2>2
<1>2. \A m \in Msg : m.from \in Clients /\ m.seq \in Nat
  BY BoundsAssumption DEF Msg
<1> QED
  BY <1>1, <1>2 DEF StaysRead, Read

\* What is replayed to a client: nothing before it asks, nothing that it sent itself,
\* and nothing twice; and what is stored has been read.
HistoryInv ==
  /\ \A m \in stored : Read(m)
  /\ \A c \in Clients :
       /\ pc[c] \in Joining => frames[c] = 0
       /\ pc[c] \in Joining \ {"replay"} => history[c] = {} /\ Received(c) \cap Old = {}
       /\ history[c] \subseteq stored
       /\ \A m \in history[c] \cup (Received(c) \cap Old) : m.from # c
       /\ history[c] \cap Received(c) = {}

\* The kinds of messages are apart.
LEMMA KindsApart == Wire \cap Old = {} /\ Error \cap Old = {} /\ Wire \cap Error = {}
  BY DEF Wire, Old, Error

LEMMA HistoryHolds == Spec => []HistoryInv
<1>1. ASSUME Init PROVE HistoryInv
  <2>1. /\ stored = {}
        /\ \A c \in Clients : /\ frames[c] = 0 /\ history[c] = {}
                              /\ send[c] = <<>> /\ written[c] = <<>>
    BY <1>1 DEF Init
  <2>2. \A c \in Clients : Received(c) = {}
    BY <2>1 DEF Received, Elements
  <2> QED
    BY <2>1, <2>2 DEF HistoryInv
<1>2. TypeOK /\ HasFrame /\ HistoryInv /\ [Next]_vars => HistoryInv'
  <2> SUFFICES ASSUME TypeOK, HasFrame, HistoryInv, [Next]_vars PROVE HistoryInv'
    OBVIOUS
  <2> USE DEF roomVars, localVars, handlerVars, clientVars, workerVars, stopVars,
             historyVars
  <2>0. stored \subseteq Msg
    BY DEF TypeOK, Old
  <2>1. ASSUME StaysRead, UNCHANGED history, stored \subseteq stored',
               \A m \in stored' : m \in stored \/ Read(m)',
               \A d \in Clients :
                 /\ pc'[d] \in Joining =>
                      /\ pc[d] \in Joining /\ frames'[d] = frames[d]
                      /\ pc[d] = "replay" => pc'[d] = "replay"
                 /\ Received(d)' \cap Old \subseteq Received(d)
        PROVE  HistoryInv'
    <3>1. \A m \in stored' : Read(m)'
      BY <2>0, <2>1 DEF HistoryInv, StaysRead
    <3>2. ASSUME NEW d \in Clients
          PROVE  /\ pc'[d] \in Joining => frames'[d] = 0
                 /\ pc'[d] \in Joining \ {"replay"} =>
                      history'[d] = {} /\ Received(d)' \cap Old = {}
                 /\ history'[d] \subseteq stored'
                 /\ \A m \in history'[d] \cup (Received(d)' \cap Old) : m.from # d
      BY <2>1, <3>2 DEF HistoryInv
    <3>3. \A d \in Clients : history'[d] \cap Received(d)' = {}
      BY <2>1 DEF HistoryInv, TypeOK
    <3> QED
      BY <3>1, <3>2, <3>3 DEF HistoryInv
  <2>2. ASSUME UNCHANGED <<stored, history, send, written, frames>>,
               \A d \in Clients : pc'[d] \in Joining =>
                 pc[d] \in Joining /\ (pc[d] = "replay" => pc'[d] = "replay")
        PROVE  HistoryInv'
    <3>1. StaysRead /\ \A d \in Clients : Received(d)' = Received(d)
      BY <2>2 DEF StaysRead, Read, Received
    <3> QED
      BY <2>1, <2>2, <3>1
  <2>3. ASSUME NEW c \in Clients,
               \/ Add(c) \/ CheckPool(c) \/ ActivatePool(c) \/ Run(c) \/ ReadError(c)
               \/ Remove(c)
        PROVE  HistoryInv'
    <3>1. \A d \in Clients : \/ pc'[d] = pc[d]
                             \/ pc'[d] \notin Joining
                             \/ pc[d] \in Joining \ {"replay"}
      BY <2>3 DEF Add, CheckPool, ActivatePool, Run, ReadError, Remove, Goto, TypeOK, Joining
    <3>2. UNCHANGED <<stored, history, send, written, frames>>
      BY <2>3 DEF Add, CheckPool, ActivatePool, Run, ReadError, Remove
    <3> QED
      BY <2>2, <3>1, <3>2
  <2>4. ASSUME NEW c \in Clients, Query(c) PROVE HistoryInv'
    <3>1. /\ UNCHANGED <<stored, send, written, frames>>
          /\ pc[c] = "joined" /\ pc'[c] = "replay"
          /\ history'[c] \subseteq stored
          /\ \A d \in Clients : d # c => pc'[d] = pc[d] /\ history'[d] = history[d]
      BY <2>4, QueryFrame DEF TypeOK
    <3>2. \A d \in Clients : Received(d)' = Received(d)
      BY <3>1 DEF Received
    <3>3. \A m \in stored : Read(m) /\ Read(m)'
      BY <3>1 DEF HistoryInv, Read
    <3>4. frames[c] = 0 /\ Received(c) \cap Old = {}
      BY <3>1 DEF HistoryInv, Joining
    <3>5. \A m \in stored : m.from # c
      <4>1. \A m \in stored : m.seq \in 1..MaxFrames /\ m.seq <= frames[m.from]
        BY <2>0, <3>3 DEF Read, Msg
      <4> QED
        BY <3>4, <4>1, BoundsAssumption
    <3>6. history'[c] \cap Received(c) = {}
      BY <3>1, <3>4 DEF TypeOK
    <3>7. ASSUME NEW d \in Clients
          PROVE  /\ pc'[d] \in Joining => frames'[d] = 0
                 /\ pc'[d] \in Joining \ {"replay"} =>
                      history'[d] = {} /\ Received(d)' \cap Old = {}
                 /\ history'[d] \subseteq stored'
                 /\ \A m \in history'[d] \cup (Received(d)' \cap Old) : m.from # d
                 /\ history'[d] \cap Received(d)' = {}
      <4>1. CASE d = c
        BY <3>1, <3>2, <3>4, <3>5, <3>6, <4>1
      <4>2. CASE d # c
        BY <3>1, <3>2, <4>2 DEF HistoryInv
      <4> QED
        BY <4>1, <4>2
    <3> QED
      BY <3>1, <3>3, <3>7 DEF HistoryInv
  <2>5. ASSUME NEW c \in Clients, NEW m \in Old, Replay(c, m) PROVE HistoryInv'
    <3>1. /\ UNCHANGED <<stored, pc, frames, written>> /\ pc[c] = "replay"
          /\ m \in history[c] /\ m \in Msg /\ history'[c] = history[c] \ {m}
          /\ send'[c] \in {send[c], Append(send[c], m)}
          /\ \A d \in Clients : d # c => history'[d] = history[d] /\ send'[d] = send[d]
      BY <2>5, ReplayFrame
    <3>2. Received(c)' \subseteq Received(c) \cup {m}
      <4>1. Elements(Append(send[c], m)) = Elements(send[c]) \cup {m}
        BY <3>1, AppendElements DEF TypeOK
      <4> QED
        BY <3>1, <4>1 DEF Received
    <3>3. \A d \in Clients : d # c => Received(d)' = Received(d)
      BY <3>1 DEF Received
    <3>4. \A n \in stored : Read(n)'
      BY <3>1 DEF HistoryInv, Read
    <3>5. ASSUME NEW d \in Clients
          PROVE  /\ pc'[d] \in Joining => frames'[d] = 0
                 /\ pc'[d] \in Joining \ {"replay"} =>
                      history'[d] = {} /\ Received(d)' \cap Old = {}
                 /\ history'[d] \subseteq stored'
                 /\ \A n \in history'[d] \cup (Received(d)' \cap Old) : n.from # d
                 /\ history'[d] \cap Received(d)' = {}
      <4>1. CASE d = c
        BY <3>1, <3>2, <4>1 DEF HistoryInv
      <4>2. CASE d # c
        BY <3>1, <3>3, <4>2 DEF HistoryInv
      <4> QED
        BY <4>1, <4>2
    <3> QED
      BY <3>1, <3>4, <3>5 DEF HistoryInv
  <2>6. ASSUME NEW c \in Clients, ReadFrame(c) PROVE HistoryInv'
    <3>0. PICK m : m = Record(c)'
      OBVIOUS
    <3>1. /\ pc[c] = "reading" /\ pc'[c] \notin Joining
          /\ \A d \in Clients : d # c => pc'[d] = pc[d] /\ frames'[d] = frames[d]
          /\ UNCHANGED <<history, send, written>>
          /\ frames' = [frames EXCEPT ![c] = @ + 1] /\ frames'[c] \in Int
          /\ stored' = stored \/ stored' = stored \cup {m}
      BY <2>6, <3>0, BoundsAssumption DEF ReadFrame, Goto, TypeOK, Joining
    <3>2. StaysRead /\ \A d \in Clients : Received(d)' = Received(d)
      BY <3>1, ReadStays DEF Received
    <3>3. Read(m)'
      BY <3>0, <3>1 DEF Read, Record
    <3> QED
      BY <2>1, <3>1, <3>2, <3>3
  <2>7. ASSUME NEW c \in Clients, ReadTooLong(c) PROVE HistoryInv'
    <3>1. PICK e : e = [from |-> c, seq |-> frames[c] + 1, kind |-> "error"]
      OBVIOUS
    <3>2. /\ pc[c] = "reading" /\ pc'[c] \notin Joining
          /\ \A d \in Clients : d # c => pc'[d] = pc[d] /\ frames'[d] = frames[d]
          /\ UNCHANGED <<stored, history, written>>
          /\ frames' = [frames EXCEPT ![c] = @ + 1]
          /\ send' = send \/ send' = [send EXCEPT ![c] = Append(@, e)]
      BY <2>7, <3>1 DEF ReadTooLong, Goto, TypeOK, Joining
    <3>3. e \in Msg /\ e \notin Old
      <4>1. frames[c] + 1 \in 1..MaxFrames
        BY <2>7, BoundsAssumption DEF ReadTooLong, MoreFrames, TypeOK
      <4> QED
        BY <3>1, <4>1 DEF Msg, Old
    <3>4. ASSUME NEW d \in Clients PROVE Received(d)' \cap Old \subseteq Received(d)
      <4>1. Elements(Append(send[c], e)) = Elements(send[c]) \cup {e}
        BY <3>3, AppendElements DEF TypeOK
      <4>2. send'[d] = send[d] \/ (d = c /\ send'[d] = Append(send[c], e))
        BY <3>2 DEF TypeOK
      <4> QED
        BY <3>2, <3>3, <4>1, <4>2 DEF Received
    <3>5. StaysRead
      BY <3>2, ReadStays
    <3> QED
      BY <2>1, <3>2, <3>4, <3>5
  <2>8. ASSUME UNCHANGED <<stored, history, frames, written>>,
               NEW t \in Clients, NEW m \in Wire, SendRaw(t, m),
               \A d \in Clients : pc'[d] \in Joining => pc'[d] = pc[d]
        PROVE  HistoryInv'
    <3>1. ASSUME NEW d \in Clients PROVE Received(d)' \cap Old \subseteq Received(d)
      BY <2>8, SendRawPlaces, KindsApart DEF Received
    <3>2. StaysRead
      BY <2>8 DEF StaysRead, Read
    <3> QED
      BY <2>1, <2>8, <3>1, <3>2
  <2>9. ASSUME NEW c \in Clients, NEW t \in Clients, InlineSend(c, t) PROVE HistoryInv'
    <3>1. UNCHANGED <<stored, history, frames, written>> /\ Current(c) \in Wire
      BY <2>9, CurrentType DEF InlineSend, HasFrame, Broadcasting
    <3>2. \A d \in Clients : pc'[d] \in Joining => pc'[d] = pc[d]
      BY <2>9 DEF InlineSend, Panic, Served, Goto, TypeOK, Joining
    <3>3. SendRaw(t, Current(c)) \/ UNCHANGED send
      BY <2>9 DEF InlineSend
    <3> QED
      BY <2>2, <2>8, <3>1, <3>2, <3>3
  <2>10. ASSUME NEW c \in Clients, NEW T \in SUBSET Clients, SubmitShard(c, T)
         PROVE  HistoryInv'
    <3>1. UNCHANGED <<stored, history, frames, send, written>>
      BY <2>10 DEF SubmitShard
    <3>2. \A d \in Clients : pc'[d] \in Joining => pc'[d] = pc[d]
      BY <2>10 DEF SubmitShard, Panic, Served, Goto, TypeOK, Joining
    <3> QED
      BY <2>2, <3>1, <3>2
  <2>11. ASSUME NEW c \in Clients, PumpWrite(c) \/ PumpFail(c) PROVE HistoryInv'
    <3> DEFINE m == Head(send[c])
    <3>1. /\ send[c] # <<>> /\ send'[c] = Tail(send[c])
          /\ written'[c] = written[c] \/ written'[c] = Append(written[c], m)
          /\ UNCHANGED <<pc, stored, history, frames>>
          /\ \A d \in Clients : d # c => send'[d] = send[d] /\ written'[d] = written[d]
          /\ send[c] \in Seq(Msg) /\ written[c] \in Seq(Msg) /\ m \in Msg
      BY <2>11 DEF PumpWrite, PumpFail, TypeOK
    <3>2. Received(c)' \subseteq Received(c)
      <4>1. Elements(send[c]) = {m} \cup Elements(send'[c])
        BY <3>1, TailElements
      <4>2. Elements(Append(written[c], m)) = Elements(written[c]) \cup {m}
        BY <3>1, AppendElements
      <4> QED
        BY <3>1, <4>1, <4>2 DEF Received
    <3>3. \A d \in Clients : Received(d)' \subseteq Received(d)
      BY <3>1, <3>2 DEF Received
    <3>4. StaysRead
      BY <3>1 DEF StaysRead, Read
    <3> QED
      BY <2>1, <3>1, <3>3, <3>4
  <2>12. ASSUME NEW k \in Workers, NEW t \in Clients, WorkerSend(k, t) PROVE HistoryInv'
    <3>1. cur[k] \in Job /\ UNCHANGED <<pc, stored, history, frames, written>>
      BY <2>12 DEF WorkerSend, TypeOK, NoJob
    <3>2. cur[k].msg \in Wire
      BY <3>1 DEF Job
    <3>3. SendRaw(t, cur[k].msg) \/ UNCHANGED send
      BY <2>12 DEF WorkerSend
    <3> QED
      BY <2>2, <2>8, <3>1, <3>2, <3>3
  <2>13. ASSUME \/ \E c \in Clients : PumpStop(c)
                \/ \E k \in Workers : WorkerTake(k) \/ WorkerExit(k)
                \/ Stop \/ UNCHANGED vars
         PROVE  HistoryInv'
    BY <2>2, <2>13 DEF PumpStop, WorkerTake, WorkerExit, Stop, Closing, ShutdownStart,
                      CloseWorker, ShutdownWait, vars
  <2> QED
    BY <2>3, <2>4, <2>5, <2>6, <2>7, <2>9, <2>10, <2>11, <2>12, <2>13
    DEF Next, Handler, Peer, Pump, Worker, Terminated
<1> QED
  BY <1>1, <1>2, TypeCorrect, PTL DEF Spec

LEMMA DeliveryHolds == Spec => []DeliveryInv
<1> DEFINE Given == /\ TypeOK /\ HasFrame /\ ChannelsOpenWhileMember /\ PoolFirst
                    /\ NotYetIn /\ HistoryInv
<1>1. ASSUME Init PROVE DeliveryInv
  <2>1. /\ \A t \in Clients : send[t] = <<>> /\ written[t] = <<>>
        /\ \A t \in Clients : owed[t] = {} /\ dropped[t] = {} /\ pc[t] = "out"
        /\ \A k \in Workers : jobs[k] = <<>> /\ cur[k] = NoJob
    BY <1>1 DEF Init
  <2>2. \A t \in Clients : Elements(send[t]) = {} /\ Elements(written[t]) = {}
    BY <2>1 DEF Elements
  <2>3. \A t \in Clients : WithHandler(t) = {} /\ WithWorkers(t) = {}
    <3>1. \A k \in Workers : \A j \in Elements(jobs[k]) \cup {cur[k]} : j.to = {}
      BY <2>1 DEF Elements, NoJob
    <3> QED
      BY <2>1, <3>1, WorkersHave DEF WithHandler, Broadcasting
  <2>4. \A t \in Clients : Once(t)
    BY <2>1 DEF Once, Distinct
  <2>5. OnceWithWorkers
    <3>1. \A k \in Workers : \A i \in Slots(k) : JobAt(k, i) = NoJob
      BY <2>1 DEF Slots, JobAt
    <3> QED
      BY <3>1 DEF OnceWithWorkers, NoJob
  <2> QED
    BY <2>1, <2>2, <2>3, <2>4, <2>5
    DEF DeliveryInv, ClientInv, AllRead, OnlyOwed, OnePlace, Received
<1>2. Given /\ DeliveryInv /\ [Next]_vars => DeliveryInv'
  <2> SUFFICES ASSUME TypeOK, HasFrame, ChannelsOpenWhileMember, PoolFirst, HistoryInv,
                      \A t \in Clients : ClientInv(t), OnceWithWorkers, [Next]_vars
               PROVE  DeliveryInv'
    BY DEF DeliveryInv
  <2> USE DEF roomVars, localVars, handlerVars, clientVars, workerVars, stopVars,
             historyVars
  <2>1. ASSUME UNCHANGED <<send, written, jobs, cur, dropped, owed, frames, todo>>,
               \A d \in Clients : pc'[d] \in Broadcasting => pc[d] \in Broadcasting
        PROVE  DeliveryInv'
    <3>1. ASSUME NEW t \in Clients PROVE ClientInv(t)'
      <4>1. WithHandler(t)' \subseteq WithHandler(t) /\ WithWorkers(t)' = WithWorkers(t)
        BY <2>1 DEF WithHandler, WithWorkers, Current
      <4>2. StaysRead
        BY <2>1 DEF StaysRead, Read
      <4> QED
        BY <2>1, <4>1, <4>2, Quiet DEF Lasting
    <3> QED
      BY <2>1, <3>1, SlotsStay, SlotsMoved DEF DeliveryInv
  <2>2. ASSUME NEW c \in Clients,
               \/ Add(c) \/ CheckPool(c) \/ Query(c) \/ Run(c) \/ ReadError(c) \/ Remove(c)
               \/ ActivatePool(c)
        PROVE  DeliveryInv'
    <3>1. jobs' = jobs
      <4>1. CASE ActivatePool(c) /\ pools = 0
        <5>1. jobs' = [k \in Workers |-> <<>>]
          BY <4>1 DEF ActivatePool, Recheck, FreshChannels
        <5>2. \A k \in Workers : jobs[k] = <<>>
          BY <4>1 DEF PoolFirst
        <5>3. jobs = [k \in Workers |-> jobs[k]]
          BY DEF TypeOK
        <5> QED
          BY <5>1, <5>2, <5>3
      <4> QED
        BY <2>2, <4>1 DEF Add, CheckPool, Query, Run, ReadError, Remove, ActivatePool, Recheck
    <3>2. UNCHANGED <<send, written, cur, dropped, owed, frames, todo>>
      BY <2>2 DEF Add, CheckPool, Query, Run, ReadError, Remove, ActivatePool, Recheck
    <3>3. \A d \in Clients : pc'[d] \in Broadcasting => pc[d] \in Broadcasting
      BY <2>2 DEF Add, CheckPool, Query, Run, ReadError, Remove, ActivatePool, Goto, TypeOK,
                 Broadcasting
    <3> QED
      BY <2>1, <3>1, <3>2, <3>3
  <2>3. ASSUME NEW c \in Clients, ReadFrame(c) PROVE DeliveryInv'
    <3>1. PICK m : m = Current(c)'
      OBVIOUS
    <3>2. /\ pc[c] = "reading" /\ todo'[c] = Snapshot(c)
          /\ \A d \in Clients : d # c => /\ pc'[d] = pc[d] /\ todo'[d] = todo[d]
                                        /\ frames'[d] = frames[d]
          /\ UNCHANGED <<send, written, jobs, cur, dropped>>
          /\ frames' = [frames EXCEPT ![c] = @ + 1] /\ frames'[c] = frames[c] + 1
          /\ \A t \in Clients : owed'[t] = IF t \in Snapshot(c)
                                            THEN owed[t] \cup {m} ELSE owed[t]
      BY <2>3, <3>1 DEF ReadFrame, Goto, TypeOK
    <3>3. m.from = c /\ m.seq = frames'[c] /\ ~Read(m) /\ Read(m)'
      <4>1. m.from = c /\ m.seq = frames'[c] /\ frames[c] \in Int
        BY <3>1, BoundsAssumption DEF Current, TypeOK
      <4> QED
        BY <3>2, <4>1 DEF Read
    <3>4. StaysRead
      BY <3>2, ReadStays
    <3>5. ASSUME NEW t \in Clients PROVE ClientInv(t)'
      <4>1. WithWorkers(t)' = WithWorkers(t)
        BY <3>2 DEF WithWorkers
      <4>2. /\ WithHandler(t)' \subseteq WithHandler(t) \cup {m}
            /\ t \notin Snapshot(c) => WithHandler(t)' \subseteq WithHandler(t)
        <5>1. \A d \in Clients : d # c => Current(d)' = Current(d)
          BY <3>2 DEF Current
        <5> QED
          BY <3>1, <3>2, <5>1 DEF WithHandler
      <4>3. CASE t \in Snapshot(c)
        BY <3>2, <3>3, <3>4, <4>1, <4>2, <4>3, Published
      <4>4. CASE t \notin Snapshot(c)
        BY <3>2, <3>4, <4>1, <4>2, <4>4, Quiet DEF Lasting
      <4> QED
        BY <4>3, <4>4
    <3> QED
      BY <3>2, <3>5, SlotsStay, SlotsMoved DEF DeliveryInv
  <2>4. ASSUME NEW c \in Clients, ReadTooLong(c) PROVE DeliveryInv'
    <3>1. PICK e : e = [from |-> c, seq |-> frames[c] + 1, kind |-> "error"]
      OBVIOUS
    <3>2. /\ pc[c] = "reading" /\ pc'[c] \notin Broadcasting
          /\ \A d \in Clients : d # c => pc'[d] = pc[d] /\ frames'[d] = frames[d]
          /\ UNCHANGED <<todo, written, jobs, cur, dropped, owed>>
          /\ frames' = [frames EXCEPT ![c] = @ + 1] /\ frames'[c] = frames[c] + 1
          /\ send' = send \/ send' = [send EXCEPT ![c] = Append(@, e)]
      BY <2>4, <3>1 DEF ReadTooLong, Goto, TypeOK, Broadcasting
    <3>3. e \in Msg /\ e \in Error /\ e.from = c /\ ~Read(e) /\ Read(e)'
      <4>1. frames[c] + 1 \in 1..MaxFrames /\ frames[c] \in Int
        BY <2>4, BoundsAssumption DEF ReadTooLong, MoreFrames, TypeOK
      <4>2. e \in Msg /\ e \in Error /\ e.from = c /\ e.seq = frames[c] + 1
        BY <3>1, <4>1 DEF Msg, Error
      <4> QED
        BY <3>2, <4>1, <4>2 DEF Read
    <3>4. StaysRead
      BY <3>2, ReadStays
    <3>5. ASSUME NEW t \in Clients PROVE ClientInv(t)'
      <4>1. WithWorkers(t)' = WithWorkers(t)
        BY <3>2 DEF WithWorkers
      <4>2. WithHandler(t)' \subseteq WithHandler(t)
        BY <3>2 DEF WithHandler, Current
      <4>3. CASE UNCHANGED send[t]
        BY <3>2, <3>4, <4>1, <4>2, <4>3, Quiet DEF Lasting
      <4>4. CASE t = c /\ send'[c] = Append(send[c], e)
        <5>1. e \notin Received(t) \cup WithWorkers(t) \cup owed[t]
          BY <3>3 DEF ClientInv, AllRead
        <5> QED
          BY <3>2, <3>3, <3>4, <4>1, <4>2, <4>4, <5>1, Told DEF Lasting
      <4> QED
        BY <3>2, <4>3, <4>4 DEF TypeOK
    <3> QED
      BY <3>2, <3>5, SlotsStay, SlotsMoved DEF DeliveryInv
  <2>5. ASSUME NEW c \in Clients, NEW t \in Clients, InlineSend(c, t) PROVE DeliveryInv'
    <3>1. PICK m : m = Current(c)
      OBVIOUS
    <3>2. /\ pc[c] \in Broadcasting /\ m \in Wire /\ m \in Msg /\ m \in WithHandler(t)
          /\ UNCHANGED <<frames, written, jobs, cur, owed>>
      BY <2>5, <3>1, CurrentType DEF InlineSend, Broadcasting, HasFrame, WithHandler
    <3>3. StaysRead
      BY <3>2, ReadStays
    <3>4. ASSUME NEW u \in Clients PROVE ClientInv(u)'
      <4>1. WithWorkers(u)' = WithWorkers(u)
        BY <3>2 DEF WithWorkers
      <4>2. CASE Panic(c) /\ UNCHANGED <<send, dropped>>
        <5>1. WithHandler(u)' \subseteq WithHandler(u)
          BY <3>2, <4>2, PanicPlaces
        <5> QED
          BY <3>2, <3>3, <4>1, <4>2, <5>1, Quiet DEF Lasting
      <4>3. CASE SendRaw(t, m) /\ Served(c, {t})
        <5>1. /\ WithHandler(u)' \subseteq WithHandler(u)
              /\ u = t => m \notin WithHandler(u)'
          BY <3>1, <3>2, <4>3, ServedPlaces
        <5>2. /\ u # t => send'[u] = send[u] /\ dropped'[u] = dropped[u]
              /\ u = t => \/ send'[t] = Append(send[t], m) /\ dropped'[t] = dropped[t]
                          \/ send'[t] = send[t] /\ dropped'[t] = dropped[t] \cup {m}
          BY <3>2, <4>3, SendRawPlaces
        <5>3. CASE u # t
          BY <3>2, <3>3, <4>1, <5>1, <5>2, <5>3, Quiet DEF Lasting
        <5>4. CASE u = t
          <6>1. m \notin WithHandler(u)' \cup WithWorkers(u)'
            BY <3>2, <4>1, <5>1, <5>4 DEF ClientInv, OnePlace
          <6>2. CASE send'[t] = Append(send[t], m) /\ dropped'[t] = dropped[t]
            BY <3>2, <3>3, <4>1, <5>1, <5>4, <6>1, <6>2, Sent DEF Lasting
          <6>3. CASE send'[t] = send[t] /\ dropped'[t] = dropped[t] \cup {m}
            BY <3>2, <3>3, <4>1, <5>1, <5>4, <6>1, <6>3, Dropped DEF Lasting
          <6> QED
            BY <5>2, <5>4, <6>2, <6>3
        <5> QED
          BY <5>3, <5>4
      <4> QED
        BY <2>5, <3>1, <4>2, <4>3 DEF InlineSend
    <3> QED
      BY <3>2, <3>4, SlotsStay, SlotsMoved DEF DeliveryInv
  <2>6. ASSUME NEW c \in Clients, NEW T \in SUBSET Clients, SubmitShard(c, T)
        PROVE  DeliveryInv'
    <3>1. PICK m : m = Current(c)
      OBVIOUS
    <3>2. PICK k : k = shard[c]
      OBVIOUS
    <3>3. PICK new : new = [msg |-> m, to |-> T]
      OBVIOUS
    <3>4. /\ pc[c] \in Broadcasting /\ m \in Wire /\ T \subseteq todo[c] /\ new \in Job
          /\ UNCHANGED <<frames, send, written, cur, owed>>
      BY <2>6, <3>1, <3>3, CurrentType DEF SubmitShard, Broadcasting, HasFrame, Job
    <3>5. StaysRead
      BY <3>4, ReadStays
    <3>6. \A u \in T : m \in WithHandler(u) /\ m \notin WithWorkers(u)
      <4>1. \A u \in T : u \in Clients /\ m \in WithHandler(u)
        BY <3>1, <3>4, HandlerHas
      <4> QED
        BY <4>1 DEF ClientInv, OnePlace
    <3>7. CASE Panic(c) /\ UNCHANGED <<jobs, dropped>>
      <4>1. ASSUME NEW u \in Clients PROVE ClientInv(u)'
        <5>1. WithHandler(u)' \subseteq WithHandler(u) /\ WithWorkers(u)' = WithWorkers(u)
          BY <3>4, <3>7, PanicPlaces DEF WithWorkers
        <5> QED
          BY <3>4, <3>5, <3>7, <5>1, Quiet DEF Lasting
      <4> QED
        BY <3>4, <3>7, <4>1, SlotsStay, SlotsMoved DEF DeliveryInv
    <3>8. CASE /\ Served(c, T) /\ k \in Workers /\ UNCHANGED dropped
               /\ jobs' = [jobs EXCEPT ![k] = Append(@, new)]
      <4>1. ASSUME NEW u \in Clients PROVE ClientInv(u)'
        <5>1. /\ WithHandler(u)' \subseteq WithHandler(u)
              /\ u \in T => m \notin WithHandler(u)'
          BY <3>1, <3>4, <3>8, ServedPlaces
        <5>2. WithWorkers(u)' = WithWorkers(u) \cup (IF u \in new.to THEN {new.msg} ELSE {})
          BY <3>4, <3>8, AcceptPlaces
        <5>3. CASE u \in T
          <6>1. WithWorkers(u)' = WithWorkers(u) \cup {m}
            BY <3>3, <5>2, <5>3
          <6> QED
            BY <3>4, <3>5, <3>6, <3>8, <5>1, <5>3, <6>1, Submitted DEF Lasting
        <5>4. CASE u \notin T
          <6>1. WithWorkers(u)' = WithWorkers(u)
            BY <3>3, <5>2, <5>4
          <6> QED
            BY <3>4, <3>5, <3>8, <5>1, <6>1, Quiet DEF Lasting
        <5> QED
          BY <5>3, <5>4
      <4>2. \A u \in new.to : new.msg \notin WithWorkers(u)
        BY <3>3, <3>6
      <4>3. OnceWithWorkers'
        BY <3>4, <3>8, <4>2, SlotsAdded
      <4> QED
        BY <4>1, <4>3 DEF DeliveryInv
    <3>9. CASE /\ Served(c, T) /\ UNCHANGED jobs
               /\ dropped' = [u \in Clients |-> IF u \in T THEN dropped[u] \cup {m}
                                                ELSE dropped[u]]
      <4>1. ASSUME NEW u \in Clients PROVE ClientInv(u)'
        <5>1. /\ WithHandler(u)' \subseteq WithHandler(u)
              /\ u \in T => m \notin WithHandler(u)'
          BY <3>1, <3>4, <3>9, ServedPlaces
        <5>2. WithWorkers(u)' = WithWorkers(u)
          BY <3>4, <3>9 DEF WithWorkers
        <5>3. CASE u \in T
          <6>1. dropped'[u] = dropped[u] \cup {m} /\ m \notin WithHandler(u)' \cup WithWorkers(u)'
            BY <3>6, <3>9, <5>1, <5>2, <5>3
          <6> QED
            BY <3>4, <3>5, <3>6, <5>1, <5>2, <5>3, <6>1, Dropped DEF Lasting
        <5>4. CASE u \notin T
          <6>1. dropped'[u] = dropped[u]
            BY <3>9, <5>4
          <6> QED
            BY <3>4, <3>5, <5>1, <5>2, <6>1, Quiet DEF Lasting
        <5> QED
          BY <5>3, <5>4
      <4> QED
        BY <3>4, <3>9, <4>1, SlotsStay, SlotsMoved DEF DeliveryInv
    <3> QED
      BY <2>6, <3>1, <3>2, <3>3, <3>7, <3>8, <3>9 DEF SubmitShard
  <2>7. ASSUME NEW c \in Clients, PumpWrite(c) \/ PumpFail(c) PROVE DeliveryInv'
    <3>1. /\ send[c] # <<>> /\ send'[c] = Tail(send[c])
          /\ written'[c] = written[c] \/ written'[c] = Append(written[c], Head(send[c]))
          /\ UNCHANGED <<pc, frames, todo, jobs, cur, dropped, owed>>
          /\ \A t \in Clients : t # c => send'[t] = send[t] /\ written'[t] = written[t]
      BY <2>7 DEF PumpWrite, PumpFail, TypeOK
    <3>2. ASSUME NEW t \in Clients PROVE ClientInv(t)'
      <4>1. WithHandler(t)' = WithHandler(t) /\ WithWorkers(t)' = WithWorkers(t)
        BY <3>1 DEF WithHandler, WithWorkers, Current
      <4>2. StaysRead
        BY <3>1 DEF StaysRead, Read
      <4>3. CASE t = c
        BY <3>1, <4>1, <4>2, <4>3, Pumped
      <4>4. CASE t # c
        BY <3>1, <4>1, <4>2, <4>4, Quiet DEF Lasting
      <4> QED
        BY <4>3, <4>4
    <3> QED
      BY <3>1, <3>2, SlotsStay, SlotsMoved DEF DeliveryInv
  <2>8. ASSUME NEW k \in Workers, WorkerTake(k) PROVE DeliveryInv'
    <3>1. UNCHANGED <<pc, frames, todo, send, written, dropped, owed>>
      BY <2>8 DEF WorkerTake
    <3>2. ASSUME NEW t \in Clients PROVE ClientInv(t)'
      <4>1. WithHandler(t)' = WithHandler(t) /\ WithWorkers(t)' = WithWorkers(t)
        BY <2>8, <3>1, TakePlaces DEF WithHandler, Current
      <4>2. StaysRead
        BY <3>1 DEF StaysRead, Read
      <4> QED
        BY <3>1, <4>1, <4>2, Quiet DEF Lasting
    <3> QED
      BY <2>8, <3>2, TakenMoves, SlotsMoved DEF DeliveryInv
  <2>9. ASSUME NEW k \in Workers, NEW t \in Clients, WorkerSend(k, t) PROVE DeliveryInv'
    <3>1. PICK m : m = cur[k].msg
      OBVIOUS
    <3>2. /\ cur[k] \in Job /\ t \in cur[k].to /\ m \in Wire /\ m \in Msg
          /\ UNCHANGED <<pc, frames, todo, written, jobs, owed>>
      <4>1. cur[k] \in Job /\ t \in cur[k].to
        BY <2>9 DEF WorkerSend, TypeOK, NoJob
      <4> QED
        BY <2>9, <3>1, <4>1 DEF WorkerSend, Job, Wire
    <3>3. CASE UNCHANGED <<send, dropped, cur>>
      BY <2>1, <3>2, <3>3
    <3>4. CASE SendRaw(t, m) /\ cur' = [cur EXCEPT ![k] = Without(cur[k], t)]
      <4>1. StaysRead
        BY <3>2 DEF StaysRead, Read
      <4>2. m \in WithWorkers(t) /\ m \notin WithWorkers(t)'
        BY <3>1, <3>2, <3>4, SendOnce
      <4>3. ASSUME NEW u \in Clients PROVE ClientInv(u)'
        <5>1. WithHandler(u)' = WithHandler(u) /\ WithWorkers(u)' \subseteq WithWorkers(u)
          BY <3>2, <3>4, WorkerSendPlaces DEF WithHandler, Current
        <5>2. /\ u # t => send'[u] = send[u] /\ dropped'[u] = dropped[u]
              /\ u = t => \/ send'[t] = Append(send[t], m) /\ dropped'[t] = dropped[t]
                          \/ send'[t] = send[t] /\ dropped'[t] = dropped[t] \cup {m}
          BY <3>2, <3>4, SendRawPlaces
        <5>3. CASE u # t
          BY <3>2, <4>1, <5>1, <5>2, <5>3, Quiet DEF Lasting
        <5>4. CASE u = t
          <6>1. m \notin WithHandler(u)' \cup WithWorkers(u)'
            BY <4>2, <5>1, <5>4 DEF ClientInv, OnePlace
          <6>2. CASE send'[t] = Append(send[t], m) /\ dropped'[t] = dropped[t]
            BY <3>2, <4>1, <4>2, <5>1, <5>4, <6>1, <6>2, Sent DEF Lasting
          <6>3. CASE send'[t] = send[t] /\ dropped'[t] = dropped[t] \cup {m}
            BY <3>2, <4>1, <4>2, <5>1, <5>4, <6>1, <6>3, Dropped DEF Lasting
          <6> QED
            BY <5>2, <5>4, <6>2, <6>3
        <5> QED
          BY <5>3, <5>4
      <4> QED
        BY <3>2, <3>4, <4>3, ServedMoves, SlotsMoved DEF DeliveryInv
    <3> QED
      BY <2>9, <3>1, <3>3, <3>4 DEF WorkerSend
  <2>10. ASSUME UNCHANGED <<pc, frames, todo, send, written, jobs, cur, dropped, owed>>
         PROVE  DeliveryInv'
    BY <2>1, <2>10
  <2>11. ASSUME NEW c \in Clients, PumpStop(c) PROVE DeliveryInv'
    BY <2>10, <2>11 DEF PumpStop
  <2>12. ASSUME NEW k \in Workers, WorkerExit(k) PROVE DeliveryInv'
    BY <2>10, <2>12 DEF WorkerExit
  <2>13. ASSUME Stop PROVE DeliveryInv'
    BY <2>10, <2>13 DEF Stop, Closing, ShutdownStart, CloseWorker, ShutdownWait
  <2>14. ASSUME UNCHANGED vars PROVE DeliveryInv'
    BY <2>10, <2>14 DEF vars
  <2>15. ASSUME NEW c \in Clients, NEW m \in Old, Replay(c, m) PROVE DeliveryInv'
    <3>1. /\ UNCHANGED <<pc, frames, todo, written, jobs, cur, dropped, owed>>
          /\ m \in history[c] /\ m \in Msg
          /\ send'[c] = send[c] \/ send'[c] = Append(send[c], m)
          /\ \A t \in Clients : t # c => send'[t] = send[t]
      BY <2>15, ReplayFrame
    <3>2. StaysRead
      BY <3>1 DEF StaysRead, Read
    <3>3. Read(m)' /\ m \notin Received(c)
      BY <3>1 DEF HistoryInv, Read
    <3>4. m \notin WithWorkers(c) \cup owed[c]
      BY KindsApart DEF ClientInv, OnlyOwed, TypeOK
    <3>5. ASSUME NEW t \in Clients PROVE ClientInv(t)'
      <4>1. WithHandler(t)' = WithHandler(t) /\ WithWorkers(t)' = WithWorkers(t)
        BY <3>1 DEF WithHandler, WithWorkers, Current
      <4>2. CASE UNCHANGED send[t]
        BY <3>1, <3>2, <4>1, <4>2, Quiet DEF Lasting
      <4>3. CASE t = c /\ send'[c] = Append(send[c], m)
        BY <3>1, <3>2, <3>3, <3>4, <4>1, <4>3, Told DEF Lasting
      <4> QED
        BY <3>1, <4>2, <4>3
    <3> QED
      BY <3>1, <3>5, SlotsStay, SlotsMoved DEF DeliveryInv
  <2> QED
    BY <2>2, <2>3, <2>4, <2>5, <2>6, <2>7, <2>8, <2>9, <2>11, <2>12, <2>13, <2>14, <2>15
    DEF Next, Handler, Peer, Pump, Worker, Terminated
<1> QED
  BY <1>1, <1>2, TypeCorrect, ChannelsOpen, EntryHolds, HistoryHolds, PTL DEF Spec

\* No client has a message twice as a broadcast nor twice as history, and no broadcast
\* that was dropped for it reaches it (room.go:59-91, broadcast_pool.go:40-68,
\* client.go:111-142, ws_handler.go:96-119): every step that passes a message on takes
\* it from where it was.
THEOREM NothingTwice == Spec => []AtMostOnce
<1>1. TypeOK /\ HasFrame /\ HistoryInv /\ DeliveryInv => AtMostOnce
  <2> SUFFICES ASSUME TypeOK, HasFrame, HistoryInv, DeliveryInv, NEW t \in Clients
               PROVE  /\ Distinct(written[t] \o send[t])
                      /\ Received(t) \cap dropped[t] = {}
                      /\ (Received(t) \cup dropped[t])
                           \cap (WithHandler(t) \cup WithWorkers(t) \cup history[t]) = {}
    BY DEF AtMostOnce, Distinct
  <2>1. OnePlace(t) /\ Once(t)
    BY DEF DeliveryInv, ClientInv
  <2>2. send[t] \in Seq(Msg) /\ written[t] \in Seq(Msg)
    BY PlacesType
  <2>3. Distinct(written[t] \o send[t])
    BY <2>1, <2>2, ConcatDistinct DEF OnePlace, Once
  <2>4. (Received(t) \cup dropped[t]) \cap history[t] = {}
    BY KindsApart DEF HistoryInv, TypeOK
  <2> QED
    BY <2>1, <2>3, <2>4 DEF OnePlace
<1> QED
  BY <1>1, TypeCorrect, HistoryHolds, DeliveryHolds, PTL

-------------------------------------------------------------------------------
(* Room implements Delivery.                                               *)

LEMMA DropIsDrop ==
  ASSUME NEW T \in SUBSET Clients, NEW m \in Wire, UNCHANGED <<clients, owed, written>>,
         dropped' = [t \in Clients |-> IF t \in T THEN dropped[t] \cup {m} ELSE dropped[t]],
         TypeOK, HasFrame, \A t \in T : ClientInv(t) /\ m \in WithHandler(t) \cup WithWorkers(t)
  PROVE  [D!Next]_D!vars
<1>1. CASE T = {}
  <2>1. dropped' = dropped
    BY <1>1 DEF TypeOK
  <2> QED
    BY <2>1 DEF D!vars
<1>2. CASE T # {}
  <2>1. \A t \in T : m \in owed[t] \ (dropped[t] \cup D!Delivered(t))
    BY DEF ClientInv, OnlyOwed, OnePlace, Received, Elements, D!Delivered
  <2>2. D!Drop(T, m)
    BY <2>1 DEF D!Drop
  <2> QED
    BY <1>2, <2>2 DEF D!Next
<1> QED
  BY <1>1, <1>2

\* The detailed room (room.go, broadcast_pool.go, client.go) is best-effort,
\* at-most-once delivery to a snapshot of the members, and of what was sent before to
\* those who join (ws_handler.go:96-119): its initial state is one of Delivery, and
\* each of its steps is a step of Delivery or invisible there.
THEOREM RoomDelivers == Spec => Promise
<1> DEFINE Given == /\ TypeOK /\ HasFrame /\ ChannelsOpenWhileMember
                    /\ PoolFirst /\ NotYetIn /\ HistoryInv /\ DeliveryInv
<1>1. Init => D!Init
  BY DEF Init, D!Init
<1>2. Given /\ [Next]_vars => [D!Next]_D!vars
  <2> SUFFICES ASSUME TypeOK, HasFrame, ChannelsOpenWhileMember, NotYetIn, HistoryInv,
                      \A t \in Clients : ClientInv(t), [Next]_vars
               PROVE  [D!Next]_D!vars
    BY DEF DeliveryInv
  <2> USE DEF roomVars, localVars, handlerVars, clientVars, workerVars, stopVars,
             historyVars
  <2>1. ASSUME UNCHANGED <<clients, owed, dropped, written>> PROVE [D!Next]_D!vars
    BY <2>1 DEF D!vars
  <2>2. ASSUME NEW c \in Clients, Add(c) PROVE [D!Next]_D!vars
    <3>1. c \notin clients /\ owed[c] = {} /\ written[c] = <<>>
      BY <2>2 DEF Add, ChannelsOpenWhileMember, NotYetIn
    <3>2. D!Join(c)
      BY <2>2, <3>1 DEF Add, D!Join
    <3> QED
      BY <3>2 DEF D!Next
  <2>3. ASSUME NEW c \in Clients, Remove(c) PROVE [D!Next]_D!vars
    <3>1. c \in clients
      BY <2>3 DEF Remove, ChannelsOpenWhileMember
    <3>2. D!Leave(c)
      BY <2>3, <3>1 DEF Remove, D!Leave
    <3> QED
      BY <3>2 DEF D!Next
  <2>4. ASSUME NEW c \in Clients, ReadFrame(c) PROVE [D!Next]_D!vars
    <3>1. PICK m : m = Current(c)'
      OBVIOUS
    <3>2. frames[c] + 1 \in 1..MaxFrames /\ frames'[c] = frames[c] + 1 /\ frames[c] \in Int
      BY <2>4, BoundsAssumption DEF ReadFrame, MoreFrames, TypeOK
    <3>3. m \in Wire /\ m.from = c /\ ~Read(m)
      <4>1. m = [from |-> c, seq |-> frames'[c], kind |-> "wire"]
        BY <3>1 DEF Current
      <4> QED
        BY <3>2, <4>1 DEF Wire, Msg, Read
    <3>4. c \in clients
      BY <2>4 DEF ReadFrame, ChannelsOpenWhileMember
    <3>5. \A t \in Clients : m \notin owed[t]
      BY <3>3 DEF ClientInv, AllRead
    <3>6. owed' = [t \in Clients |-> IF t \in clients \ {m.from} THEN owed[t] \cup {m}
                                                                ELSE owed[t]]
      BY <2>4, <3>1, <3>3 DEF ReadFrame, Snapshot
    <3>7. D!Publish(m)
      BY <2>4, <3>3, <3>4, <3>5, <3>6 DEF ReadFrame, D!Publish
    <3> QED
      BY <3>3, <3>7 DEF D!Next
  <2>5. ASSUME NEW c \in Clients, NEW t \in Clients, InlineSend(c, t) PROVE [D!Next]_D!vars
    <3>1. PICK m : m = Current(c)
      OBVIOUS
    <3>2. m \in Wire /\ m \in WithHandler(t)
      BY <2>5, <3>1, CurrentType DEF InlineSend, Broadcasting, HasFrame, WithHandler
    <3>3. UNCHANGED <<clients, owed, written>>
      BY <2>5 DEF InlineSend
    <3>4. \/ UNCHANGED dropped
          \/ dropped' = [dropped EXCEPT ![t] = @ \cup {m}]
      BY <2>5, <3>1 DEF InlineSend, SendRaw
    <3>5. CASE dropped' = [dropped EXCEPT ![t] = @ \cup {m}]
      <4>1. dropped' = [u \in Clients |-> IF u \in {t} THEN dropped[u] \cup {m} ELSE dropped[u]]
        BY <3>5 DEF TypeOK
      <4>2. \A u \in {t} : ClientInv(u) /\ m \in WithHandler(u) \cup WithWorkers(u)
        BY <3>2
      <4>3. {t} \in SUBSET Clients
        OBVIOUS
      <4> QED
        BY <3>2, <3>3, <4>1, <4>2, <4>3, DropIsDrop
    <3> QED
      BY <2>1, <3>3, <3>4, <3>5
  <2>6. ASSUME NEW c \in Clients, NEW T \in SUBSET Clients, SubmitShard(c, T)
        PROVE  [D!Next]_D!vars
    <3>1. PICK m : m = Current(c)
      OBVIOUS
    <3>2. m \in Wire /\ \A t \in T : m \in WithHandler(t)
      BY <2>6, <3>1, CurrentType DEF SubmitShard, Broadcasting, HasFrame, WithHandler
    <3>3. UNCHANGED <<clients, owed, written>>
      BY <2>6 DEF SubmitShard
    <3>4. \/ UNCHANGED dropped
          \/ dropped' = [t \in Clients |-> IF t \in T THEN dropped[t] \cup {m} ELSE dropped[t]]
      BY <2>6, <3>1 DEF SubmitShard
    <3> QED
      BY <2>1, <3>2, <3>3, <3>4, DropIsDrop
  <2>7. ASSUME NEW c \in Clients, PumpWrite(c) PROVE [D!Next]_D!vars
    <3>1. PICK m : m = Head(send[c])
      OBVIOUS
    <3>2. /\ send[c] # <<>> /\ written' = [written EXCEPT ![c] = Append(@, m)]
          /\ UNCHANGED <<clients, owed, dropped>>
      BY <2>7, <3>1 DEF PumpWrite
    <3>3. c \in clients
      BY <2>7 DEF PumpWrite, Serving, ChannelsOpenWhileMember, NotYetIn, Joining
    <3>4. m \in Elements(send[c]) /\ m \in Msg
      <4>1. send[c] \in Seq(Msg)
        BY DEF TypeOK
      <4>2. Elements(send[c]) = {Head(send[c])} \cup Elements(Tail(send[c]))
        BY <3>2, <4>1, TailElements
      <4> QED
        BY <3>1, <3>2, <4>1, <4>2
    <3>5. m \notin D!Delivered(c) /\ m \notin dropped[c]
      BY <3>4 DEF ClientInv, OnePlace, Received, Elements, D!Delivered
    <3>6. CASE m \in owed[c]
      <4>1. m \in Wire
        BY <3>6 DEF TypeOK
      <4>2. D!Deliver(c, m)
        BY <3>2, <3>3, <3>5, <3>6 DEF D!Deliver
      <4> QED
        BY <4>1, <4>2 DEF D!Next
    <3>7. CASE m \notin owed[c]
      <4>1. CASE m \in Error /\ m.from = c
        <5>1. D!Tell(c, m)
          BY <3>2, <3>3, <3>5, <4>1 DEF D!Tell
        <5> QED
          BY <4>1, <5>1 DEF D!Next
      <4>2. CASE m \in Old
        <5>1. m.from # c
          BY <3>4, <4>2 DEF HistoryInv, Received
        <5>2. D!Remind(c, m)
          BY <3>2, <3>3, <3>5, <5>1 DEF D!Remind
        <5> QED
          BY <4>2, <5>2 DEF D!Next
      <4> QED
        BY <3>4, <3>7, <4>1, <4>2 DEF ClientInv, OnlyOwed, Received
    <3> QED
      BY <3>6, <3>7
  <2>8. ASSUME NEW k \in Workers, NEW t \in Clients, WorkerSend(k, t) PROVE [D!Next]_D!vars
    <3>1. PICK m : m = cur[k].msg
      OBVIOUS
    <3>2. m \in Wire /\ m \in WithWorkers(t)
      <4>1. cur[k] \in Job /\ t \in cur[k].to
        BY <2>8 DEF WorkerSend, TypeOK, NoJob
      <4> QED
        BY <3>1, <4>1, WorkersHave DEF Job
    <3>3. UNCHANGED <<clients, owed, written>>
      BY <2>8 DEF WorkerSend
    <3>4. \/ UNCHANGED dropped
          \/ dropped' = [dropped EXCEPT ![t] = @ \cup {m}]
      BY <2>8, <3>1 DEF WorkerSend, SendRaw
    <3>5. CASE dropped' = [dropped EXCEPT ![t] = @ \cup {m}]
      <4>1. dropped' = [u \in Clients |-> IF u \in {t} THEN dropped[u] \cup {m} ELSE dropped[u]]
        BY <3>5 DEF TypeOK
      <4>2. \A u \in {t} : ClientInv(u) /\ m \in WithHandler(u) \cup WithWorkers(u)
        BY <3>2
      <4>3. {t} \in SUBSET Clients
        OBVIOUS
      <4> QED
        BY <3>2, <3>3, <4>1, <4>2, <4>3, DropIsDrop
    <3> QED
      BY <2>1, <3>3, <3>4, <3>5
  <2>9. ASSUME NEW c \in Clients,
               \/ CheckPool(c) \/ ActivatePool(c) \/ Query(c) \/ Run(c) \/ ReadTooLong(c)
               \/ ReadError(c) \/ PumpFail(c) \/ PumpStop(c) \/ \E m \in Old : Replay(c, m)
        PROVE  [D!Next]_D!vars
    BY <2>1, <2>9 DEF CheckPool, ActivatePool, Query, Run, Replay, ReadTooLong, ReadError,
                     PumpFail, PumpStop
  <2>10. ASSUME NEW k \in Workers, WorkerTake(k) \/ WorkerExit(k) PROVE [D!Next]_D!vars
    BY <2>1, <2>10 DEF WorkerTake, WorkerExit
  <2>11. ASSUME Stop PROVE [D!Next]_D!vars
    BY <2>1, <2>11 DEF Stop, Closing, ShutdownStart, CloseWorker, ShutdownWait
  <2>12. ASSUME UNCHANGED vars PROVE [D!Next]_D!vars
    BY <2>1, <2>12 DEF vars
  <2> QED
    BY <2>2, <2>3, <2>4, <2>5, <2>6, <2>7, <2>8, <2>9, <2>10, <2>11, <2>12
    DEF Next, Handler, Peer, Pump, Worker, Terminated
<1> QED
  BY <1>1, <1>2, TypeCorrect, ChannelsOpen, EntryHolds, HistoryHolds, DeliveryHolds, PTL
  DEF Spec, Promise, D!Spec
-------------------------------------------------------------------------------
(* The order of one sender's broadcasts.                                   *)

Precedes(m, n)  == m.from = n.from /\ Old \cap {m, n} = {} => m.seq < n.seq
InOrder(s)      == \A i, j \in DOMAIN s : i < j => Precedes(s[i], s[j])
AllBefore(M, N) == \A m \in M, n \in N : Precedes(m, n)

LEMMA AppendInOrder ==
  ASSUME NEW S, NEW s \in Seq(S), NEW e \in S, InOrder(s), AllBefore(Elements(s), {e})
  PROVE  InOrder(Append(s, e))
<1>1. /\ DOMAIN s = 1..Len(s) /\ Len(s) \in Nat /\ DOMAIN Append(s, e) = 1..(Len(s) + 1)
      /\ \A i \in 1..Len(s) : Append(s, e)[i] = s[i]
      /\ Append(s, e)[Len(s) + 1] = e
  OBVIOUS
<1>2. SUFFICES ASSUME NEW i \in 1..(Len(s) + 1), NEW j \in 1..(Len(s) + 1), i < j
               PROVE  Precedes(Append(s, e)[i], Append(s, e)[j])
  BY <1>1 DEF InOrder
<1>3. i \in 1..Len(s) /\ (j \in 1..Len(s) \/ j = Len(s) + 1)
  BY <1>1, <1>2
<1>4. \A n \in 1..Len(s) : Precedes(s[n], e)
  BY <1>1 DEF AllBefore, Elements
<1> QED
  BY <1>1, <1>2, <1>3, <1>4 DEF InOrder

LEMMA TailInOrder ==
  ASSUME NEW S, NEW s \in Seq(S), s # <<>>, InOrder(s)
  PROVE  InOrder(Tail(s)) /\ AllBefore({Head(s)}, Elements(Tail(s)))
<1>1. /\ DOMAIN s = 1..Len(s) /\ Len(s) \in Nat /\ Len(s) >= 1
      /\ DOMAIN Tail(s) = 1..(Len(s) - 1) /\ Head(s) = s[1]
  OBVIOUS
<1>2. \A i \in 1..(Len(s) - 1) :
         Tail(s)[i] = s[i + 1] /\ i + 1 \in DOMAIN s /\ 1 \in DOMAIN s /\ 1 < i + 1
  BY <1>1
<1>3. \A i, j \in 1..(Len(s) - 1) : i < j => i + 1 < j + 1
  BY <1>1
<1>4. InOrder(Tail(s))
  BY <1>1, <1>2, <1>3 DEF InOrder
<1>5. AllBefore({Head(s)}, Elements(Tail(s)))
  BY <1>1, <1>2 DEF InOrder, AllBefore, Elements
<1> QED
  BY <1>4, <1>5

LEMMA ConcatInOrder ==
  ASSUME NEW S, NEW s \in Seq(S), NEW r \in Seq(S), InOrder(s), InOrder(r),
         AllBefore(Elements(s), Elements(r))
  PROVE  InOrder(s \o r)
<1> DEFINE q == s \o r
<1>1. /\ DOMAIN s = 1..Len(s) /\ Len(s) \in Nat
      /\ DOMAIN r = 1..Len(r) /\ Len(r) \in Nat
      /\ DOMAIN q = 1..(Len(s) + Len(r))
  OBVIOUS
<1>2. \A i \in 1..Len(s) : q[i] = s[i]
  OBVIOUS
<1>3. \A i \in DOMAIN q : i \notin 1..Len(s) => i - Len(s) \in DOMAIN r /\ q[i] = r[i - Len(s)]
  BY <1>1
<1>4. \A i, j \in DOMAIN q :
         i < j => /\ i - Len(s) < j - Len(s)
                  /\ j \in 1..Len(s) => i \in 1..Len(s)
  BY <1>1
<1>5. ASSUME NEW i \in DOMAIN q, NEW j \in DOMAIN q, i < j PROVE Precedes(q[i], q[j])
  <2>1. CASE j \in 1..Len(s)
    BY <1>1, <1>2, <1>4, <1>5, <2>1 DEF InOrder
  <2>2. CASE i \notin 1..Len(s)
    BY <1>3, <1>4, <1>5, <2>2 DEF InOrder
  <2>3. CASE i \in 1..Len(s) /\ j \notin 1..Len(s)
    BY <1>1, <1>2, <1>3, <2>3 DEF AllBefore, Elements
  <2> QED
    BY <2>1, <2>2, <2>3
<1> QED
  BY <1>5 DEF InOrder

\* Before the pool is activated, or when it has one worker, there is one way only
\* into a channel.
OneWay == pools = 0 \/ WorkerCount = 1

\* No worker has anything before the pool is activated.
IdleBefore == pools = 0 => \A k \in Workers : cur[k].to = {}

\* Every worker has its jobs in the order of their senders.
JobsInOrder ==
  \A k \in Workers : \A i, j \in Slots(k) :
    i < j /\ JobAt(k, i).to \cap JobAt(k, j).to # {} =>
      Precedes(JobAt(k, i).msg, JobAt(k, j).msg)

\* A broadcast is never for its own sender.
FromOthers(t) == \A m \in owed[t] : m.from # t

\* What a handler still has is newer than what the workers have of it; and while it
\* sends inline, they have nothing of it.
HandlerLast(t) ==
  /\ AllBefore(WithWorkers(t), WithHandler(t))
  /\ \A c \in Clients : pc[c] = "inline" => \A m \in WithWorkers(t) : m.from # c

\* What t has received is in order, and older than what is on its way to t.
ChannelOrder(t) ==
  /\ InOrder(written[t]) /\ InOrder(send[t])
  /\ AllBefore(Elements(written[t]), Elements(send[t]))
  /\ AllBefore(Received(t), WithWorkers(t) \cup WithHandler(t))

\* What goes nowhere, moves from the handler to a worker, or is newer than what t has
\* received, leaves the channel in order.
LEMMA OrderQuiet ==
  ASSUME NEW t \in Clients, ChannelOrder(t), UNCHANGED <<written[t], send[t]>>, NEW New,
         AllBefore(Received(t), New),
         WithWorkers(t)' \cup WithHandler(t)' \subseteq WithWorkers(t) \cup WithHandler(t) \cup New
  PROVE  ChannelOrder(t)'
<1>1. Received(t)' = Received(t)
  BY DEF Received
<1> QED
  BY <1>1 DEF ChannelOrder, AllBefore

\* A message that is older than all on its way may enter the channel.
LEMMA OrderSent ==
  ASSUME TypeOK, NEW t \in Clients, ChannelOrder(t), UNCHANGED written[t],
         NEW m \in Msg, AllBefore(Received(t), {m}), send'[t] = Append(send[t], m),
         WithWorkers(t)' \cup WithHandler(t)' \subseteq WithWorkers(t) \cup WithHandler(t),
         AllBefore({m}, WithWorkers(t)' \cup WithHandler(t)')
  PROVE  ChannelOrder(t)'
<1>1. Elements(send'[t]) = Elements(send[t]) \cup {m} /\ send[t] \in Seq(Msg)
  BY AppendElements DEF TypeOK
<1>2. Received(t)' = Received(t) \cup {m}
  BY <1>1 DEF Received
<1>3. AllBefore(Elements(send[t]), {m}) /\ AllBefore(Elements(written[t]), {m})
  BY DEF Received, AllBefore
<1>4. InOrder(send'[t])
  BY <1>1, <1>3, AppendInOrder DEF ChannelOrder
<1>5. AllBefore(Elements(written'[t]), Elements(send'[t]))
  BY <1>1, <1>3 DEF ChannelOrder, AllBefore
<1>6. AllBefore(Received(t)', WithWorkers(t)' \cup WithHandler(t)')
  BY <1>2 DEF ChannelOrder, AllBefore
<1> QED
  BY <1>4, <1>5, <1>6 DEF ChannelOrder

\* The write pump takes from the front and adds at the end.
LEMMA OrderPumped ==
  ASSUME TypeOK, NEW t \in Clients, ChannelOrder(t), send[t] # <<>>,
         send'[t] = Tail(send[t]),
         written'[t] = written[t] \/ written'[t] = Append(written[t], Head(send[t])),
         WithHandler(t)' = WithHandler(t), WithWorkers(t)' = WithWorkers(t)
  PROVE  ChannelOrder(t)'
<1> DEFINE m == Head(send[t])
<1>1. send[t] \in Seq(Msg) /\ written[t] \in Seq(Msg) /\ m \in Msg
  BY DEF TypeOK
<1>2. Elements(send[t]) = {m} \cup Elements(send'[t])
  BY <1>1, TailElements
<1>3. InOrder(send'[t]) /\ AllBefore({m}, Elements(send'[t]))
  BY <1>1, TailInOrder DEF ChannelOrder
<1>4. AllBefore(Elements(written[t]), {m})
  BY <1>2 DEF ChannelOrder, AllBefore
<1>5. InOrder(written'[t]) /\ Elements(written'[t]) \subseteq Elements(written[t]) \cup {m}
  <2>1. Elements(Append(written[t], m)) = Elements(written[t]) \cup {m}
    BY <1>1, AppendElements
  <2>2. InOrder(written[t])
    BY DEF ChannelOrder
  <2>3. InOrder(Append(written[t], m))
    BY <1>1, <1>4, <2>2, AppendInOrder
  <2> QED
    BY <2>1, <2>2, <2>3
<1>6. Received(t)' \subseteq Received(t)
  BY <1>2, <1>5 DEF Received
<1>7. AllBefore(Elements(written'[t]), Elements(send'[t]))
  BY <1>2, <1>3, <1>5 DEF ChannelOrder, AllBefore
<1>8. AllBefore(Received(t)', WithWorkers(t)' \cup WithHandler(t)')
  BY <1>6 DEF ChannelOrder, AllBefore
<1> QED
  BY <1>3, <1>5, <1>7, <1>8 DEF ChannelOrder

\* Jobs that move do not overtake each other.
LEMMA JobsMoved ==
  ASSUME TypeOK, JobsInOrder, \E shift \in Shifts : Moved(shift)
  PROVE  JobsInOrder'
<1> PICK shift \in Shifts : Moved(shift)
  OBVIOUS
<1>1. SUFFICES ASSUME NEW k \in Workers, NEW i \in Slots(k)', NEW j \in Slots(k)', i < j,
                      NEW t \in JobAt(k, i)'.to \cap JobAt(k, j)'.to
               PROVE  Precedes(JobAt(k, i)'.msg, JobAt(k, j)'.msg)
  BY DEF JobsInOrder, Precedes
<1>2. /\ i + shift[k] \in Slots(k) /\ j + shift[k] \in Slots(k)
      /\ t \in JobAt(k, i + shift[k]).to \cap JobAt(k, j + shift[k]).to
      /\ JobAt(k, i + shift[k]).msg = JobAt(k, i)'.msg
      /\ JobAt(k, j + shift[k]).msg = JobAt(k, j)'.msg
  BY DEF Moved
<1>3. i + shift[k] < j + shift[k]
  <2>1. i \in Int /\ j \in Int /\ shift[k] \in Int
    BY DEF Slots, Shifts
  <2> QED
    BY <1>1, <2>1
<1> QED
  BY <1>2, <1>3 DEF JobsInOrder

\* A job of a message newer than what the workers have comes last.
LEMMA JobsAdded ==
  ASSUME TypeOK, JobsInOrder, NEW k \in Workers, NEW new \in Job,
         \A t \in new.to : AllBefore(WithWorkers(t), {new.msg}),
         jobs' = [jobs EXCEPT ![k] = Append(@, new)], UNCHANGED cur
  PROVE  JobsInOrder'
<1>1. SUFFICES ASSUME NEW l \in Workers, NEW i \in Slots(l)', NEW j \in Slots(l)', i < j,
                      NEW t \in JobAt(l, i)'.to \cap JobAt(l, j)'.to
               PROVE  Precedes(JobAt(l, i)'.msg, JobAt(l, j)'.msg)
  BY DEF JobsInOrder, Precedes
<1>2. \A q \in Slots(l)' :
         \/ l = k /\ q = Len(jobs[k]) + 1 /\ JobAt(l, q)' = new
         \/ q \in Slots(l) /\ JobAt(l, q)' = JobAt(l, q)
  BY AddedLast
<1>3. i \in Slots(l) /\ JobAt(l, i)' = JobAt(l, i)
  <2>1. l = k => i < Len(jobs[k]) + 1
    <3>1. Len(jobs[k]) \in Nat /\ Len(jobs'[k]) = Len(jobs[k]) + 1
      BY DEF TypeOK
    <3> QED
      BY <1>1, <3>1 DEF Slots
  <2>2. i \in Int
    BY DEF Slots
  <2>3. Len(jobs[k]) \in Nat
    BY DEF TypeOK
  <2> QED
    BY <1>2, <2>1, <2>2, <2>3
<1>4. JobAt(l, i).msg \in WithWorkers(t)
  BY <1>1, <1>3, SlotsOf
<1>5. CASE JobAt(l, j)' = new
  BY <1>1, <1>3, <1>4, <1>5 DEF AllBefore
<1>6. CASE j \in Slots(l) /\ JobAt(l, j)' = JobAt(l, j)
  BY <1>1, <1>3, <1>6 DEF JobsInOrder
<1> QED
  BY <1>2, <1>5, <1>6

\* A handler has one message at a time.
LEMMA OneMessage ==
  ASSUME NEW t, NEW m \in WithHandler(t), NEW n \in WithHandler(t), m.from = n.from
  PROVE  m = n
  BY DEF WithHandler, Current

\* What nobody sends on, and what a handler finds new, leaves it last.
LEMMA HandlerQuiet ==
  ASSUME NEW t \in Clients, HandlerLast(t), WithWorkers(t)' \subseteq WithWorkers(t),
         NEW New, AllBefore(WithWorkers(t), New), WithHandler(t)' \subseteq WithHandler(t) \cup New,
         \A c \in Clients : pc'[c] = "inline" => pc[c] = "inline" \/ WithWorkers(t) = {}
  PROVE  HandlerLast(t)'
  BY DEF HandlerLast, AllBefore

\* The only worker sends the oldest message that is on its way through it.
LEMMA OldestNext ==
  ASSUME TypeOK, JobsInOrder, WorkerCount = 1, NEW k \in Workers, NEW t \in Clients,
         t \in cur[k].to, cur' = [cur EXCEPT ![k] = Without(cur[k], t)], UNCHANGED jobs
  PROVE  AllBefore({cur[k].msg}, WithWorkers(t)')
<1> SUFFICES ASSUME NEW n \in WithWorkers(t)' PROVE Precedes(cur[k].msg, n)
  BY DEF AllBefore
<1>1. Workers = {k}
  BY DEF Workers
<1>2. t \notin cur'[k].to
  BY DEF TypeOK, Without, NoJob
<1>3. PICK i \in DOMAIN jobs[k] : t \in jobs[k][i].to /\ n = jobs[k][i].msg
  <2>1. PICK j \in Elements(jobs'[k]) \cup {cur'[k]} : t \in j.to /\ n = j.msg
    BY <1>1 DEF WithWorkers
  <2>2. j \in Elements(jobs[k])
    BY <1>2, <2>1
  <2> QED
    BY <2>1, <2>2 DEF Elements
<1>4. 0 \in Slots(k) /\ i \in Slots(k) /\ 0 < i /\ JobAt(k, 0) = cur[k] /\ JobAt(k, i) = jobs[k][i]
  <2>1. DOMAIN jobs[k] = 1..Len(jobs[k]) /\ Len(jobs[k]) \in Nat
    BY DEF TypeOK
  <2> QED
    BY <1>3, <2>1 DEF Slots, JobAt
<1> QED
  BY <1>3, <1>4 DEF JobsInOrder

OrderInv ==
  /\ IdleBefore /\ JobsInOrder
  /\ \A t \in Clients : /\ FromOthers(t) /\ HandlerLast(t)
                        /\ OneWay => ChannelOrder(t)

LEMMA OrderHolds == Spec => []OrderInv
<1> DEFINE Given == TypeOK /\ HasFrame /\ PoolFirst /\ DeliveryInv
<1>1. ASSUME Init PROVE OrderInv
  <2>1. /\ \A t \in Clients : send[t] = <<>> /\ written[t] = <<>> /\ owed[t] = {} /\ pc[t] = "out"
        /\ \A k \in Workers : jobs[k] = <<>> /\ cur[k] = NoJob
    BY <1>1 DEF Init
  <2>2. \A t \in Clients : WithHandler(t) = {} /\ WithWorkers(t) = {} /\ Received(t) = {}
    <3>1. \A k \in Workers : \A j \in Elements(jobs[k]) \cup {cur[k]} : j.to = {}
      BY <2>1 DEF Elements, NoJob
    <3>2. \A t \in Clients : WithHandler(t) = {} /\ WithWorkers(t) = {}
      BY <2>1, <3>1, WorkersHave DEF WithHandler, Broadcasting
    <3> QED
      BY <2>1, <3>2 DEF Received, Elements
  <2>3. IdleBefore /\ JobsInOrder
    <3>1. \A k \in Workers : \A i \in Slots(k) : JobAt(k, i) = NoJob
      BY <2>1 DEF Slots, JobAt
    <3> QED
      BY <2>1, <3>1 DEF IdleBefore, JobsInOrder, NoJob
  <2>4. \A t \in Clients : FromOthers(t) /\ HandlerLast(t) /\ ChannelOrder(t)
    BY <2>1, <2>2 DEF FromOthers, HandlerLast, ChannelOrder, AllBefore, InOrder, Elements
  <2> QED
    BY <2>3, <2>4 DEF OrderInv
<1>2. Given /\ OrderInv /\ [Next]_vars => OrderInv'
  <2> SUFFICES ASSUME TypeOK, HasFrame, PoolFirst, \A t \in Clients : ClientInv(t),
                      OrderInv, [Next]_vars
               PROVE  OrderInv'
    BY DEF DeliveryInv
  <2> USE DEF roomVars, localVars, handlerVars, clientVars, workerVars, stopVars,
             historyVars
  <2>0. /\ IdleBefore /\ JobsInOrder
        /\ \A t \in Clients : FromOthers(t) /\ HandlerLast(t)
        /\ OneWay => \A t \in Clients : ChannelOrder(t)
    BY DEF OrderInv
  <2>1. ASSUME UNCHANGED <<send, written, owed>>, IdleBefore', OneWay' => OneWay,
               \E shift \in Shifts : Moved(shift),
               \A t \in Clients : /\ WithWorkers(t)' \subseteq WithWorkers(t)
                                  /\ WithHandler(t)' \subseteq WithHandler(t),
               \A d \in Clients : pc'[d] = "inline" => pc[d] = "inline"
        PROVE  OrderInv'
    <3>1. JobsInOrder'
      BY <2>0, <2>1, JobsMoved
    <3>2. ASSUME NEW t \in Clients
          PROVE  FromOthers(t)' /\ HandlerLast(t)' /\ (OneWay' => ChannelOrder(t)')
      <4> DEFINE New == {}
      <4>1. AllBefore(WithWorkers(t), New) /\ AllBefore(Received(t), New)
        BY DEF AllBefore
      <4>2. FromOthers(t)'
        BY <2>0, <2>1 DEF FromOthers
      <4>3. HandlerLast(t)'
        BY <2>0, <2>1, <4>1, HandlerQuiet
      <4>4. OneWay' => ChannelOrder(t)'
        BY <2>0, <2>1, <4>1, OrderQuiet
      <4> QED
        BY <4>2, <4>3, <4>4
    <3> QED
      BY <2>1, <3>1, <3>2 DEF OrderInv
  <2>2. ASSUME UNCHANGED <<send, written, jobs, cur, owed, frames, todo, pools>>,
               \A d \in Clients : pc'[d] \in Broadcasting => pc'[d] = pc[d]
        PROVE  OrderInv'
    <3>1. \A t \in Clients : WithHandler(t)' \subseteq WithHandler(t) /\ WithWorkers(t)' = WithWorkers(t)
      BY <2>2 DEF WithHandler, WithWorkers, Current
    <3>2. IdleBefore' /\ (OneWay' => OneWay)
      BY <2>0, <2>2 DEF IdleBefore, OneWay
    <3> QED
      BY <2>1, <2>2, <3>1, <3>2, SlotsStay DEF Broadcasting
  <2>3. ASSUME NEW c \in Clients,
               Add(c) \/ CheckPool(c) \/ Query(c) \/ Run(c) \/ ReadError(c) \/ Remove(c)
        PROVE  OrderInv'
    BY <2>2, <2>3 DEF Add, CheckPool, Query, Run, ReadError, Remove, Goto, TypeOK, Broadcasting
  <2>4. ASSUME NEW c \in Clients, ActivatePool(c) PROVE OrderInv'
    <3>1. /\ UNCHANGED <<send, written, cur, owed, frames, todo>>
          /\ \A d \in Clients : pc'[d] \in Broadcasting => pc'[d] = pc[d]
      BY <2>4 DEF ActivatePool, Recheck, Goto, TypeOK, Broadcasting
    <3>2. CASE pools # 0
      BY <2>2, <2>4, <3>1, <3>2 DEF ActivatePool, Recheck
    <3>3. CASE pools = 0
      <4>1. jobs' = [k \in Workers |-> <<>>] /\ pools' = 1
        BY <2>4, <3>3 DEF ActivatePool, Recheck, FreshChannels
      <4>2. jobs = [k \in Workers |-> jobs[k]] /\ \A k \in Workers : jobs[k] = <<>>
        BY <3>3 DEF PoolFirst, TypeOK
      <4>3. jobs' = jobs
        BY <4>1, <4>2
      <4>4. \A t \in Clients : WithHandler(t)' \subseteq WithHandler(t) /\ WithWorkers(t)' = WithWorkers(t)
        BY <3>1, <4>3 DEF WithHandler, WithWorkers, Current
      <4>5. IdleBefore' /\ (OneWay' => OneWay)
        BY <3>3, <4>1 DEF IdleBefore, OneWay
      <4> QED
        BY <2>1, <3>1, <4>3, <4>4, <4>5, SlotsStay DEF Broadcasting
    <3> QED
      BY <3>2, <3>3
  <2>5. ASSUME NEW c \in Clients, ReadFrame(c) PROVE OrderInv'
    <3>1. PICK m : m = Current(c)'
      OBVIOUS
    <3>2. /\ pc'[c] = "inline" => pools = 0
          /\ \A d \in Clients : d # c => /\ pc'[d] = pc[d] /\ todo'[d] = todo[d]
                                        /\ frames'[d] = frames[d]
          /\ UNCHANGED <<send, written, jobs, cur, pools>>
          /\ frames'[c] = frames[c] + 1 /\ frames[c] \in Int
          /\ \A t \in Clients : \/ owed'[t] = owed[t]
                                \/ t # c /\ owed'[t] = owed[t] \cup {m}
      BY <2>5, <3>1, BoundsAssumption DEF ReadFrame, Snapshot, Goto, TypeOK
    <3>3. m.from = c /\ m.seq = frames[c] + 1
      BY <3>1, <3>2 DEF Current
    <3>4. IdleBefore' /\ (OneWay' => OneWay) /\ JobsInOrder'
      BY <2>0, <3>2, SlotsStay, JobsMoved DEF IdleBefore, OneWay
    <3>5. ASSUME NEW t \in Clients
          PROVE  FromOthers(t)' /\ HandlerLast(t)' /\ (OneWay' => ChannelOrder(t)')
      <4>1. WithWorkers(t)' = WithWorkers(t) /\ WithHandler(t)' \subseteq WithHandler(t) \cup {m}
        BY <3>1, <3>2 DEF WithWorkers, WithHandler, Current
      <4>2. AllBefore(Received(t) \cup WithWorkers(t), {m})
        <5>1. \A n \in Received(t) \cup WithWorkers(t) : n \in Msg /\ n.seq <= frames[n.from]
          BY PlacesType DEF ClientInv, AllRead, Read
        <5>2. \A n \in Msg : n.seq \in Int
          BY BoundsAssumption DEF Msg
        <5> QED
          BY <3>2, <3>3, <5>1, <5>2 DEF AllBefore, Precedes
      <4>3. pools = 0 => WithWorkers(t) = {}
        BY <2>0, WorkersHave DEF IdleBefore, PoolFirst, Elements
      <4>4. FromOthers(t)'
        BY <2>0, <3>2, <3>3 DEF FromOthers
      <4>5. HandlerLast(t)'
        <5>1. AllBefore(WithWorkers(t), {m})
          BY <4>2 DEF AllBefore
        <5> QED
          BY <2>0, <3>2, <4>1, <4>3, <5>1, HandlerQuiet
      <4>6. OneWay' => ChannelOrder(t)'
        <5>1. AllBefore(Received(t), {m})
          BY <4>2 DEF AllBefore
        <5> QED
          BY <2>0, <3>2, <3>4, <4>1, <5>1, OrderQuiet
      <4> QED
        BY <4>4, <4>5, <4>6
    <3> QED
      BY <3>4, <3>5 DEF OrderInv
  <2>6. ASSUME NEW c \in Clients, ReadTooLong(c) PROVE OrderInv'
    <3>1. PICK e : e = [from |-> c, seq |-> frames[c] + 1, kind |-> "error"]
      OBVIOUS
    <3>2. /\ \A d \in Clients : pc'[d] \in Broadcasting => pc'[d] = pc[d] /\ d # c
          /\ \A d \in Clients : d # c => frames'[d] = frames[d]
          /\ UNCHANGED <<todo, written, jobs, cur, owed, pools>>
          /\ frames[c] \in Int /\ frames[c] + 1 \in 1..MaxFrames
          /\ send' = send \/ send' = [send EXCEPT ![c] = Append(@, e)]
      BY <2>6, <3>1, BoundsAssumption DEF ReadTooLong, MoreFrames, Goto, TypeOK, Broadcasting
    <3>3. e \in Msg /\ e.from = c /\ e.seq = frames[c] + 1
      BY <3>1, <3>2 DEF Msg
    <3>4. IdleBefore' /\ (OneWay' => OneWay) /\ JobsInOrder'
      BY <2>0, <3>2, SlotsStay, JobsMoved DEF IdleBefore, OneWay
    <3>5. ASSUME NEW t \in Clients
          PROVE  FromOthers(t)' /\ HandlerLast(t)' /\ (OneWay' => ChannelOrder(t)')
      <4> DEFINE New == {}
      <4>1. WithWorkers(t)' = WithWorkers(t) /\ WithHandler(t)' \subseteq WithHandler(t)
        BY <3>2 DEF WithWorkers, WithHandler, Current
      <4>2. AllBefore(WithWorkers(t), New) /\ AllBefore(Received(t), New)
        BY DEF AllBefore
      <4>3. FromOthers(t)'
        BY <2>0, <3>2 DEF FromOthers
      <4>4. HandlerLast(t)'
        BY <2>0, <3>2, <4>1, <4>2, HandlerQuiet DEF Broadcasting
      <4>5. CASE UNCHANGED send[t]
        <5>1. OneWay' => ChannelOrder(t)'
          BY <2>0, <3>2, <3>4, <4>1, <4>2, <4>5, OrderQuiet
        <5> QED
          BY <4>3, <4>4, <5>1
      <4>6. CASE t = c /\ send'[c] = Append(send[c], e)
        <5>1. AllBefore(Received(t), {e})
          <6>1. \A n \in Received(t) : n \in Msg /\ n.seq <= frames[n.from]
            BY PlacesType DEF ClientInv, AllRead, Read
          <6>2. \A n \in Msg : n.seq \in Int
            BY BoundsAssumption DEF Msg
          <6> QED
            BY <3>2, <3>3, <6>1, <6>2 DEF AllBefore, Precedes
        <5>2. AllBefore({e}, WithWorkers(t)' \cup WithHandler(t)')
          <6>1. \A n \in WithWorkers(t)' \cup WithHandler(t)' : n.from # c
            BY <2>0, <4>1, <4>6 DEF ClientInv, OnlyOwed, FromOthers
          <6> QED
            BY <3>3, <6>1 DEF AllBefore, Precedes
        <5>3. OneWay' => ChannelOrder(t)'
          BY <2>0, <3>2, <3>3, <3>4, <4>1, <4>6, <5>1, <5>2, OrderSent
        <5> QED
          BY <4>3, <4>4, <5>3
      <4> QED
        BY <3>2, <4>5, <4>6 DEF TypeOK
    <3> QED
      BY <3>4, <3>5 DEF OrderInv
  <2>7. ASSUME NEW c \in Clients, NEW t \in Clients, InlineSend(c, t) PROVE OrderInv'
    <3>1. PICK m : m = Current(c)
      OBVIOUS
    <3>2. /\ pc[c] = "inline" /\ m \in Wire /\ m \in Msg /\ m.from = c /\ m \in WithHandler(t)
          /\ UNCHANGED <<frames, written, jobs, cur, owed, pools>>
      <4>1. pc[c] = "inline" /\ t \in todo[c] /\ frames[c] \in 1..MaxFrames
        BY <2>7 DEF InlineSend, HasFrame, Broadcasting
      <4> QED
        BY <2>7, <3>1, <4>1, CurrentType DEF InlineSend, Current, WithHandler, Broadcasting
    <3>3. IdleBefore' /\ (OneWay' => OneWay)
      BY <2>0, <3>2 DEF IdleBefore, OneWay
    <3>4. CASE Panic(c) /\ UNCHANGED <<send, dropped>>
      <4>1. \A u \in Clients : WithHandler(u)' \subseteq WithHandler(u) /\ WithWorkers(u)' = WithWorkers(u)
        BY <3>2, <3>4, PanicPlaces DEF WithWorkers, Broadcasting
      <4>2. \A d \in Clients : pc'[d] = "inline" => pc[d] = "inline"
        BY <3>4 DEF Panic, Goto, TypeOK
      <4> QED
        BY <2>1, <3>2, <3>3, <3>4, <4>1, <4>2, SlotsStay
    <3>5. CASE SendRaw(t, m) /\ Served(c, {t})
      <4>1. JobsInOrder'
        BY <2>0, <3>2, SlotsStay, JobsMoved
      <4>2. ASSUME NEW u \in Clients
            PROVE  FromOthers(u)' /\ HandlerLast(u)' /\ (OneWay' => ChannelOrder(u)')
        <5> DEFINE New == {}
        <5>1. /\ WithHandler(u)' \subseteq WithHandler(u) /\ WithWorkers(u)' = WithWorkers(u)
              /\ u = t => m \notin WithHandler(u)'
          BY <3>1, <3>2, <3>5, ServedPlaces DEF WithWorkers, Broadcasting
        <5>2. AllBefore(WithWorkers(u), New) /\ AllBefore(Received(u), New)
          BY DEF AllBefore
        <5>3. FromOthers(u)'
          BY <2>0, <3>2 DEF FromOthers
        <5>4. HandlerLast(u)'
          <6>1. \A d \in Clients : pc'[d] = "inline" => pc[d] = "inline"
            BY <3>5 DEF Served, Goto, TypeOK
          <6> QED
            BY <2>0, <5>1, <5>2, <6>1, HandlerQuiet
        <5>5. CASE UNCHANGED send[u]
          <6>1. OneWay' => ChannelOrder(u)'
            BY <2>0, <3>2, <3>3, <5>1, <5>2, <5>5, OrderQuiet
          <6> QED
            BY <5>3, <5>4, <6>1
        <5>6. CASE u = t /\ send'[t] = Append(send[t], m)
          <6>1. AllBefore({m}, WithWorkers(u)' \cup WithHandler(u)')
            <7>1. \A n \in WithWorkers(u)' : n.from # c
              BY <2>0, <3>2, <5>1 DEF HandlerLast
            <7>2. \A n \in WithHandler(u)' : n.from # c
              BY <3>2, <5>1, <5>6, OneMessage
            <7> QED
              BY <3>2, <7>1, <7>2 DEF AllBefore, Precedes
          <6>2. ASSUME OneWay PROVE AllBefore(Received(u), {m})
            BY <2>0, <3>2, <5>6, <6>2 DEF ChannelOrder, AllBefore
          <6>3. OneWay' => ChannelOrder(u)'
            BY <2>0, <3>2, <3>3, <5>1, <5>6, <6>1, <6>2, OrderSent
          <6> QED
            BY <5>3, <5>4, <6>3
        <5> QED
          BY <3>2, <3>5, <5>5, <5>6, SendRawPlaces
      <4> QED
        BY <3>3, <4>1, <4>2 DEF OrderInv
    <3> QED
      BY <2>7, <3>1, <3>4, <3>5 DEF InlineSend
  <2>8. ASSUME NEW c \in Clients, NEW T \in SUBSET Clients, SubmitShard(c, T) PROVE OrderInv'
    <3>1. PICK m : m = Current(c)
      OBVIOUS
    <3>2. PICK k : k = shard[c]
      OBVIOUS
    <3>3. PICK new : new = [msg |-> m, to |-> T]
      OBVIOUS
    <3>4. /\ pc[c] = "submit" /\ m \in Wire /\ m.from = c /\ new \in Job
          /\ UNCHANGED <<frames, send, written, cur, owed, pools>>
          /\ \A u \in T : m \in WithHandler(u)
      <4>1. pc[c] = "submit" /\ T \subseteq todo[c] /\ frames[c] \in 1..MaxFrames
        BY <2>8 DEF SubmitShard, HasFrame, Broadcasting
      <4>2. \A u \in T : m \in WithHandler(u)
        BY <3>1, <4>1 DEF WithHandler, Broadcasting
      <4> QED
        BY <2>8, <3>1, <3>3, <4>1, <4>2, CurrentType DEF SubmitShard, Current, Job
    <3>5. IdleBefore' /\ (OneWay' => OneWay)
      BY <2>0, <3>4 DEF IdleBefore, OneWay
    <3>6. \A d \in Clients : pc'[d] = "inline" => pc[d] = "inline" /\ d # c
      BY <2>8, <3>4 DEF SubmitShard, Panic, Served, Goto, TypeOK
    <3>7. CASE UNCHANGED jobs
      <4>1. \A u \in Clients : WithHandler(u)' \subseteq WithHandler(u)
        BY <2>8, <3>4, ServedPlaces, PanicPlaces DEF SubmitShard, Broadcasting
      <4>2. \A u \in Clients : WithWorkers(u)' = WithWorkers(u)
        BY <3>4, <3>7 DEF WithWorkers
      <4> QED
        BY <2>1, <3>4, <3>5, <3>6, <3>7, <4>1, <4>2, SlotsStay
    <3>8. CASE /\ Served(c, T) /\ k \in Workers
               /\ jobs' = [jobs EXCEPT ![k] = Append(@, new)]
      <4>1. JobsInOrder'
        <5>1. \A u \in new.to : AllBefore(WithWorkers(u), {new.msg})
          BY <2>0, <3>3, <3>4 DEF HandlerLast, AllBefore
        <5> QED
          BY <2>0, <3>4, <3>8, <5>1, JobsAdded
      <4>2. ASSUME NEW u \in Clients
            PROVE  FromOthers(u)' /\ HandlerLast(u)' /\ (OneWay' => ChannelOrder(u)')
        <5> DEFINE New == {}
        <5>1. /\ WithHandler(u)' \subseteq WithHandler(u)
              /\ u \in T => m \notin WithHandler(u)'
          BY <3>1, <3>4, <3>8, ServedPlaces DEF Broadcasting
        <5>2. WithWorkers(u)' = WithWorkers(u) \cup (IF u \in T THEN {m} ELSE {})
          BY <3>3, <3>4, <3>8, AcceptPlaces
        <5>3. FromOthers(u)'
          BY <2>0, <3>4 DEF FromOthers
        <5>4. HandlerLast(u)'
          <6>1. ASSUME u \in T PROVE AllBefore({m}, WithHandler(u)')
            <7>1. \A n \in WithHandler(u)' : n.from # c
              BY <3>4, <5>1, <6>1, OneMessage
            <7> QED
              BY <3>4, <7>1 DEF AllBefore, Precedes
          <6>2. AllBefore(WithWorkers(u)', WithHandler(u)')
            BY <2>0, <5>1, <5>2, <6>1 DEF HandlerLast, AllBefore
          <6>3. \A d \in Clients : pc'[d] = "inline" => \A n \in WithWorkers(u)' : n.from # d
            BY <2>0, <3>4, <3>6, <5>2 DEF HandlerLast
          <6> QED
            BY <6>2, <6>3 DEF HandlerLast
        <5>5. OneWay' => ChannelOrder(u)'
          <6>1. AllBefore(Received(u), New)
            BY DEF AllBefore
          <6>2. WithWorkers(u)' \cup WithHandler(u)' \subseteq WithWorkers(u) \cup WithHandler(u)
            BY <3>4, <5>1, <5>2
          <6> QED
            BY <2>0, <3>4, <3>5, <6>1, <6>2, OrderQuiet
        <5> QED
          BY <5>3, <5>4, <5>5
      <4> QED
        BY <3>5, <4>1, <4>2 DEF OrderInv
    <3> QED
      BY <2>8, <3>1, <3>2, <3>3, <3>7, <3>8 DEF SubmitShard
  <2>9. ASSUME NEW c \in Clients, PumpWrite(c) \/ PumpFail(c) PROVE OrderInv'
    <3>1. /\ send[c] # <<>> /\ send'[c] = Tail(send[c])
          /\ written'[c] = written[c] \/ written'[c] = Append(written[c], Head(send[c]))
          /\ UNCHANGED <<pc, frames, todo, jobs, cur, owed, pools>>
          /\ \A t \in Clients : t # c => send'[t] = send[t] /\ written'[t] = written[t]
      BY <2>9 DEF PumpWrite, PumpFail, TypeOK
    <3>2. IdleBefore' /\ (OneWay' => OneWay) /\ JobsInOrder'
      BY <2>0, <3>1, SlotsStay, JobsMoved DEF IdleBefore, OneWay
    <3>3. ASSUME NEW t \in Clients
          PROVE  FromOthers(t)' /\ HandlerLast(t)' /\ (OneWay' => ChannelOrder(t)')
      <4> DEFINE New == {}
      <4>1. WithHandler(t)' = WithHandler(t) /\ WithWorkers(t)' = WithWorkers(t)
        BY <3>1 DEF WithHandler, WithWorkers, Current
      <4>2. AllBefore(Received(t), New)
        BY DEF AllBefore
      <4>3. FromOthers(t)' /\ HandlerLast(t)'
        BY <2>0, <3>1, <4>1 DEF FromOthers, HandlerLast, AllBefore
      <4>4. CASE t = c
        <5>1. OneWay' => ChannelOrder(t)'
          BY <2>0, <3>1, <3>2, <4>1, <4>4, OrderPumped
        <5> QED
          BY <4>3, <5>1
      <4>5. CASE t # c
        <5>1. OneWay' => ChannelOrder(t)'
          BY <2>0, <3>1, <3>2, <4>1, <4>2, <4>5, OrderQuiet
        <5> QED
          BY <4>3, <5>1
      <4> QED
        BY <4>4, <4>5
    <3> QED
      BY <3>2, <3>3 DEF OrderInv
  <2>10. ASSUME NEW k \in Workers, WorkerTake(k) PROVE OrderInv'
    <3>1. /\ UNCHANGED <<pc, frames, todo, send, written, owed, pools>> /\ pools # 0
      BY <2>10 DEF WorkerTake, Idle
    <3>2. \A t \in Clients : WithHandler(t)' \subseteq WithHandler(t) /\ WithWorkers(t)' = WithWorkers(t)
      BY <2>10, <3>1, TakePlaces DEF WithHandler, Current
    <3>3. IdleBefore' /\ (OneWay' => OneWay)
      BY <3>1 DEF IdleBefore, OneWay
    <3> QED
      BY <2>1, <2>10, <3>1, <3>2, <3>3, TakenMoves
  <2>11. ASSUME NEW k \in Workers, NEW t \in Clients, WorkerSend(k, t) PROVE OrderInv'
    <3>1. PICK m : m = cur[k].msg
      OBVIOUS
    <3>2. /\ cur[k] \in Job /\ t \in cur[k].to /\ m \in Wire /\ m \in Msg /\ m \in WithWorkers(t)
          /\ UNCHANGED <<pc, frames, todo, written, jobs, owed, pools>>
      <4>1. cur[k] \in Job /\ t \in cur[k].to
        BY <2>11 DEF WorkerSend, TypeOK, NoJob
      <4> QED
        BY <2>11, <3>1, <4>1, WorkersHave DEF WorkerSend, Job, Wire
    <3>3. pools # 0 /\ IdleBefore' /\ (OneWay' => OneWay /\ WorkerCount = 1)
      BY <2>0, <3>2 DEF IdleBefore, OneWay
    <3>4. CASE UNCHANGED <<send, dropped, cur>>
      BY <2>2, <3>2, <3>4
    <3>5. CASE SendRaw(t, m) /\ cur' = [cur EXCEPT ![k] = Without(cur[k], t)]
      <4>1. JobsInOrder'
        BY <2>0, <3>2, <3>5, ServedMoves, JobsMoved
      <4>2. ASSUME NEW u \in Clients
            PROVE  FromOthers(u)' /\ HandlerLast(u)' /\ (OneWay' => ChannelOrder(u)')
        <5> DEFINE New == {}
        <5>1. WithHandler(u)' = WithHandler(u) /\ WithWorkers(u)' \subseteq WithWorkers(u)
          BY <3>2, <3>5, WorkerSendPlaces DEF WithHandler, Current
        <5>2. AllBefore(WithWorkers(u), New) /\ AllBefore(Received(u), New)
          BY DEF AllBefore
        <5>3. FromOthers(u)' /\ HandlerLast(u)'
          BY <2>0, <3>2, <5>1, <5>2, HandlerQuiet DEF FromOthers
        <5>4. CASE UNCHANGED send[u]
          <6>1. OneWay' => ChannelOrder(u)'
            BY <2>0, <3>2, <3>3, <5>1, <5>2, <5>4, OrderQuiet
          <6> QED
            BY <5>3, <6>1
        <5>5. CASE u = t /\ send'[t] = Append(send[t], m)
          <6>1. ASSUME OneWay, WorkerCount = 1 PROVE ChannelOrder(u)'
            <7>1. AllBefore({m}, WithWorkers(u)')
              BY <2>0, <3>1, <3>2, <3>5, <5>5, <6>1, OldestNext
            <7>2. AllBefore({m}, WithHandler(u)')
              BY <2>0, <3>2, <5>1, <5>5 DEF HandlerLast, AllBefore
            <7>3. AllBefore({m}, WithWorkers(u)' \cup WithHandler(u)')
              BY <7>1, <7>2 DEF AllBefore
            <7>4. AllBefore(Received(u), {m})
              BY <2>0, <3>2, <5>5, <6>1 DEF ChannelOrder, AllBefore
            <7> QED
              BY <2>0, <3>2, <5>1, <5>5, <6>1, <7>3, <7>4, OrderSent
          <6> QED
            BY <3>3, <5>3, <6>1
        <5> QED
          BY <3>2, <3>5, <5>4, <5>5, SendRawPlaces
      <4> QED
        BY <3>3, <4>1, <4>2 DEF OrderInv
    <3> QED
      BY <2>11, <3>1, <3>4, <3>5 DEF WorkerSend
  <2>12. ASSUME NEW c \in Clients, PumpStop(c) PROVE OrderInv'
    BY <2>2, <2>12 DEF PumpStop
  <2>13. ASSUME NEW k \in Workers, WorkerExit(k) PROVE OrderInv'
    BY <2>2, <2>13 DEF WorkerExit
  <2>14. ASSUME Stop PROVE OrderInv'
    BY <2>2, <2>14 DEF Stop, Closing, ShutdownStart, CloseWorker, ShutdownWait
  <2>15. ASSUME UNCHANGED vars PROVE OrderInv'
    BY <2>2, <2>15 DEF vars
  <2>16. ASSUME NEW c \in Clients, NEW m \in Old, Replay(c, m) PROVE OrderInv'
    <3>1. /\ UNCHANGED <<pc, frames, todo, written, jobs, cur, owed, pools>> /\ m \in Msg
          /\ send'[c] = send[c] \/ send'[c] = Append(send[c], m)
          /\ \A t \in Clients : t # c => send'[t] = send[t]
      BY <2>16, ReplayFrame
    <3>2. IdleBefore' /\ (OneWay' => OneWay) /\ JobsInOrder'
      BY <2>0, <3>1, SlotsStay, JobsMoved DEF IdleBefore, OneWay
    <3>3. ASSUME NEW t \in Clients
          PROVE  FromOthers(t)' /\ HandlerLast(t)' /\ (OneWay' => ChannelOrder(t)')
      <4> DEFINE New == {}
      <4>1. WithHandler(t)' = WithHandler(t) /\ WithWorkers(t)' = WithWorkers(t)
        BY <3>1 DEF WithHandler, WithWorkers, Current
      <4>2. FromOthers(t)' /\ HandlerLast(t)'
        BY <2>0, <3>1, <4>1 DEF FromOthers, HandlerLast, AllBefore
      <4>3. CASE UNCHANGED send[t]
        <5>1. AllBefore(Received(t), New)
          BY DEF AllBefore
        <5>2. OneWay' => ChannelOrder(t)'
          BY <2>0, <3>1, <3>2, <4>1, <4>3, <5>1, OrderQuiet
        <5> QED
          BY <4>2, <5>2
      <4>4. CASE t = c /\ send'[c] = Append(send[c], m)
        <5>1. /\ AllBefore(Received(t), {m})
              /\ AllBefore({m}, WithWorkers(t)' \cup WithHandler(t)')
          BY DEF AllBefore, Precedes
        <5>2. OneWay' => ChannelOrder(t)'
          BY <2>0, <3>1, <3>2, <4>1, <4>4, <5>1, OrderSent
        <5> QED
          BY <4>2, <5>2
      <4> QED
        BY <3>1, <4>3, <4>4
    <3> QED
      BY <3>2, <3>3 DEF OrderInv
  <2> QED
    BY <2>3, <2>4, <2>5, <2>6, <2>7, <2>8, <2>9, <2>10, <2>11, <2>12, <2>13, <2>14, <2>15,
       <2>16
    DEF Next, Handler, Peer, Pump, Worker, Terminated
<1> QED
  BY <1>1, <1>2, TypeCorrect, EntryHolds, DeliveryHolds, PTL DEF Spec

\* Broadcasts of one sender reach a client in the order they were sent, as long as
\* there is one way for them into its channel (room.go:59-91, broadcast_pool.go:40-68):
\* a handler that sends inline has nothing with the workers, one that submits adds
\* behind all it has there, and a worker takes the oldest first.  The history that
\* comes in between (ws_handler.go:104-117) does not change that.
THEOREM SendersInOrder == Spec => []SenderOrder
<1>1. TypeOK /\ OrderInv => SenderOrder
  <2> SUFFICES ASSUME TypeOK, OrderInv, OneWay, NEW t \in Clients
               PROVE  InOrder(written[t] \o send[t])
    BY DEF SenderOrder, OneWay, InOrder, Precedes
  <2>1. ChannelOrder(t)
    BY DEF OrderInv
  <2>2. send[t] \in Seq(Msg) /\ written[t] \in Seq(Msg)
    BY DEF TypeOK
  <2> QED
    BY <2>1, <2>2, ConcatInOrder DEF ChannelOrder
<1> QED
  BY <1>1, TypeCorrect, OrderHolds, PTL

\* With several workers this much of the order remains (broadcast_pool.go:40-68): what
\* one worker has of a sender for a client, in its hands or in its channel, is oldest
\* first, and what the sender's handler still has is newer than all of it.
THEOREM WorkersInOrder ==
  Spec => [](JobsInOrder /\ \A t \in Clients : AllBefore(WithWorkers(t), WithHandler(t)))
<1>1. OrderInv => JobsInOrder /\ \A t \in Clients : AllBefore(WithWorkers(t), WithHandler(t))
  BY DEF OrderInv, HandlerLast
<1> QED
  BY <1>1, OrderHolds, PTL

-------------------------------------------------------------------------------
(* Nobody gets stuck: the part of BroadcastEnds, JobsServed and             *)
(* ShutdownReturns that is not about time.  While the process is up, what   *)
(* has to be done can be done, and it becomes less.                         *)

HasTargets == \A c \in Clients : pc[c] \in Broadcasting => todo[c] # {}

LEMMA TargetsHold == Spec => []HasTargets
<1>1. Init => HasTargets
  BY DEF Init, HasTargets, Broadcasting
<1>2. TypeOK /\ HasTargets /\ [Next]_vars => HasTargets'
  <2> SUFFICES ASSUME TypeOK, HasTargets, [Next]_vars PROVE HasTargets'
    OBVIOUS
  <2> USE DEF roomVars, localVars, handlerVars, clientVars, workerVars, stopVars,
             historyVars
  <2>1. ASSUME \A d \in Clients : pc'[d] \in Broadcasting => pc'[d] = pc[d] /\ todo'[d] = todo[d]
        PROVE  HasTargets'
    BY <2>1 DEF HasTargets
  <2>2. ASSUME NEW c \in Clients,
               \/ Add(c) \/ CheckPool(c) \/ ActivatePool(c) \/ Query(c) \/ Run(c)
               \/ Remove(c) \/ \E m \in Old : Replay(c, m)
        PROVE  HasTargets'
    BY <2>1, <2>2 DEF Add, CheckPool, ActivatePool, Query, Run, Remove, Replay, Goto, TypeOK,
                     Broadcasting
  <2>3. ASSUME NEW c \in Clients, ReadTooLong(c) \/ ReadError(c) \/ Pump(c)
        PROVE  HasTargets'
    BY <2>1, <2>3 DEF ReadTooLong, ReadError, Pump, PumpWrite, PumpFail, PumpStop, Goto,
                     TypeOK, Broadcasting
  <2>4. ASSUME NEW c \in Clients, ReadFrame(c) PROVE HasTargets'
    <3>1. /\ todo'[c] = Snapshot(c)
          /\ Snapshot(c) = {} => pc'[c] = "reading"
          /\ \A d \in Clients : d # c => pc'[d] = pc[d] /\ todo'[d] = todo[d]
      BY <2>4 DEF ReadFrame, Goto, TypeOK
    <3> QED
      BY <3>1 DEF HasTargets, Broadcasting
  <2>5. ASSUME NEW c \in Clients, NEW T, pc[c] \in Broadcasting, Served(c, T) \/ Panic(c)
        PROVE  HasTargets'
    <3>1. /\ pc'[c] \in Broadcasting => todo'[c] # {}
          /\ \A d \in Clients : d # c => pc'[d] = pc[d] /\ todo'[d] = todo[d]
      BY <2>5 DEF Served, Panic, Goto, TypeOK, Broadcasting
    <3> QED
      BY <3>1 DEF HasTargets
  <2>6. ASSUME NEW c \in Clients, NEW t \in Clients, InlineSend(c, t) PROVE HasTargets'
    BY <2>5, <2>6 DEF InlineSend, Broadcasting
  <2>7. ASSUME NEW c \in Clients, NEW T \in SUBSET Clients, SubmitShard(c, T)
        PROVE  HasTargets'
    BY <2>5, <2>7 DEF SubmitShard, Broadcasting
  <2>8. ASSUME NEW k \in Workers, Worker(k) PROVE HasTargets'
    BY <2>1, <2>8 DEF Worker, WorkerTake, WorkerSend, WorkerExit
  <2>9. ASSUME Stop PROVE HasTargets'
    BY <2>1, <2>9 DEF Stop, Closing, ShutdownStart, CloseWorker, ShutdownWait
  <2>10. ASSUME UNCHANGED vars PROVE HasTargets'
    BY <2>1, <2>10 DEF vars
  <2> QED
    BY <2>2, <2>3, <2>4, <2>6, <2>7, <2>8, <2>9, <2>10
    DEF Next, Handler, Peer, Terminated
<1> QED
  BY <1>1, <1>2, TypeCorrect, PTL DEF Spec


\* A finite set has subsets of every smaller size.
LEMMA SubsetOfSize ==
  ASSUME NEW S, IsFiniteSet(S), NEW n \in Nat, n <= Cardinality(S)
  PROVE  \E T \in SUBSET S : Cardinality(T) = n
<1> DEFINE m == Cardinality(S)
<1>1. m \in Nat /\ ExistsBijection(1..m, S)
  BY FS_CardinalityType
<1>2. PICK f : f \in Bijection(1..m, S)
  BY <1>1 DEF ExistsBijection
<1> DEFINE T == {f[i] : i \in 1..n}
           g == [i \in 1..n |-> f[i]]
<1>3. 1..n \subseteq 1..m
  BY <1>1
<1>4. f \in [1..m -> S] /\ \A i, j \in 1..m : f[i] = f[j] => i = j
  BY <1>2 DEF Bijection, Injection, IsInjective
<1>5. T \in SUBSET S
  BY <1>3, <1>4
<1>6. g \in Bijection(1..n, T)
  BY <1>3, <1>4 DEF Bijection, Injection, Surjection, IsInjective
<1>7. Cardinality(T) = n
  BY <1>6, FS_CountingElements DEF ExistsBijection
<1> QED
  BY <1>5, <1>7

\* The clients that c's broadcast may serve next: one, or one shard of them.
NextTargets(c) ==
  {T \in SUBSET todo[c] :
     /\ T # {}
     /\ pc[c] = "inline" => \E t \in Clients : T = {t}
     /\ pc[c] = "submit" => \/ Cardinality(T) = chunk[c]
                            \/ T = todo[c] /\ Cardinality(T) < chunk[c]}

\* A handler in the middle of a broadcast is never stuck (room.go:86-90,
\* broadcast_pool.go:53-67): there is somebody, or a shard, to serve next, and the
\* state of no receiver, worker or other handler can hold it up.
THEOREM BroadcastGoesOn ==
  Spec => [](\A c \in Clients : pc[c] \in Broadcasting => NextTargets(c) # {})
<1>1. TypeOK /\ HasTargets
        => \A c \in Clients : pc[c] \in Broadcasting => NextTargets(c) # {}
  <2> SUFFICES ASSUME TypeOK, HasTargets, NEW c \in Clients, pc[c] \in Broadcasting
               PROVE  NextTargets(c) # {}
    OBVIOUS
  <2>1. todo[c] \subseteq Clients /\ todo[c] # {} /\ chunk[c] \in Nat \ {0}
    BY DEF TypeOK, HasTargets
  <2>2. IsFiniteSet(todo[c]) /\ Cardinality(todo[c]) \in Nat
    BY <2>1, SizeType
  <2>3. CASE pc[c] = "inline"
    <3>1. PICK t \in todo[c] : TRUE
      BY <2>1
    <3>2. {t} \in NextTargets(c)
      BY <2>1, <2>3, <3>1 DEF NextTargets
    <3> QED
      BY <3>2
  <2>4. CASE pc[c] = "submit" /\ Cardinality(todo[c]) < chunk[c]
    <3>1. todo[c] \in NextTargets(c)
      BY <2>1, <2>4 DEF NextTargets
    <3> QED
      BY <3>1
  <2>5. CASE pc[c] = "submit" /\ chunk[c] <= Cardinality(todo[c])
    <3>1. PICK T \in SUBSET todo[c] : Cardinality(T) = chunk[c]
      BY <2>1, <2>2, <2>5, SubsetOfSize
    <3>2. T # {}
      BY <2>1, <3>1, FS_EmptySet
    <3>3. T \in NextTargets(c)
      BY <2>5, <3>1, <3>2 DEF NextTargets
    <3> QED
      BY <3>3
  <2> QED
    BY <2>1, <2>2, <2>3, <2>4, <2>5 DEF Broadcasting
<1> QED
  BY <1>1, TypeCorrect, TargetsHold, PTL

\* c's broadcast went on: it is over, or fewer clients are left to be served.
Shrinks(c) ==
  \/ pc'[c] \notin Broadcasting
  \/ (pc'[c] = pc[c] /\ todo'[c] \subseteq todo[c] /\ todo'[c] # todo[c])

\* One turn of a broadcast loop serves somebody or ends the loop.
LEMMA ServedShrinks ==
  ASSUME TypeOK, NEW c \in Clients, NEW T, T \subseteq todo[c], T # {},
         Served(c, T) \/ Panic(c)
  PROVE  Shrinks(c) /\ \A d \in Clients : d # c => pc'[d] = pc[d] /\ todo'[d] = todo[d]
<1>1. \A d \in Clients : d # c => pc'[d] = pc[d] /\ todo'[d] = todo[d]
  BY DEF Served, Panic, Goto, TypeOK
<1>2. CASE Panic(c)
  BY <1>1, <1>2 DEF Panic, Goto, TypeOK, Shrinks, Broadcasting
<1>3. CASE Served(c, T)
  <2>1. todo'[c] = todo[c] \ T /\ pc'[c] \in {"reading", pc[c]}
    BY <1>3 DEF Served, Goto, TypeOK
  <2> QED
    BY <1>1, <2>1 DEF Shrinks, Broadcasting
<1> QED
  BY <1>2, <1>3

\* Nobody adds to a broadcast that is under way, and every turn of its own loop brings
\* it nearer to its end (room.go:86-90, broadcast_pool.go:53-67).
THEOREM BroadcastShrinks ==
  Spec => [][\A c \in Clients : pc[c] \in Broadcasting =>
               /\ Shrinks(c) \/ UNCHANGED <<pc[c], todo[c]>>
               /\ Handler(c) => Shrinks(c)]_vars
<1> DEFINE Goal(c) == pc[c] \in Broadcasting =>
                        /\ Shrinks(c) \/ UNCHANGED <<pc[c], todo[c]>>
                        /\ Handler(c) => Shrinks(c)
<1>1. TypeOK /\ HasTargets /\ [Next]_vars => [\A c \in Clients : Goal(c)]_vars
  <2> SUFFICES ASSUME TypeOK, HasTargets, Next, NEW c \in Clients, pc[c] \in Broadcasting
               PROVE  /\ Shrinks(c) \/ UNCHANGED <<pc[c], todo[c]>>
                      /\ Handler(c) => Shrinks(c)
    OBVIOUS
  <2> USE DEF roomVars, localVars, handlerVars, clientVars, workerVars, stopVars,
             historyVars
  <2>1. ASSUME NEW d \in Clients, NEW t \in Clients, InlineSend(d, t)
        PROVE  Shrinks(d) /\ \A e \in Clients : e # d => pc'[e] = pc[e] /\ todo'[e] = todo[e]
    <3>1. {t} \subseteq todo[d] /\ {t} # {} /\ (Served(d, {t}) \/ Panic(d))
      BY <2>1 DEF InlineSend
    <3> QED
      BY <3>1, ServedShrinks
  <2>2. ASSUME NEW d \in Clients, NEW T \in SUBSET Clients, SubmitShard(d, T)
        PROVE  Shrinks(d) /\ \A e \in Clients : e # d => pc'[e] = pc[e] /\ todo'[e] = todo[e]
    <3>1. /\ T \subseteq todo[d] /\ (Served(d, T) \/ Panic(d))
          /\ pc[d] = "submit" /\ (Cardinality(T) = chunk[d] \/ T = todo[d])
      BY <2>2 DEF SubmitShard
    <3>2. chunk[d] # 0 /\ todo[d] # {}
      BY <3>1 DEF TypeOK, HasTargets, Broadcasting
    <3>3. T # {}
      BY <3>1, <3>2, FS_EmptySet
    <3> QED
      BY <3>1, <3>3, ServedShrinks
  <2>3. Handler(c) => Shrinks(c)
    <3>1. /\ ~CheckPool(c) /\ ~ActivatePool(c) /\ ~Query(c) /\ ~Run(c) /\ ~Remove(c)
          /\ \A m \in Old : ~Replay(c, m)
      BY DEF CheckPool, ActivatePool, Query, Run, Remove, Replay, Broadcasting
    <3> QED
      BY <2>1, <2>2, <3>1 DEF Handler
  <2>4. ASSUME NEW d \in Clients, Handler(d) PROVE Shrinks(c) \/ UNCHANGED <<pc[c], todo[c]>>
    <3>1. CASE d = c
      BY <2>3, <2>4, <3>1
    <3>2. CASE d # c
      <4>1. CASE \/ CheckPool(d) \/ ActivatePool(d) \/ Query(d) \/ Run(d) \/ Remove(d)
                 \/ \E m \in Old : Replay(d, m)
        BY <3>2, <4>1 DEF CheckPool, ActivatePool, Query, Run, Remove, Replay, Goto, TypeOK
      <4> QED
        BY <2>1, <2>2, <2>4, <3>2, <4>1 DEF Handler
    <3> QED
      BY <3>1, <3>2
  <2>5. ASSUME NEW d \in Clients, Peer(d) PROVE UNCHANGED <<pc[c], todo[c]>>
    <3>1. d # c
      BY <2>5 DEF Peer, Add, ReadFrame, ReadTooLong, ReadError, Broadcasting
    <3> QED
      BY <2>5, <3>1 DEF Peer, Add, ReadFrame, ReadTooLong, ReadError, Goto, TypeOK
  <2>6. ASSUME NEW d \in Clients, Pump(d) PROVE UNCHANGED <<pc[c], todo[c]>>
    BY <2>6 DEF Pump, PumpWrite, PumpFail, PumpStop
  <2>7. ASSUME NEW k \in Workers, Worker(k) PROVE UNCHANGED <<pc[c], todo[c]>>
    BY <2>7 DEF Worker, WorkerTake, WorkerSend, WorkerExit
  <2>8. ASSUME Stop PROVE UNCHANGED <<pc[c], todo[c]>>
    BY <2>8 DEF Stop, Closing, ShutdownStart, CloseWorker, ShutdownWait
  <2>9. ASSUME Terminated PROVE UNCHANGED <<pc[c], todo[c]>>
    BY <2>9 DEF Terminated, vars
  <2> QED
    BY <2>3, <2>4, <2>5, <2>6, <2>7, <2>8, <2>9 DEF Next
<1> QED
  BY <1>1, TypeCorrect, TargetsHold, PTL DEF Spec

\* The worker has a job in its hands, or can take one, or can return.
CanWork(k) == cur[k].to # {} \/ (Idle(k) /\ (jobs[k] # <<>> \/ Drained(k)))

\* The channels of the pool are closed in order, each once (broadcast_pool.go:71-73).
ClosedInOrder == \E n \in 0..WorkerCount : jobsClosed = 1..n

LEMMA ClosedInOrderHolds == Spec => []ClosedInOrder
<1>1. Init => ClosedInOrder
  <2> SUFFICES ASSUME Init PROVE jobsClosed = 1..0 /\ 0 \in 0..WorkerCount
    BY DEF ClosedInOrder
  <2> QED
    BY WorkersAssumption DEF Init
<1>2. ClosedInOrder /\ [Next]_vars => ClosedInOrder'
  <2> SUFFICES ASSUME ClosedInOrder, [Next]_vars PROVE ClosedInOrder'
    OBVIOUS
  <2> USE DEF roomVars, localVars, handlerVars, clientVars, workerVars, stopVars,
             historyVars
  <2>1. CASE jobsClosed' = jobsClosed
    BY <2>1 DEF ClosedInOrder
  <2>2. ASSUME NEW c \in Clients, ActivatePool(c) PROVE ClosedInOrder'
    <3>1. CASE jobsClosed' = {}
      <4>1. jobsClosed' = 1..0 /\ 0 \in 0..WorkerCount
        BY <3>1, WorkersAssumption
      <4> QED
        BY <4>1 DEF ClosedInOrder
    <3> QED
      BY <2>1, <2>2, <3>1 DEF ActivatePool
  <2>3. ASSUME NEW k \in Workers, CloseWorker(k) PROVE ClosedInOrder'
    <3>1. k \in 1..WorkerCount /\ jobsClosed' = 1..(k - 1) \cup {k}
      BY <2>3 DEF CloseWorker, NextToClose, Workers
    <3>2. 1..(k - 1) \cup {k} = 1..k /\ k \in 0..WorkerCount
      BY <3>1, WorkersAssumption
    <3> QED
      BY <3>1, <3>2 DEF ClosedInOrder
  <2>4. ASSUME NEW c \in Clients, Handler(c) PROVE ClosedInOrder'
    BY <2>1, <2>2, <2>4 DEF Handler, CheckPool, Query, Replay, Run, InlineSend, SubmitShard,
                            Remove
  <2>5. ASSUME NEW c \in Clients, Peer(c) \/ Pump(c) PROVE ClosedInOrder'
    BY <2>1, <2>5 DEF Peer, Add, ReadFrame, ReadTooLong, ReadError,
                      Pump, PumpWrite, PumpFail, PumpStop
  <2>6. ASSUME NEW k \in Workers, Worker(k) PROVE ClosedInOrder'
    BY <2>1, <2>6 DEF Worker, WorkerTake, WorkerSend, WorkerExit
  <2>7. ASSUME Stop PROVE ClosedInOrder'
    BY <2>1, <2>3, <2>7 DEF Stop, Closing, ShutdownStart, ShutdownWait
  <2>8. ASSUME Terminated \/ UNCHANGED vars PROVE ClosedInOrder'
    BY <2>1, <2>8 DEF Terminated, vars
  <2> QED
    BY <2>4, <2>5, <2>6, <2>7, <2>8 DEF Next
<1> QED
  BY <1>1, <1>2, PTL DEF Spec

\* A worker that still has jobs can work (broadcast_pool.go:31-46): there is a pool,
\* it has not returned, and no send of it waits for a receiver.
THEOREM WorkersGoOn ==
  Spec => [](\A k \in Workers : jobs[k] # <<>> \/ cur[k].to # {} => CanWork(k))
<1>1. PoolFirst /\ NoStrandedJob
        => \A k \in Workers : jobs[k] # <<>> \/ cur[k].to # {} => CanWork(k)
  BY DEF PoolFirst, NoStrandedJob, CanWork, Idle
<1> QED
  BY <1>1, EntryHolds, NothingStranded, PTL

\* A shutdown that closes the pool never waits in vain (broadcast_pool.go:70-76): it can
\* close the next channel, or return, or a worker it waits for can work.
THEOREM ShutdownGoesOn ==
  Spec => [](shut = "closing" => \/ \E k \in Workers \ jobsClosed : NextToClose(k)
                                 \/ (jobsClosed = Workers /\ exited = Workers)
                                 \/ \E k \in Workers \ exited : CanWork(k))
<1>1. TypeOK /\ NoStrandedJob /\ NoPoolYet /\ ClosedInOrder
        => (shut = "closing" => \/ \E k \in Workers \ jobsClosed : NextToClose(k)
                                \/ (jobsClosed = Workers /\ exited = Workers)
                                \/ \E k \in Workers \ exited : CanWork(k))
  <2> SUFFICES ASSUME TypeOK, NoStrandedJob, NoPoolYet, ClosedInOrder, shut = "closing",
                      ~(jobsClosed = Workers /\ exited = Workers)
               PROVE  \/ \E k \in Workers \ jobsClosed : NextToClose(k)
                      \/ \E k \in Workers \ exited : CanWork(k)
    OBVIOUS
  <2>1. PICK n \in 0..WorkerCount : jobsClosed = 1..n
    BY DEF ClosedInOrder
  <2>2. CASE n # WorkerCount
    <3>1. n + 1 \in Workers \ jobsClosed /\ (n + 1) - 1 = n
      BY <2>1, <2>2, WorkersAssumption DEF Workers
    <3> QED
      BY <2>1, <3>1 DEF NextToClose
  <2>3. CASE n = WorkerCount
    <3>1. jobsClosed = Workers
      BY <2>1, <2>3 DEF Workers
    <3>2. PICK k \in Workers \ exited : TRUE
      BY <3>1 DEF TypeOK
    <3>3. pools # 0
      BY DEF NoPoolYet
    <3>4. CanWork(k)
      BY <3>1, <3>2, <3>3 DEF CanWork, Idle, Drained
    <3> QED
      BY <3>2, <3>4
  <2> QED
    BY <2>2, <2>3
<1> QED
  BY <1>1, TypeCorrect, PoolLater, ClosedInOrderHolds, PTL

\* Worker k took the oldest of its jobs and has nothing else.
Takes(k)  == cur[k].to = {} /\ jobs[k] # <<>> /\ jobs'[k] = Tail(jobs[k])
\* Worker k has fewer clients of its current job to serve.
Serves(k) == jobs'[k] = jobs[k] /\ cur'[k].to \subseteq cur[k].to /\ cur'[k].to # cur[k].to

\* A closed channel stays closed and only drains (broadcast_pool.go:40-46, 70-76): no
\* Submit adds to it, and every step of its worker takes a job, serves a client, or is
\* its last one (it returns, or a closed channel of a client ends the process).  So
\* what a shutdown waits for becomes less with every step that its workers take.
THEOREM ClosedDrains ==
  Spec => [][\A k \in jobsClosed :
               /\ k \in jobsClosed'
               /\ Takes(k) \/ Serves(k) \/ UNCHANGED <<jobs[k], cur[k]>>
               /\ Worker(k) => \/ Takes(k) \/ Serves(k)
                               \/ k \in exited' \ exited \/ proc' = "crashed"]_vars
<1> DEFINE Goal(k) == /\ k \in jobsClosed'
                      /\ Takes(k) \/ Serves(k) \/ UNCHANGED <<jobs[k], cur[k]>>
                      /\ Worker(k) => \/ Takes(k) \/ Serves(k)
                                      \/ k \in exited' \ exited \/ proc' = "crashed"
<1>1. TypeOK /\ NoStrandedJob /\ NoPoolYet /\ [Next]_vars => [\A k \in jobsClosed : Goal(k)]_vars
  <2> SUFFICES ASSUME TypeOK, NoStrandedJob, NoPoolYet, Next, NEW k \in jobsClosed
               PROVE  Goal(k)
    OBVIOUS
  <2> USE DEF roomVars, localVars, handlerVars, clientVars, workerVars, stopVars,
             historyVars
  <2>1. k \in Workers /\ pools # 0
    BY DEF TypeOK, NoPoolYet
  <2>2. ASSUME NEW j \in Workers, Worker(j)
        PROVE  /\ jobsClosed' = jobsClosed
               /\ \A i \in Workers : i # j => UNCHANGED <<jobs[i], cur[i]>>
               /\ \/ Takes(j) \/ Serves(j)
                  \/ /\ UNCHANGED <<jobs[j], cur[j]>>
                     /\ j \in exited' \ exited \/ proc' = "crashed"
    <3>1. CASE WorkerTake(j)
      BY <3>1 DEF WorkerTake, Idle, OldestFirst, Takes, TypeOK
    <3>2. ASSUME NEW t \in Clients, WorkerSend(j, t)
          PROVE  /\ jobsClosed' = jobsClosed
                 /\ \A i \in Workers : i # j => UNCHANGED <<jobs[i], cur[i]>>
                 /\ \/ Serves(j)
                    \/ UNCHANGED <<jobs[j], cur[j]>> /\ proc' = "crashed"
      <4>1. Without(cur[j], t).to = cur[j].to \ {t}
        BY <3>2 DEF WorkerSend, Without, NoJob
      <4>2. CASE t \in closed
        BY <3>2, <4>2 DEF WorkerSend
      <4>3. CASE t \notin closed
        <5>1. cur' = [cur EXCEPT ![j] = Without(cur[j], t)] /\ t \in cur[j].to
          BY <3>2, <4>3 DEF WorkerSend
        <5>2. cur'[j].to = cur[j].to \ {t} /\ \A i \in Workers : i # j => cur'[i] = cur[i]
          BY <4>1, <5>1 DEF TypeOK
        <5> QED
          BY <3>2, <5>1, <5>2 DEF WorkerSend, Serves
      <4> QED
        BY <4>2, <4>3
    <3>3. CASE WorkerExit(j)
      BY <3>3 DEF WorkerExit, Idle
    <3> QED
      BY <2>2, <3>1, <3>2, <3>3 DEF Worker
  <2>3. CASE Worker(k)
    BY <2>1, <2>2, <2>3
  <2>4. ASSUME ~Worker(k), k \in jobsClosed', UNCHANGED <<jobs[k], cur[k]>> PROVE Goal(k)
    BY <2>4
  <2>5. CASE ~Worker(k)
    <3>1. ASSUME NEW j \in Workers, Worker(j) PROVE Goal(k)
      BY <2>1, <2>2, <2>4, <2>5, <3>1
    <3>2. ASSUME NEW c \in Clients, NEW T \in SUBSET Clients, SubmitShard(c, T)
          PROVE  Goal(k)
      <4>1. jobsClosed' = jobsClosed /\ cur' = cur
        BY <3>2 DEF SubmitShard
      <4>2. jobs'[k] = jobs[k]
        <5>1. CASE shard[c] \in jobsClosed
          BY <3>2, <5>1 DEF SubmitShard
        <5>2. CASE shard[c] \notin jobsClosed
          <6>1. \/ jobs' = jobs
                \/ jobs' = [jobs EXCEPT ![shard[c]] =
                              Append(@, [msg |-> Current(c), to |-> T])]
            BY <3>2 DEF SubmitShard
          <6> QED
            BY <2>1, <5>2, <6>1 DEF TypeOK
        <5> QED
          BY <5>1, <5>2
      <4> QED
        BY <2>4, <2>5, <4>1, <4>2
    <3>3. ASSUME NEW c \in Clients, ActivatePool(c) PROVE Goal(k)
      BY <2>1, <2>4, <2>5, <3>3 DEF ActivatePool, Recheck
    <3>4. ASSUME NEW c \in Clients, Handler(c) PROVE Goal(k)
      <4>1. CASE \/ CheckPool(c) \/ Query(c) \/ Run(c) \/ Remove(c)
                 \/ \E t \in Clients : InlineSend(c, t)
                 \/ \E m \in Old : Replay(c, m)
        BY <2>4, <2>5, <4>1 DEF CheckPool, Query, Run, Remove, InlineSend, Replay
      <4> QED
        BY <3>2, <3>3, <3>4, <4>1 DEF Handler
    <3>5. ASSUME NEW c \in Clients, Peer(c) \/ Pump(c) PROVE Goal(k)
      BY <2>4, <2>5, <3>5 DEF Peer, Add, ReadFrame, ReadTooLong, ReadError,
                              Pump, PumpWrite, PumpFail, PumpStop
    <3>6. ASSUME Stop PROVE Goal(k)
      BY <2>4, <2>5, <3>6 DEF Stop, Closing, ShutdownStart, CloseWorker, ShutdownWait
    <3>7. ASSUME Terminated PROVE Goal(k)
      BY <2>4, <2>5, <3>7 DEF Terminated, vars
    <3> QED
      BY <3>1, <3>4, <3>5, <3>6, <3>7 DEF Next
  <2> QED
    BY <2>3, <2>5
<1> QED
  BY <1>1, TypeCorrect, PoolLater, PTL DEF Spec
===============================================================================
