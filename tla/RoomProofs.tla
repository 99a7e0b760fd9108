------------------------------ MODULE RoomProofs ------------------------------
(***************************************************************************)
(* Proofs about Room, for any set of connections and any capacities,       *)
(* thresholds and bounds.                                                  *)
(***************************************************************************)
EXTENDS Room, FiniteSetTheorems, TLAPS

-------------------------------------------------------------------------------
(* Lemmas about the operators of Room.                                     *)

\* chunkSize is a positive number (broadcast_pool.go:55).
LEMMA ChunkSizeType ==
  ASSUME NEW n \in Nat
  PROVE  ChunkSize(n) \in Nat \ {0}
<1> DEFINE q == (n + WorkerCount - 1) \div WorkerCount
<1>1. q \in Int
  BY WorkersAssumption
<1>2. q > 1 => q \in Nat \ {0}
  BY <1>1
<1>3. ChunkSize(n) = IF q > 1 THEN q ELSE 1
  BY DEF ChunkSize
<1> QED
  BY <1>1, <1>2, <1>3

\* A set of connections has a size.
LEMMA SizeType ==
  ASSUME NEW S, S \subseteq Clients
  PROVE  IsFiniteSet(S) /\ Cardinality(S) \in Nat
  BY ClientsAssumption, FS_Subset, FS_CardinalityType

\* The message of a handler that has read a frame is a broadcast message.
LEMMA CurrentType ==
  ASSUME TypeOK, NEW c \in Clients, frames[c] \in 1..MaxFrames
  PROVE  Current(c) \in Wire /\ Current(c) \in Msg
  BY DEF Current, Wire, Msg

\* A non-blocking send keeps the types of channels and of the record of drops.
LEMMA SendRawType ==
  ASSUME TypeOK, NEW c \in Clients, NEW m \in Wire, SendRaw(c, m)
  PROVE  /\ send' \in [Clients -> Seq(Msg)]
         /\ dropped' \in [Clients -> SUBSET Wire]
  BY DEF TypeOK, SendRaw, Wire

\* The replay touches the channel of its own client only, and no record of drops.
LEMMA ReplayFrame ==
  ASSUME TypeOK, NEW c \in Clients, NEW m \in Old, Replay(c, m)
  PROVE  /\ UNCHANGED <<clients, pools, stored, pc, frames, todo, chunk, shard, closed,
                        pump, written, jobs, cur, jobsClosed, exited, shut, proc, owed,
                        dropped>>
         /\ m \in history[c] /\ m \in Msg /\ pc[c] = "replay"
         /\ history' \in [Clients -> SUBSET Old] /\ history'[c] = history[c] \ {m}
         /\ send' \in [Clients -> Seq(Msg)]
         /\ send'[c] = send[c] \/ send'[c] = Append(send[c], m)
         /\ \A d \in Clients : d # c => history'[d] = history[d] /\ send'[d] = send[d]
<1>1. /\ UNCHANGED <<clients, pools, stored, pc, frames, todo, chunk, shard, closed,
                     pump, written, jobs, cur, jobsClosed, exited, shut, proc, owed,
                     dropped>>
      /\ m \in history[c] /\ pc[c] = "replay"
      /\ history' = [history EXCEPT ![c] = history[c] \ {m}]
      /\ send' = send \/ send' = [send EXCEPT ![c] = Append(send[c], m)]
  BY DEF Replay, roomVars, workerVars, stopVars, historyVars
<1>2. m \in Msg
  BY DEF Old
<1>3. Append(send[c], m) \in Seq(Msg)
  BY <1>2 DEF TypeOK
<1> QED
  BY <1>1, <1>2, <1>3 DEF TypeOK

\* A query changes the answer and the place of its own handler only.
LEMMA QueryFrame ==
  ASSUME TypeOK, NEW c \in Clients, Query(c)
  PROVE  /\ UNCHANGED <<clients, pools, stored, frames, todo, chunk, shard, send, closed,
                        pump, written, jobs, cur, jobsClosed, exited, shut, proc, owed,
                        dropped>>
         /\ pc[c] = "joined" /\ pc' = [pc EXCEPT ![c] = "replay"]
         /\ history' \in [Clients -> SUBSET Old] /\ history'[c] \subseteq stored
         /\ \A d \in Clients : d # c => history'[d] = history[d]
  BY DEF Query, Goto, TypeOK, roomVars, clientVars, workerVars, stopVars, historyVars

-------------------------------------------------------------------------------
\* One iteration of a broadcast loop keeps the types of the handler's locals.
LEMMA ServedType ==
  ASSUME TypeOK, NEW c \in Clients, NEW T, Served(c, T), pc[c] \in Broadcasting
  PROVE  /\ pc' \in [Clients -> Label]
         /\ \A d \in Clients : pc'[d] \in Broadcasting => pc[d] \in Broadcasting
         /\ todo' \in [Clients -> SUBSET Clients]
         /\ chunk' \in [Clients -> Nat \ {0}]
         /\ shard' \in [Clients -> Nat \ {0}]
<1>1. /\ pc' \in [Clients -> Label]
      /\ \A d \in Clients : pc'[d] \in Broadcasting => pc[d] \in Broadcasting
  BY DEF Served, Goto, TypeOK, Label, Broadcasting
<1>2. todo' \in [Clients -> SUBSET Clients]
  BY DEF Served, TypeOK
<1>3. chunk' \in [Clients -> Nat \ {0}]
  BY DEF Served, TypeOK
<1>4. shard' \in [Clients -> Nat \ {0}]
  <2>1. shard[c] + 1 \in Nat \ {0}
    BY DEF TypeOK
  <2>2. \/ shard' = [shard EXCEPT ![c] = 1]
        \/ shard' = [shard EXCEPT ![c] = shard[c] + 1]
    <3>1. CASE todo[c] \subseteq T \/ pc[c] = "inline"
      BY <3>1 DEF Served
    <3>2. CASE ~(todo[c] \subseteq T \/ pc[c] = "inline")
      BY <3>2 DEF Served
    <3> QED
      BY <3>1, <3>2
  <2>3. shard \in [Clients -> Nat \ {0}]
    BY DEF TypeOK
  <2> QED
    BY <2>1, <2>2, <2>3
<1> QED
  BY <1>1, <1>2, <1>3, <1>4

-------------------------------------------------------------------------------
\* A handler in the middle of a broadcast has read a frame: it has a message.
HasFrame == \A c \in Clients : pc[c] \in Broadcasting => frames[c] \in 1..MaxFrames

\* Type correctness of Room (room.go, broadcast_pool.go, client.go): no step of
\* any goroutine leaves the shapes TypeOK describes.
THEOREM TypeCorrect == Spec => [](TypeOK /\ HasFrame)
<1>1. Init => TypeOK /\ HasFrame
  BY BoundsAssumption DEF Init, TypeOK, Label, HasFrame, Broadcasting
<1>2. TypeOK /\ HasFrame /\ [Next]_vars => TypeOK' /\ HasFrame'
  <2> SUFFICES ASSUME TypeOK, HasFrame, [Next]_vars
               PROVE  TypeOK' /\ HasFrame'
    OBVIOUS
  <2> USE DEF Broadcasting, roomVars, localVars, handlerVars, clientVars, workerVars,
             stopVars, historyVars
  <2>1. ASSUME NEW c \in Clients, Add(c) PROVE TypeOK' /\ HasFrame'
    BY <2>1 DEF Add, Goto, TypeOK, Label, HasFrame
  <2>2. ASSUME NEW c \in Clients, CheckPool(c) PROVE TypeOK' /\ HasFrame'
    BY <2>2 DEF CheckPool, Goto, TypeOK, Label, HasFrame
  <2>3. ASSUME NEW c \in Clients, ActivatePool(c) PROVE TypeOK' /\ HasFrame'
    <3>1. pools' \in Nat /\ jobs' \in [Workers -> Seq(Job)] /\ jobsClosed' \subseteq Workers
      <4>1. CASE pools = 0
        <5>1. [k \in Workers |-> <<>>] \in [Workers -> Seq(Job)]
          OBVIOUS
        <5>2. /\ pools' = pools + 1
              /\ jobs' = [k \in Workers |-> <<>>]
              /\ jobsClosed' = {}
          BY <2>3, <4>1 DEF ActivatePool, Recheck, FreshChannels
        <5> QED
          BY <5>1, <5>2 DEF TypeOK
      <4>2. CASE pools # 0
        BY <2>3, <4>2 DEF ActivatePool, Recheck, FreshChannels, TypeOK
      <4> QED
        BY <4>1, <4>2
    <3>2. UNCHANGED <<cur, exited>>
      BY <2>3 DEF ActivatePool, Recheck, FreshChannels
    <3> QED
      BY <2>3, <3>1, <3>2 DEF ActivatePool, Recheck, FreshChannels, Goto, TypeOK, Label, HasFrame
  <2>4. ASSUME NEW c \in Clients, Run(c) PROVE TypeOK' /\ HasFrame'
    BY <2>4 DEF Run, Goto, TypeOK, Label, HasFrame
  <2>5. ASSUME NEW c \in Clients, ReadFrame(c) PROVE TypeOK' /\ HasFrame'
    <3> DEFINE snapshot == Snapshot(c)
    <3>1. frames[c] + 1 \in 1..MaxFrames /\ frames' \in [Clients -> 0..MaxFrames]
      BY <2>5, BoundsAssumption DEF ReadFrame, Snapshot, MoreFrames, TypeOK
    <3>2. frames'[c] = frames[c] + 1
      BY <2>5 DEF ReadFrame, Snapshot, TypeOK
    <3>3. [from |-> c, seq |-> frames'[c], kind |-> "wire"] \in Wire
      BY <3>1, <3>2 DEF Wire, Msg
    <3>4. owed' \in [Clients -> SUBSET Wire]
      BY <2>5, <3>3 DEF ReadFrame, Snapshot, TypeOK, Current
    <3>5. snapshot \subseteq Clients
      BY DEF Snapshot, TypeOK
    <3>6. ChunkSize(Cardinality(snapshot)) \in Nat \ {0}
      BY <3>5, SizeType, ChunkSizeType
    <3>7. chunk' \in [Clients -> Nat \ {0}]
      BY <2>5, <3>6 DEF ReadFrame, Snapshot, TypeOK
    <3>8. todo' \in [Clients -> SUBSET Clients] /\ pc' \in [Clients -> Label]
      BY <2>5, <3>5 DEF ReadFrame, Snapshot, TypeOK, Goto, Label
    <3>9. HasFrame'
      <4>1. \A d \in Clients \ {c} : pc'[d] = pc[d] /\ frames'[d] = frames[d]
        BY <2>5 DEF ReadFrame, Snapshot, Goto, TypeOK
      <4>2. frames'[c] \in 1..MaxFrames
        BY <3>1, <3>2
      <4> QED
        BY <4>1, <4>2 DEF HasFrame
    <3>10. stored' \subseteq Old
      <4>1. Record(c)' = [from |-> c, seq |-> frames'[c], kind |-> "stored"]
        BY DEF Record
      <4>2. Record(c)' \in Old
        BY <3>1, <3>2, <4>1 DEF Old, Msg
      <4> QED
        BY <2>5, <4>2 DEF ReadFrame, TypeOK
    <3> QED
      BY <2>5, <3>1, <3>4, <3>7, <3>8, <3>9, <3>10 DEF ReadFrame, Snapshot, TypeOK
  <2>6. ASSUME NEW c \in Clients, ReadTooLong(c) PROVE TypeOK' /\ HasFrame'
    <3> DEFINE e == [from |-> c, seq |-> frames[c] + 1, kind |-> "error"]
    <3>1. frames[c] + 1 \in 1..MaxFrames /\ frames' \in [Clients -> 0..MaxFrames]
      BY <2>6, BoundsAssumption DEF ReadTooLong, MoreFrames, TypeOK
    <3>2. e \in Msg
      BY <3>1 DEF Msg
    <3>3. pc' \in [Clients -> Label] /\ pc'[c] \notin Broadcasting
      BY <2>6 DEF ReadTooLong, Goto, TypeOK, Label
    <3>4. HasFrame'
      BY <2>6, <3>3 DEF ReadTooLong, Goto, TypeOK, Label, HasFrame
    <3>5. Append(send[c], e) \in Seq(Msg)
      BY <3>2 DEF TypeOK
    <3>6. send' \in [Clients -> Seq(Msg)]
      BY <2>6, <3>5 DEF ReadTooLong, TypeOK
    <3> QED
      BY <2>6, <3>1, <3>3, <3>4, <3>6 DEF ReadTooLong, TypeOK
  <2>7. ASSUME NEW c \in Clients, ReadError(c) PROVE TypeOK' /\ HasFrame'
    BY <2>7 DEF ReadError, Goto, TypeOK, Label, HasFrame
  <2>8. ASSUME NEW c \in Clients, NEW t \in Clients, InlineSend(c, t)
        PROVE  TypeOK' /\ HasFrame'
    <3>1. Current(c) \in Wire
      BY <2>8, CurrentType DEF InlineSend, HasFrame
    <3>2. /\ send' \in [Clients -> Seq(Msg)]
          /\ dropped' \in [Clients -> SUBSET Wire]
      BY <2>8, <3>1, SendRawType DEF InlineSend, TypeOK
    <3>3. CASE t \in closed
      BY <2>8, <3>2, <3>3 DEF InlineSend, Panic, Goto, TypeOK, Label, HasFrame
    <3>4. CASE t \notin closed
      <4>1. Served(c, {t}) /\ pc[c] \in Broadcasting
        BY <2>8, <3>4 DEF InlineSend
      <4> QED
        BY <2>8, <3>2, <4>1, ServedType DEF InlineSend, TypeOK, HasFrame
    <3> QED
      BY <3>3, <3>4
  <2>9. ASSUME NEW c \in Clients, NEW T \in SUBSET Clients, SubmitShard(c, T)
        PROVE  TypeOK' /\ HasFrame'
    <3>1. Current(c) \in Wire
      BY <2>9, CurrentType DEF SubmitShard, HasFrame
    <3>2. [msg |-> Current(c), to |-> T] \in Job
      BY <3>1 DEF Job
    <3>3. /\ jobs' \in [Workers -> Seq(Job)]
          /\ dropped' \in [Clients -> SUBSET Wire]
      <4>1. \/ UNCHANGED <<jobs, dropped>>
            \/ /\ jobs' = [jobs EXCEPT ![shard[c]] =
                             Append(@, [msg |-> Current(c), to |-> T])]
               /\ UNCHANGED dropped
            \/ /\ dropped' = [t \in Clients |->
                                IF t \in T THEN dropped[t] \cup {Current(c)}
                                ELSE dropped[t]]
               /\ UNCHANGED jobs
        BY <2>9 DEF SubmitShard
      <4>2. \A t \in Clients : dropped[t] \cup {Current(c)} \in SUBSET Wire
        BY <3>1 DEF TypeOK
      <4>3. ASSUME shard[c] \in Workers
            PROVE  Append(jobs[shard[c]], [msg |-> Current(c), to |-> T]) \in Seq(Job)
        BY <3>2, <4>3 DEF TypeOK
      <4>4. jobs' \in [Workers -> Seq(Job)]
        BY <4>1, <4>3 DEF TypeOK
      <4>5. dropped' \in [Clients -> SUBSET Wire]
        BY <4>1, <4>2 DEF TypeOK
      <4> QED
        BY <4>4, <4>5
    <3>4. CASE Panic(c)
      BY <2>9, <3>3, <3>4 DEF SubmitShard, Panic, Goto, TypeOK, Label, HasFrame
    <3>5. CASE Served(c, T)
      BY <2>9, <3>3, <3>5, ServedType DEF SubmitShard, TypeOK, HasFrame
    <3> QED
      BY <2>9, <3>4, <3>5 DEF SubmitShard
  <2>10. ASSUME NEW c \in Clients, Remove(c) PROVE TypeOK' /\ HasFrame'
    BY <2>10 DEF Remove, Goto, TypeOK, Label, HasFrame
  <2>11. ASSUME NEW c \in Clients, Pump(c) PROVE TypeOK' /\ HasFrame'
    <3>1. CASE PumpWrite(c)
      <4>1. Head(send[c]) \in Msg /\ Tail(send[c]) \in Seq(Msg)
        BY <3>1 DEF PumpWrite, TypeOK
      <4> QED
        BY <3>1, <4>1 DEF PumpWrite, TypeOK, HasFrame
    <3>2. CASE PumpFail(c)
      <4>1. Tail(send[c]) \in Seq(Msg)
        BY <3>2 DEF PumpFail, TypeOK
      <4> QED
        BY <3>2, <4>1 DEF PumpFail, TypeOK, HasFrame
    <3>3. CASE PumpStop(c)
      BY <3>3 DEF PumpStop, TypeOK, HasFrame
    <3> QED
      BY <2>11, <3>1, <3>2, <3>3 DEF Pump
  <2>12. ASSUME NEW k \in Workers, WorkerTake(k) PROVE TypeOK' /\ HasFrame'
    <3>1. Head(jobs[k]) \in Job /\ Tail(jobs[k]) \in Seq(Job)
      BY <2>12 DEF WorkerTake, TypeOK
    <3> QED
      BY <2>12, <3>1 DEF WorkerTake, OldestFirst, TypeOK, HasFrame
  <2>13. ASSUME NEW k \in Workers, NEW t \in Clients, WorkerSend(k, t)
         PROVE  TypeOK' /\ HasFrame'
    <3>1. cur[k] \in Job
      BY <2>13 DEF WorkerSend, TypeOK, NoJob
    <3>2. cur[k].msg \in Wire /\ cur[k].to \subseteq Clients
      BY <3>1 DEF Job
    <3>3. /\ send' \in [Clients -> Seq(Msg)]
          /\ dropped' \in [Clients -> SUBSET Wire]
      BY <2>13, <3>2, SendRawType DEF WorkerSend, TypeOK
    <3>4. Without(cur[k], t) \in Job \cup {NoJob}
      BY <3>2 DEF Job, Without
    <3>5. cur' \in [Workers -> Job \cup {NoJob}]
      BY <2>13, <3>4 DEF WorkerSend, TypeOK
    <3> QED
      BY <2>13, <3>3, <3>5 DEF WorkerSend, TypeOK, HasFrame
  <2>14. ASSUME NEW k \in Workers, WorkerExit(k) PROVE TypeOK' /\ HasFrame'
    BY <2>14 DEF WorkerExit, TypeOK, HasFrame
  <2>15. ASSUME Stop PROVE TypeOK' /\ HasFrame'
    BY <2>15 DEF Stop, Closing, ShutdownStart, CloseWorker, ShutdownWait, TypeOK, HasFrame
  <2>16. CASE UNCHANGED vars
    BY <2>16 DEF vars, TypeOK, HasFrame
  <2>17. ASSUME NEW c \in Clients, Query(c) PROVE TypeOK' /\ HasFrame'
    BY <2>17, QueryFrame DEF TypeOK, Label, HasFrame
  <2>18. ASSUME NEW c \in Clients, NEW m \in Old, Replay(c, m) PROVE TypeOK' /\ HasFrame'
    BY <2>18, ReplayFrame DEF TypeOK, HasFrame
  <2> QED
    BY <2>1, <2>2, <2>3, <2>4, <2>5, <2>6, <2>7, <2>8, <2>9, <2>10, <2>11, <2>12,
       <2>13, <2>14, <2>15, <2>16, <2>17, <2>18
    DEF Next, Handler, Peer, Worker, Terminated
<1> QED
  BY <1>1, <1>2, PTL DEF Spec

-------------------------------------------------------------------------------
\* Membership and channels agree at every moment (room.go:28-57): a member's
\* channel is open, and a channel is closed only by its own handler, as it ends.
\* No broadcast that takes its snapshot now meets a closed channel, and no channel
\* is closed twice.
THEOREM ChannelsOpen == Spec => []ChannelsOpenWhileMember
<1> DEFINE TInv == TypeOK /\ HasFrame
<1>1. Init => ChannelsOpenWhileMember
  BY DEF Init, ChannelsOpenWhileMember
<1>2. TInv /\ ChannelsOpenWhileMember /\ [Next]_vars => ChannelsOpenWhileMember'
  <2> SUFFICES ASSUME TypeOK, ChannelsOpenWhileMember, [Next]_vars
               PROVE  ChannelsOpenWhileMember'
    OBVIOUS
  <2> USE DEF roomVars, localVars, handlerVars, clientVars, workerVars, stopVars,
             historyVars
  <2> DEFINE Moved(c, label) == pc' = [pc EXCEPT ![c] = label]
  <2>1. ASSUME UNCHANGED <<clients, closed, pc>> PROVE ChannelsOpenWhileMember'
    BY <2>1 DEF ChannelsOpenWhileMember
  <2>2. ASSUME NEW c \in Clients, NEW label, Moved(c, label),
               UNCHANGED <<clients, closed>>,
               pc[c] \notin {"out", "gone"}, label \notin {"out", "gone"}
        PROVE  ChannelsOpenWhileMember'
    BY <2>2 DEF ChannelsOpenWhileMember, TypeOK
  <2>3. ASSUME NEW c \in Clients, Add(c) PROVE ChannelsOpenWhileMember'
    <3>1. PICK label \in {"check", "joined"} : Moved(c, label)
      BY <2>3 DEF Add, Goto
    <3>2. clients' = clients \cup {c} /\ closed' = closed /\ pc[c] = "out"
      BY <2>3 DEF Add
    <3> QED
      BY <3>1, <3>2 DEF ChannelsOpenWhileMember, TypeOK
  <2>4. ASSUME NEW c \in Clients, Remove(c) PROVE ChannelsOpenWhileMember'
    BY <2>4 DEF Remove, Goto, ChannelsOpenWhileMember, TypeOK
  <2>5. ASSUME NEW c \in Clients, CheckPool(c) \/ ActivatePool(c) \/ Query(c) \/ Run(c)
        PROVE  ChannelsOpenWhileMember'
    <3>1. \E label \in {"activate", "joined", "replay", "reading"} : Moved(c, label)
      BY <2>5 DEF CheckPool, ActivatePool, Query, Run, Goto
    <3>2. /\ pc[c] \in {"check", "activate", "joined", "replay"}
          /\ UNCHANGED <<clients, closed>>
      BY <2>5 DEF CheckPool, ActivatePool, Query, Run
    <3> QED
      BY <2>2, <3>1, <3>2
  <2>6. ASSUME NEW c \in Clients, ReadFrame(c) \/ ReadTooLong(c) \/ ReadError(c)
        PROVE  ChannelsOpenWhileMember'
    <3>1. \/ \E label \in {"reading", "inline", "submit", "leaving"} : Moved(c, label)
          \/ UNCHANGED pc
      BY <2>6 DEF ReadFrame, ReadTooLong, ReadError, Goto
    <3>2. pc[c] = "reading" /\ UNCHANGED <<clients, closed>>
      BY <2>6 DEF ReadFrame, ReadTooLong, ReadError
    <3> QED
      BY <2>1, <2>2, <3>1, <3>2
  <2>7. ASSUME NEW c \in Clients, NEW t \in Clients, InlineSend(c, t)
        PROVE  ChannelsOpenWhileMember'
    <3>1. \E label \in {"reading", "inline", "leaving"} : Moved(c, label)
      BY <2>7 DEF InlineSend, Panic, Served, Goto
    <3>2. pc[c] = "inline" /\ UNCHANGED <<clients, closed>>
      BY <2>7 DEF InlineSend
    <3> QED
      BY <2>2, <3>1, <3>2
  <2>8. ASSUME NEW c \in Clients, NEW T \in SUBSET Clients, SubmitShard(c, T)
        PROVE  ChannelsOpenWhileMember'
    <3>1. \E label \in {"reading", "submit", "leaving"} : Moved(c, label)
      BY <2>8 DEF SubmitShard, Panic, Served, Goto
    <3>2. pc[c] = "submit" /\ UNCHANGED <<clients, closed>>
      BY <2>8 DEF SubmitShard
    <3> QED
      BY <2>2, <3>1, <3>2
  <2>9. ASSUME NEW c \in Clients, Pump(c) PROVE ChannelsOpenWhileMember'
    BY <2>1, <2>9 DEF Pump, PumpWrite, PumpFail, PumpStop
  <2>10. ASSUME NEW k \in Workers, Worker(k) PROVE ChannelsOpenWhileMember'
    BY <2>1, <2>10 DEF Worker, WorkerTake, WorkerSend, WorkerExit
  <2>11. ASSUME Stop PROVE ChannelsOpenWhileMember'
    BY <2>1, <2>11 DEF Stop, Closing, ShutdownStart, CloseWorker, ShutdownWait
  <2>12. ASSUME UNCHANGED vars PROVE ChannelsOpenWhileMember'
    BY <2>1, <2>12 DEF vars
  <2>13. ASSUME NEW c \in Clients, NEW m \in Old, Replay(c, m)
         PROVE  ChannelsOpenWhileMember'
    BY <2>1, <2>13 DEF Replay
  <2> QED
    BY <2>3, <2>4, <2>5, <2>6, <2>7, <2>8, <2>9, <2>10, <2>11, <2>12, <2>13
    DEF Next, Handler, Peer, Terminated
<1> QED
  BY <1>1, <1>2, TypeCorrect, PTL DEF Spec

-------------------------------------------------------------------------------
\* Before the pool is activated it has neither a closed channel nor a worker that
\* has returned, and nothing closes it.
NoPoolYet == pools = 0 => jobsClosed = {} /\ exited = {} /\ shut # "closing"

LEMMA PoolLater == Spec => [](NoStrandedJob /\ NoPoolYet)
<1> DEFINE TInv == TypeOK /\ HasFrame
<1>1. Init => NoStrandedJob /\ NoPoolYet
  BY DEF Init, NoStrandedJob, NoPoolYet
<1>2. TInv /\ NoStrandedJob /\ NoPoolYet /\ [Next]_vars
        => NoStrandedJob' /\ NoPoolYet'
  <2> SUFFICES ASSUME TypeOK, NoStrandedJob, NoPoolYet, [Next]_vars
               PROVE  NoStrandedJob' /\ NoPoolYet'
    OBVIOUS
  <2> USE DEF roomVars, localVars, handlerVars, clientVars, workerVars, stopVars,
             historyVars
  <2>1. ASSUME UNCHANGED <<pools, workerVars, shut>>
        PROVE  NoStrandedJob' /\ NoPoolYet'
    BY <2>1 DEF NoStrandedJob, NoPoolYet
  <2>2. ASSUME NEW c \in Clients, ActivatePool(c)
        PROVE  NoStrandedJob' /\ NoPoolYet'
    <3>1. CASE pools # 0
      BY <2>1, <2>2, <3>1 DEF ActivatePool, Recheck
    <3>2. CASE pools = 0
      <4>1. exited' = {} /\ pools' # 0
        BY <2>2, <3>2 DEF ActivatePool, Recheck, NoPoolYet
      <4> QED
        BY <4>1 DEF NoStrandedJob, NoPoolYet
    <3> QED
      BY <3>1, <3>2
  <2>3. ASSUME NEW c \in Clients, NEW T \in SUBSET Clients, SubmitShard(c, T)
        PROVE  NoStrandedJob' /\ NoPoolYet'
    <3>1. \A k \in exited : jobs'[k] = jobs[k]
      BY <2>3 DEF SubmitShard, NoStrandedJob, TypeOK
    <3>2. UNCHANGED <<pools, cur, jobsClosed, exited, shut>>
      BY <2>3 DEF SubmitShard
    <3> QED
      BY <3>1, <3>2 DEF NoStrandedJob, NoPoolYet
  <2>4. ASSUME NEW k \in Workers, WorkerTake(k)
        PROVE  NoStrandedJob' /\ NoPoolYet'
    BY <2>4 DEF WorkerTake, Idle, NoStrandedJob, NoPoolYet, TypeOK
  <2>5. ASSUME NEW k \in Workers, NEW t \in Clients, WorkerSend(k, t)
        PROVE  NoStrandedJob' /\ NoPoolYet'
    <3>1. k \notin exited
      BY <2>5 DEF WorkerSend, NoStrandedJob
    <3>2. \A j \in exited : cur'[j] = cur[j]
      BY <2>5, <3>1 DEF WorkerSend, TypeOK
    <3>3. UNCHANGED <<pools, jobs, jobsClosed, exited, shut>>
      BY <2>5 DEF WorkerSend
    <3> QED
      BY <3>2, <3>3 DEF NoStrandedJob, NoPoolYet
  <2>6. ASSUME NEW k \in Workers, WorkerExit(k)
        PROVE  NoStrandedJob' /\ NoPoolYet'
    BY <2>6 DEF WorkerExit, Idle, Drained, NoStrandedJob, NoPoolYet
  <2>7. ASSUME NEW k \in Workers, CloseWorker(k)
        PROVE  NoStrandedJob' /\ NoPoolYet'
    BY <2>7 DEF CloseWorker, NoStrandedJob, NoPoolYet
  <2>8. ASSUME ShutdownStart \/ ShutdownWait PROVE NoStrandedJob' /\ NoPoolYet'
    BY <2>8 DEF ShutdownStart, ShutdownWait, NoStrandedJob, NoPoolYet
  <2>9. ASSUME NEW c \in Clients,
               Add(c) \/ CheckPool(c) \/ Query(c) \/ Run(c) \/ Remove(c)
        PROVE  NoStrandedJob' /\ NoPoolYet'
    BY <2>1, <2>9 DEF Add, CheckPool, Query, Run, Remove
  <2>10. ASSUME NEW c \in Clients, ReadFrame(c) \/ ReadTooLong(c) \/ ReadError(c)
         PROVE  NoStrandedJob' /\ NoPoolYet'
    BY <2>1, <2>10 DEF ReadFrame, ReadTooLong, ReadError
  <2>11. ASSUME NEW c \in Clients, NEW t \in Clients, InlineSend(c, t)
         PROVE  NoStrandedJob' /\ NoPoolYet'
    BY <2>1, <2>11 DEF InlineSend
  <2>12. ASSUME NEW c \in Clients, Pump(c) PROVE NoStrandedJob' /\ NoPoolYet'
    BY <2>1, <2>12 DEF Pump, PumpWrite, PumpFail, PumpStop
  <2>13. ASSUME UNCHANGED vars PROVE NoStrandedJob' /\ NoPoolYet'
    BY <2>1, <2>13 DEF vars
  <2>14. ASSUME NEW c \in Clients, NEW m \in Old, Replay(c, m)
         PROVE  NoStrandedJob' /\ NoPoolYet'
    BY <2>1, <2>14 DEF Replay
  <2> QED
    BY <2>2, <2>3, <2>4, <2>5, <2>6, <2>7, <2>8, <2>9, <2>10, <2>11, <2>12, <2>13, <2>14
    DEF Next, Handler, Peer, Worker, Stop, Closing, Terminated
<1> QED
  BY <1>1, <1>2, TypeCorrect, PTL DEF Spec

\* What a Submit had accepted when its worker's channel was closed is served before
\* the worker returns, and nothing is accepted afterwards (broadcast_pool.go:40-76).
THEOREM NothingStranded == Spec => []NoStrandedJob
  BY PoolLater, PTL

\* However many connections find no pool at the same time, one of them starts it
\* (room.go:34, 39-50): the look without the lock is repeated under it.
THEOREM OnePool == Spec => []PoolOnce
<1>1. Init => PoolOnce
  BY DEF Init, PoolOnce
<1>2. PoolOnce /\ [Next]_vars => PoolOnce'
  <2> SUFFICES ASSUME PoolOnce, [Next]_vars PROVE PoolOnce'
    OBVIOUS
  <2> USE DEF roomVars, localVars, handlerVars, clientVars, workerVars, stopVars, historyVars
  <2>1. ASSUME NEW c \in Clients, ActivatePool(c) PROVE PoolOnce'
    <3>1. CASE pools = 0
      BY <2>1, <3>1 DEF ActivatePool, Recheck, PoolOnce
    <3>2. CASE pools # 0
      BY <2>1, <3>2 DEF ActivatePool, Recheck, PoolOnce
    <3> QED
      BY <3>1, <3>2
  <2>2. ASSUME NEW c \in Clients, Handler(c) \/ Peer(c), ~ActivatePool(c)
        PROVE  UNCHANGED pools
    BY <2>2 DEF Handler, Peer, Add, CheckPool, Query, Replay, Run, ReadFrame, ReadTooLong,
               ReadError, InlineSend, SubmitShard, Remove
  <2>3. ASSUME \/ \E c \in Clients : Pump(c)
               \/ \E k \in Workers : Worker(k)
               \/ Stop \/ Terminated \/ UNCHANGED vars
        PROVE  UNCHANGED pools
    BY <2>3 DEF Pump, PumpWrite, PumpFail, PumpStop, Worker, WorkerTake, WorkerSend,
               WorkerExit, Stop, Closing, ShutdownStart, CloseWorker, ShutdownWait,
               Terminated, vars
  <2> QED
    BY <2>1, <2>2, <2>3 DEF Next, PoolOnce
<1> QED
  BY <1>1, <1>2, PTL DEF Spec

-------------------------------------------------------------------------------
\* Rounding up: WorkerCount shards of chunkSize cover n clients.
LEMMA ChunksCover ==
  ASSUME NEW n \in Nat
  PROVE  n <= ChunkSize(n) * WorkerCount
<1> DEFINE q == (n + WorkerCount - 1) \div WorkerCount
           r == (n + WorkerCount - 1) % WorkerCount
<1>1. WorkerCount \in Nat /\ WorkerCount > 0
  BY WorkersAssumption
<1>2. q \in Int /\ r \in 0..(WorkerCount - 1)
  BY <1>1
<1>3. n + WorkerCount - 1 = WorkerCount * q + r
  BY <1>1
<1>4. n <= WorkerCount * q
  BY <1>1, <1>2, <1>3
<1>5. CASE q > 1
  BY <1>1, <1>2, <1>4, <1>5 DEF ChunkSize
<1>6. CASE q <= 1
  <2>1. WorkerCount * q <= WorkerCount
    BY <1>1, <1>2, <1>6
  <2>2. n <= WorkerCount
    BY <1>1, <1>2, <1>4, <2>1
  <2>3. ChunkSize(n) = 1
    BY <1>2, <1>6 DEF ChunkSize
  <2> QED
    BY <1>1, <2>2, <2>3
<1> QED
  BY <1>2, <1>5, <1>6

\* One more shard of size k is one less to come.
LEMMA OneShardLess ==
  ASSUME NEW k \in Nat, NEW s \in Nat, NEW n \in Nat,
         n <= k * (WorkerCount + 1 - s)
  PROVE  n - k <= k * (WorkerCount + 1 - (s + 1))
<1>1. k * (WorkerCount + 1 - (s + 1)) = k * (WorkerCount + 1 - s) - k
  BY WorkersAssumption
<1>2. k * (WorkerCount + 1 - s) \in Int
  BY WorkersAssumption
<1> QED
  BY <1>1, <1>2

\* The clients not yet in a shard fit in the shards to come.
ShardsLeft ==
  \A c \in Clients :
    pc[c] = "submit" =>
      /\ todo[c] # {}
      /\ Cardinality(todo[c]) <= chunk[c] * (WorkerCount + 1 - shard[c])

\* Where no broadcast is under way, the locals of Submit are at their start.
LocalsReset ==
  \A c \in Clients : pc[c] \in {"joined", "replay", "reading", "inline"} => shard[c] = 1
LocalsStart == \A c \in Clients : pc[c] \in {"out", "check", "activate"} => shard[c] = 1

\* Submit never reaches for a worker that does not exist (broadcast_pool.go:55-63).
THEOREM ShardsInRange == Spec => []ShardInRange
<1> DEFINE TInv == TypeOK /\ HasFrame
           SInv == ShardsLeft /\ LocalsReset /\ LocalsStart
<1>1. Init => SInv
  BY DEF Init, ShardsLeft, LocalsReset, LocalsStart
<1>2. TInv /\ SInv /\ [Next]_vars => SInv'
  <2> SUFFICES ASSUME TypeOK, SInv, [Next]_vars
               PROVE  SInv'
    OBVIOUS
  <2> USE DEF roomVars, localVars, handlerVars, clientVars, workerVars, stopVars,
             historyVars
  <2>1. ASSUME UNCHANGED handlerVars PROVE SInv'
    BY <2>1 DEF ShardsLeft, LocalsReset, LocalsStart
  <2>2. ASSUME NEW c \in Clients, UNCHANGED <<todo, chunk, shard>>,
               NEW label, pc' = [pc EXCEPT ![c] = label],
               \/ label \in {"leaving", "gone"}
               \/ /\ pc[c] \in {"out", "check", "activate", "joined", "replay"}
                  /\ label \in {"check", "activate", "joined", "replay", "reading"}
        PROVE  SInv'
    BY <2>2 DEF ShardsLeft, LocalsReset, LocalsStart, TypeOK
  <2>3. ASSUME NEW c \in Clients,
               Add(c) \/ CheckPool(c) \/ ActivatePool(c) \/ Query(c) \/ Run(c)
        PROVE  SInv'
    <3>1. \E label \in {"check", "activate", "joined", "replay", "reading"} :
             pc' = [pc EXCEPT ![c] = label]
      BY <2>3 DEF Add, CheckPool, ActivatePool, Query, Run, Goto
    <3>2. /\ pc[c] \in {"out", "check", "activate", "joined", "replay"}
          /\ UNCHANGED <<todo, chunk, shard>>
      BY <2>3 DEF Add, CheckPool, ActivatePool, Query, Run
    <3> QED
      BY <2>2, <3>1, <3>2
  <2>4. ASSUME NEW c \in Clients, ReadFrame(c) PROVE SInv'
    <3> DEFINE n == Cardinality(Snapshot(c))
    <3>1. Snapshot(c) \subseteq Clients /\ n \in Nat
      BY SizeType DEF Snapshot, TypeOK
    <3>2. shard[c] = 1 /\ shard' = shard
      BY <2>4 DEF ReadFrame, LocalsReset
    <3>3. \A d \in Clients \ {c} :
             pc'[d] = pc[d] /\ todo'[d] = todo[d] /\ chunk'[d] = chunk[d]
      BY <2>4 DEF ReadFrame, Goto, TypeOK
    <3>4. pc'[c] \in {"reading", "inline", "submit"}
      BY <2>4 DEF ReadFrame, Goto, TypeOK
    <3>5. ASSUME pc'[c] = "submit"
          PROVE  todo'[c] # {} /\ n <= chunk'[c] * (WorkerCount + 1 - shard'[c])
                 /\ todo'[c] = Snapshot(c)
      <4>1. Snapshot(c) # {} /\ pools # 0
        BY <2>4, <3>5 DEF ReadFrame, Goto, TypeOK
      <4>2. todo'[c] = Snapshot(c) /\ chunk'[c] = ChunkSize(n)
        BY <2>4, <4>1 DEF ReadFrame, TypeOK
      <4>3. n <= ChunkSize(n) * WorkerCount
        BY <3>1, ChunksCover
      <4>4. WorkerCount + 1 - shard'[c] = WorkerCount
        BY <3>2, WorkersAssumption
      <4> QED
        BY <4>1, <4>2, <4>3, <4>4
    <3> QED
      BY <3>2, <3>3, <3>4, <3>5 DEF ShardsLeft, LocalsReset, LocalsStart
  <2>5. ASSUME NEW c \in Clients, ReadTooLong(c) PROVE SInv'
    <3>1. UNCHANGED <<todo, chunk, shard>>
      BY <2>5 DEF ReadTooLong
    <3>2. UNCHANGED pc \/ pc' = [pc EXCEPT ![c] = "leaving"]
      BY <2>5 DEF ReadTooLong, Goto
    <3> QED
      BY <2>2, <3>1, <3>2 DEF ShardsLeft, LocalsReset, LocalsStart
  <2>6. ASSUME NEW c \in Clients, ReadError(c) \/ Remove(c) PROVE SInv'
    <3>1. \E label \in {"leaving", "gone"} : pc' = [pc EXCEPT ![c] = label]
      BY <2>6 DEF ReadError, Remove, Goto
    <3>2. UNCHANGED <<todo, chunk, shard>>
      BY <2>6 DEF ReadError, Remove
    <3> QED
      BY <2>2, <3>1, <3>2
  <2>7. ASSUME NEW c \in Clients, Panic(c) PROVE SInv'
    BY <2>2, <2>7 DEF Panic, Goto
  <2>8. ASSUME NEW c \in Clients, NEW t \in Clients, InlineSend(c, t) PROVE SInv'
    <3>1. CASE Panic(c)
      BY <2>7, <3>1
    <3>2. CASE Served(c, {t})
      <4>1. \A d \in Clients \ {c} :
               pc'[d] = pc[d] /\ todo'[d] = todo[d] /\ chunk'[d] = chunk[d]
               /\ shard'[d] = shard[d]
        BY <3>2 DEF Served, Goto, TypeOK
      <4>2. pc'[c] \in {"reading", "inline"} /\ shard'[c] = 1
        BY <2>8, <3>2 DEF InlineSend, Served, Goto, TypeOK
      <4> QED
        BY <4>1, <4>2 DEF ShardsLeft, LocalsReset, LocalsStart
    <3> QED
      BY <2>8, <3>1, <3>2 DEF InlineSend
  <2>9. ASSUME NEW c \in Clients, NEW T \in SUBSET Clients, SubmitShard(c, T)
        PROVE  SInv'
    <3>1. CASE Panic(c)
      BY <2>7, <3>1
    <3>2. CASE Served(c, T)
      <4>1. \A d \in Clients \ {c} :
               pc'[d] = pc[d] /\ todo'[d] = todo[d] /\ chunk'[d] = chunk[d]
               /\ shard'[d] = shard[d]
        BY <3>2 DEF Served, Goto, TypeOK
      <4>2. pc[c] = "submit" /\ T \subseteq todo[c]
        BY <2>9 DEF SubmitShard
      <4>3. CASE todo[c] \subseteq T
        <5>1. pc'[c] = "reading" /\ shard'[c] = 1
          BY <3>2, <4>3 DEF Served, Goto, TypeOK
        <5> QED
          BY <4>1, <5>1 DEF ShardsLeft, LocalsReset, LocalsStart
      <4>4. CASE ~(todo[c] \subseteq T)
        <5>1. /\ pc'[c] = "submit" /\ shard'[c] = shard[c] + 1
              /\ chunk'[c] = chunk[c] /\ todo'[c] = todo[c] \ T
          BY <3>2, <4>2, <4>4 DEF Served, Goto, TypeOK
        <5>2. Cardinality(T) = chunk[c]
          BY <2>9, <4>4 DEF SubmitShard
        <5>3. /\ IsFiniteSet(todo[c]) /\ IsFiniteSet(T)
              /\ Cardinality(todo[c]) \in Nat /\ Cardinality(T) \in Nat
          BY SizeType DEF TypeOK
        <5>4. Cardinality(todo[c] \ T) = Cardinality(todo[c]) - Cardinality(T)
          <6>1. todo[c] \cap T = T
            BY <4>2
          <6> QED
            BY <5>3, <6>1, FS_Difference
        <5>5. Cardinality(todo[c]) <= chunk[c] * (WorkerCount + 1 - shard[c])
          BY <4>2 DEF ShardsLeft
        <5>6. chunk[c] \in Nat /\ shard[c] \in Nat
          BY DEF TypeOK
        <5>7. Cardinality(todo[c]) - chunk[c]
                <= chunk[c] * (WorkerCount + 1 - (shard[c] + 1))
          BY <5>3, <5>5, <5>6, OneShardLess
        <5>8. todo'[c] # {}
          BY <4>4, <5>1
        <5>9. Cardinality(todo'[c]) <= chunk'[c] * (WorkerCount + 1 - shard'[c])
          BY <5>1, <5>2, <5>4, <5>7
        <5> QED
          BY <4>1, <5>1, <5>8, <5>9 DEF ShardsLeft, LocalsReset, LocalsStart
      <4> QED
        BY <4>3, <4>4
    <3> QED
      BY <2>9, <3>1, <3>2 DEF SubmitShard
  <2>10. ASSUME NEW c \in Clients, Pump(c) PROVE SInv'
    BY <2>1, <2>10 DEF Pump, PumpWrite, PumpFail, PumpStop
  <2>11. ASSUME NEW k \in Workers, Worker(k) PROVE SInv'
    BY <2>1, <2>11 DEF Worker, WorkerTake, WorkerSend, WorkerExit
  <2>12. ASSUME Stop PROVE SInv'
    BY <2>1, <2>12 DEF Stop, Closing, ShutdownStart, CloseWorker, ShutdownWait
  <2>13. ASSUME UNCHANGED vars PROVE SInv'
    BY <2>1, <2>13 DEF vars
  <2>14. ASSUME NEW c \in Clients, NEW m \in Old, Replay(c, m) PROVE SInv'
    <3>1. UNCHANGED <<pc, todo, chunk, shard>>
      BY <2>14 DEF Replay
    <3> QED
      BY <3>1 DEF ShardsLeft, LocalsReset, LocalsStart
  <2> QED
    BY <2>3, <2>4, <2>5, <2>6, <2>8, <2>9, <2>10, <2>11, <2>12, <2>13, <2>14
    DEF Next, Handler, Peer, Terminated
<1>3. TInv /\ SInv => ShardInRange
  <2> SUFFICES ASSUME TypeOK, ShardsLeft, NEW c \in Clients, pc[c] = "submit",
                      shard[c] \notin Workers
               PROVE  FALSE
    BY DEF ShardInRange
  <2>1. shard[c] \in Nat /\ chunk[c] \in Nat /\ shard[c] > WorkerCount
    BY WorkersAssumption DEF TypeOK, Workers
  <2>2. WorkerCount + 1 - shard[c] \in Int /\ WorkerCount + 1 - shard[c] <= 0
    BY <2>1, WorkersAssumption
  <2>3. chunk[c] * (WorkerCount + 1 - shard[c]) <= 0
    BY <2>1, <2>2
  <2>4. IsFiniteSet(todo[c]) /\ Cardinality(todo[c]) \in Nat
    BY SizeType DEF TypeOK
  <2>5. Cardinality(todo[c]) = 0
    BY <2>1, <2>3, <2>4, WorkersAssumption DEF ShardsLeft
  <2>6. todo[c] = {}
    BY <2>4, <2>5, FS_EmptySet
  <2> QED
    BY <2>6 DEF ShardsLeft
<1> QED
  BY <1>1, <1>2, <1>3, TypeCorrect, PTL DEF Spec
===============================================================================
