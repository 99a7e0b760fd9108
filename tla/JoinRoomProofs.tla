---------------------------- MODULE JoinRoomProofs ----------------------------
(***************************************************************************)
(* Joining a room, for any number of connections and any limits: a client  *)
(* that got its history misses nothing, the history enters its channel     *)
(* oldest first, and nothing comes twice but what is also in the history.  *)
(***************************************************************************)
EXTENDS JoinRoom, FiniteSetTheorems, TLAPS

USE DEF hubVars, talkVars, historyVars, channelVars

-------------------------------------------------------------------------------
(* Lemmas about sequences and about SendRaw.                               *)

LEMMA AppendRange ==
  ASSUME NEW S, NEW s \in Seq(S), NEW e \in S
  PROVE  Range(Append(s, e)) = Range(s) \cup {e}
<1>1. DOMAIN s = 1..Len(s) /\ Len(s) \in Nat
  OBVIOUS
<1>2. DOMAIN Append(s, e) = 1..(Len(s) + 1)
  OBVIOUS
<1>3. \A i \in 1..Len(s) : Append(s, e)[i] = s[i]
  OBVIOUS
<1>4. Append(s, e)[Len(s) + 1] = e
  OBVIOUS
<1>5. 1..(Len(s) + 1) = 1..Len(s) \cup {Len(s) + 1}
  BY <1>1
<1> QED
  BY <1>1, <1>2, <1>3, <1>4, <1>5 DEF Range

\* A channel takes the message at its end, or drops it on the record.
LEMMA Sent ==
  ASSUME stream \in [Clients -> Seq(Msg)], lost \in [Clients -> SUBSET Msg],
         NEW r \in Clients, NEW m \in Msg, SendRaw(r, m)
  PROVE  /\ stream' \in [Clients -> Seq(Msg)] /\ lost' \in [Clients -> SUBSET Msg]
         /\ \A t \in Clients :
              /\ \/ t = r /\ stream'[t] = Append(stream[t], m) /\ lost'[t] = lost[t]
                 \/ t = r /\ stream'[t] = stream[t] /\ lost'[t] = lost[t] \cup {m}
                 \/ t # r /\ stream'[t] = stream[t] /\ lost'[t] = lost[t]
              /\ Len(stream'[t]) >= Len(stream[t])
              /\ Range(stream[t]) \cup lost[t] \subseteq Range(stream'[t]) \cup lost'[t]
              /\ t = r => m \in Range(stream'[t]) \cup lost'[t]
<1>1. ASSUME NEW t \in Clients
      PROVE  /\ stream'[t] \in Seq(Msg) /\ lost'[t] \in SUBSET Msg
             /\ \/ t = r /\ stream'[t] = Append(stream[t], m) /\ lost'[t] = lost[t]
                \/ t = r /\ stream'[t] = stream[t] /\ lost'[t] = lost[t] \cup {m}
                \/ t # r /\ stream'[t] = stream[t] /\ lost'[t] = lost[t]
             /\ Len(stream'[t]) >= Len(stream[t])
  BY DEF SendRaw
<1>2. ASSUME NEW t \in Clients
      PROVE  /\ Range(stream[t]) \cup lost[t] \subseteq Range(stream'[t]) \cup lost'[t]
             /\ t = r => m \in Range(stream'[t]) \cup lost'[t]
  <2>1. Range(Append(stream[t], m)) = Range(stream[t]) \cup {m}
    BY AppendRange
  <2> QED
    BY <1>1, <2>1
<1>3. stream' \in [Clients -> Seq(Msg)] /\ lost' \in [Clients -> SUBSET Msg]
  BY DEF SendRaw
<1> QED
  BY <1>1, <1>2, <1>3

-------------------------------------------------------------------------------
(* Lemmas about the newest messages of the room.                           *)

\* Distinct messages have distinct times.
Stamped(S) == \A m, n \in S : m.at = n.at => m = n

LEMMA MsgFinite == IsFiniteSet(Msg)
<1>1. IsFiniteSet(1..MaxMessages) /\ IsFiniteSet(Clients)
  BY FS_Interval, ClientsAssumption, BoundAssumption
<1>2. IsFiniteSet(Clients \X (1..MaxMessages))
  BY <1>1, FS_Product
<1>3. DEFINE f == [p \in Clients \X (1..MaxMessages) |-> [from |-> p[1], at |-> p[2]]]
<1>4. f \in Surjection(Clients \X (1..MaxMessages), Msg)
  <2>1. f \in [Clients \X (1..MaxMessages) -> Msg]
    BY DEF Msg
  <2>2. ASSUME NEW m \in Msg
        PROVE  \E p \in Clients \X (1..MaxMessages) : f[p] = m
    <3>1. <<m.from, m.at>> \in Clients \X (1..MaxMessages)
      BY DEF Msg
    <3>2. f[<<m.from, m.at>>] = [from |-> m.from, at |-> m.at]
      BY <3>1
    <3>3. m = [from |-> m.from, at |-> m.at]
      BY DEF Msg
    <3> QED
      BY <3>1, <3>2, <3>3
  <2> QED
    BY <2>1, <2>2 DEF Surjection
<1> QED
  BY <1>2, <1>4, FS_Surjection

\* A set of messages has an oldest and a newest one: strict inclusion of finite
\* sets is well founded.
LEMMA SmallestSet ==
  ASSUME NEW S, IsFiniteSet(S), NEW F \in SUBSET SUBSET S, F # {}
  PROVE  \E x \in F : \A y \in F : ~ (y \subseteq x /\ y # x)
<1>1. FiniteSubsetsOf(S) = SUBSET S
  BY FS_FiniteSubsetsOfFinite
<1>2. PICK x \in F : \A y \in F : ~ (<<y, x>> \in StrictSubsetOrdering(S))
  BY <1>1, FS_StrictSubsetOrderingWellFounded, WFMin
<1>3. ASSUME NEW y \in F, y \subseteq x, y # x
      PROVE  FALSE
  <2>1. <<y, x>> \in (SUBSET S) \X (SUBSET S)
    OBVIOUS
  <2>2. <<y, x>> \in StrictSubsetOrdering(S)
    BY <1>3, <2>1 DEF StrictSubsetOrdering
  <2> QED
    BY <1>2, <2>2
<1>4. \A y \in F : ~ (y \subseteq x /\ y # x)
  BY <1>3
<1> QED
  BY <1>4

LEMMA Oldest ==
  ASSUME NEW S \in SUBSET Msg, S # {}
  PROVE  \E m \in S : \A n \in S : n.at >= m.at
<1> DEFINE Older(m) == {n \in S : n.at < m.at}
           F == {Older(m) : m \in S}
<1>1. IsFiniteSet(S)
  BY MsgFinite, FS_Subset
<1>2. F \in SUBSET SUBSET S /\ F # {}
  OBVIOUS
<1>3. \E x \in F : \A y \in F : ~ (y \subseteq x /\ y # x)
  <2> HIDE DEF F
  <2> QED
    BY <1>1, <1>2, SmallestSet
<1>4. PICK m \in S : \A y \in F : ~ (y \subseteq Older(m) /\ y # Older(m))
  BY <1>3
<1>5. ASSUME NEW n \in S PROVE n.at >= m.at
  <2>1. \A k \in S : k.at \in Nat
    BY BoundAssumption DEF Msg
  <2>2. SUFFICES ASSUME n.at < m.at PROVE FALSE
    BY <2>1
  <2>3. n \in Older(m) /\ n \notin Older(n) /\ Older(n) \subseteq Older(m)
    BY <2>1, <2>2
  <2>4. Older(n) \in F
    OBVIOUS
  <2> QED
    BY <1>4, <2>3, <2>4
<1> QED
  BY <1>5

LEMMA Youngest ==
  ASSUME NEW S \in SUBSET Msg, S # {}
  PROVE  \E m \in S : \A n \in S : n.at <= m.at
<1> DEFINE Younger(m) == {n \in S : n.at > m.at}
           F == {Younger(m) : m \in S}
<1>1. IsFiniteSet(S)
  BY MsgFinite, FS_Subset
<1>2. F \in SUBSET SUBSET S /\ F # {}
  OBVIOUS
<1>3. \E x \in F : \A y \in F : ~ (y \subseteq x /\ y # x)
  <2> HIDE DEF F
  <2> QED
    BY <1>1, <1>2, SmallestSet
<1>4. PICK m \in S : \A y \in F : ~ (y \subseteq Younger(m) /\ y # Younger(m))
  BY <1>3
<1>5. ASSUME NEW n \in S PROVE n.at <= m.at
  <2>1. \A k \in S : k.at \in Nat
    BY BoundAssumption DEF Msg
  <2>2. SUFFICES ASSUME n.at > m.at PROVE FALSE
    BY <2>1
  <2>3. n \in Younger(m) /\ n \notin Younger(n) /\ Younger(n) \subseteq Younger(m)
    BY <2>1, <2>2
  <2>4. Younger(n) \in F
    OBVIOUS
  <2> QED
    BY <1>4, <2>3, <2>4
<1> QED
  BY <1>5

\* There are at most HistoryLimit newest messages.
LEMMA NewestBound ==
  ASSUME NEW S \in SUBSET Msg, Stamped(S)
  PROVE  /\ Newest(S) \subseteq S /\ IsFiniteSet(Newest(S))
         /\ Cardinality(Newest(S)) \in Nat /\ Cardinality(Newest(S)) <= HistoryLimit
<1>1. IsFiniteSet(S)
  BY MsgFinite, FS_Subset
<1>2. Newest(S) \subseteq S /\ IsFiniteSet(Newest(S)) /\ Cardinality(Newest(S)) \in Nat
  BY <1>1, FS_Subset, FS_CardinalityType DEF Newest
<1>3. CASE Newest(S) = {}
  BY <1>2, <1>3, FS_EmptySet, LimitsAssumption
<1>4. CASE Newest(S) # {}
  <2>1. PICK h \in Newest(S) : \A n \in Newest(S) : n.at >= h.at
    BY <1>2, <1>4, Oldest
  <2> DEFINE Above == {n \in S : n.at > h.at}
  <2>2. Cardinality(Above) < HistoryLimit
    BY DEF Newest
  <2>3. ASSUME NEW n \in Newest(S) \ {h} PROVE n \in Above
    <3>1. n \in S /\ h \in S /\ n.at \in Nat /\ h.at \in Nat
      BY <1>2, BoundAssumption DEF Msg
    <3>2. n.at >= h.at /\ n.at # h.at
      BY <2>1, <3>1 DEF Stamped
    <3> QED
      BY <3>1, <3>2
  <2>4. IsFiniteSet(Above) /\ Cardinality(Above) \in Nat
    BY <1>1, FS_Subset, FS_CardinalityType
  <2>5. Cardinality(Newest(S) \ {h}) <= Cardinality(Above)
    BY <2>3, <2>4, FS_Subset
  <2>6. Cardinality(Newest(S) \ {h}) = Cardinality(Newest(S)) - 1
    BY <1>2, FS_RemoveElement
  <2> QED
    BY <1>2, <2>2, <2>4, <2>5, <2>6, LimitsAssumption
<1> QED
  BY <1>2, <1>3, <1>4

\* What is not among the newest is older than each of them, and they are as many
\* as there may be.
LEMMA NewestFull ==
  ASSUME NEW S \in SUBSET Msg, Stamped(S), NEW m \in S, m \notin Newest(S)
  PROVE  /\ Cardinality(Newest(S)) = HistoryLimit
         /\ \A h \in Newest(S) : h.at > m.at
<1>1. IsFiniteSet(S)
  BY MsgFinite, FS_Subset
<1>2. \A n \in S : n.at \in Nat
  BY BoundAssumption DEF Msg
<1>3. ASSUME NEW n \in S
      PROVE  /\ IsFiniteSet({k \in S : k.at > n.at})
             /\ Cardinality({k \in S : k.at > n.at}) \in Nat
  BY <1>1, FS_Subset, FS_CardinalityType
<1>4. ASSUME NEW n \in S \ Newest(S), NEW h \in Newest(S) PROVE h.at > n.at
  <2>1. h \in S /\ Cardinality({k \in S : k.at > h.at}) < HistoryLimit
    BY DEF Newest
  <2>2. ~ Cardinality({k \in S : k.at > n.at}) < HistoryLimit
    BY DEF Newest
  <2>3. SUFFICES ASSUME h.at <= n.at PROVE FALSE
    BY <1>2, <2>1
  <2>4. {k \in S : k.at > n.at} \subseteq {k \in S : k.at > h.at}
    BY <1>2, <2>1, <2>3
  <2>5. Cardinality({k \in S : k.at > n.at}) <= Cardinality({k \in S : k.at > h.at})
    BY <1>3, <2>1, <2>4, FS_Subset
  <2>6. /\ Cardinality({k \in S : k.at > n.at}) \in Nat
        /\ Cardinality({k \in S : k.at > h.at}) \in Nat
    BY <1>3, <2>1
  <2> HIDE <1>3
  <2> QED
    BY <2>1, <2>2, <2>5, <2>6, LimitsAssumption
<1>5. PICK y \in S \ Newest(S) : \A n \in S \ Newest(S) : n.at <= y.at
  BY Youngest
<1>6. {k \in S : k.at > y.at} = Newest(S)
  <2>1. ASSUME NEW k \in S, k.at > y.at PROVE k \in Newest(S)
    BY <1>2, <1>5, <2>1
  <2>2. Newest(S) \subseteq S
    BY DEF Newest
  <2> QED
    BY <1>4, <2>1, <2>2
<1>7. ~ Cardinality(Newest(S)) < HistoryLimit
  <2>1. ~ Cardinality({k \in S : k.at > y.at}) < HistoryLimit
    BY DEF Newest
  <2> QED
    BY <1>6, <2>1
<1> QED
  BY <1>4, <1>7, NewestBound, LimitsAssumption

\* A descending enumeration holds each message once.
LEMMA DescendingSequence ==
  ASSUME NEW S \in SUBSET Msg, NEW s \in Descending(S)
  PROVE  /\ s \in Seq(Msg) /\ Len(s) = Cardinality(S) /\ Range(s) = S
         /\ \A i, j \in 1..Len(s) : i < j => s[i].at > s[j].at
<1> DEFINE n == Cardinality(S)
<1>1. IsFiniteSet(S) /\ n \in Nat
  BY MsgFinite, FS_Subset, FS_CardinalityType
<1>2. s \in [1..n -> S] /\ \A i, j \in 1..n : i < j => s[i].at > s[j].at
  BY DEF Descending
<1> HIDE DEF n
<1>3. s \in Seq(Msg) /\ Len(s) = n
  BY <1>1, <1>2
<1>4. \A i \in 1..n : s[i].at \in Nat
  BY <1>2, BoundAssumption DEF Msg
<1>5. s \in Injection(1..n, S)
  <2>1. ASSUME NEW i \in 1..n, NEW j \in 1..n, s[i] = s[j] PROVE i = j
    <3>1. ~ i < j /\ ~ j < i
      BY <1>2, <1>4, <2>1
    <3> QED
      BY <3>1, <1>1
  <2> QED
    BY <1>2, <2>1 DEF Injection, IsInjective
<1>6. IsFiniteSet(1..n) /\ Cardinality(1..n) = n
  BY <1>1, FS_Interval
<1>7. s \in Surjection(1..n, S)
  BY <1>1, <1>5, <1>6, FS_Injection DEF n
<1>8. Range(s) = S
  BY <1>2, <1>7 DEF Range, Surjection
<1> QED
  BY <1>2, <1>3, <1>8 DEF n

-------------------------------------------------------------------------------
(* The invariant, in parts.                                                *)

\* The connections whose handler has its room object.
Counted == {c \in Clients : pc[c] \notin {"out", "create"}}

\* What each handler holds where; a room object is created by one of them.
Control ==
  /\ objects <= Cardinality(Counted)
  /\ \A c \in Clients :
       /\ pc[c] \notin {"out", "create", "gone"} => room[c] >= 1
       /\ IF pc[c] \in {"persist", "broadcast", "sending"}
          THEN message[c] \in Msg /\ message[c].from = c
          ELSE message[c] = NoMsg
       /\ todo[c] # {} => pc[c] = "sending" /\ c \notin todo[c]
       /\ pc[c] \in {"out", "create", "enlist", "query"} =>
            history[c] = <<>> /\ replayed[c] = 0

\* Stamps are distinct and of the past; who has sent is past its own history.
Stamps ==
  /\ Stamped(db)
  /\ \A m \in db : /\ m.at <= clock
                   /\ pc[m.from] \in {"reading", "persist", "broadcast", "sending", "gone"}
  /\ \A c \in Clients : message[c] # NoMsg =>
       /\ message[c].at <= clock
       /\ \A m \in db : m.at = message[c].at => m = message[c]
       /\ \A d \in Clients :
            message[d] # NoMsg /\ message[d].at = message[c].at => d = c

TypeCorrect == TypeOK /\ Control /\ Stamps

LEMMA NoMsgIsNone == NoMsg \notin Msg /\ \A m \in Msg : m.at \in Nat /\ m.from \in Clients
  BY BoundAssumption DEF Msg, NoMsg

LEMMA CountedFinite ==
  /\ IsFiniteSet(Counted) /\ Cardinality(Counted) \in Nat
  /\ Cardinality(Clients) \in Nat /\ Cardinality(Counted) <= Cardinality(Clients)
  BY ClientsAssumption, FS_Subset, FS_CardinalityType DEF Counted

\* More connections counted is no fewer.
LEMMA CountedGrows ==
  ASSUME Counted \subseteq Counted'
  PROVE  Cardinality(Counted) <= Cardinality(Counted')
<1>1. IsFiniteSet(Counted')
  BY ClientsAssumption, FS_Subset DEF Counted
<1> QED
  BY <1>1, FS_Subset

LEMMA TypeInit == Init => TypeCorrect
<1> SUFFICES ASSUME Init PROVE TypeCorrect
  OBVIOUS
<1>1. Cardinality(Clients) \in Nat
  BY CountedFinite
<1>2. TypeOK
  <2>1. <<>> \in Seq(Msg) /\ Len(<<>>) = 0
    OBVIOUS
  <2>2. history = [c \in Clients |-> <<>>] /\ stream = [c \in Clients |-> <<>>]
    BY DEF Init
  <2>3. history \in [Clients -> Seq(Msg)] /\ stream \in [Clients -> Seq(Msg)]
    BY <2>1, <2>2
  <2>4. \A c \in Clients : /\ Len(history[c]) <= HistoryLimit
                           /\ replayed[c] <= Len(history[c])
                           /\ drained[c] <= Len(stream[c])
    BY <2>1, LimitsAssumption DEF Init
  <2> QED
    BY <1>1, <2>3, <2>4, BoundAssumption DEF Init, TypeOK
<1>3. Control
  BY CountedFinite DEF Init, Control
<1>4. Stamps
  BY DEF Init, Stamps, Stamped
<1> QED
  BY <1>2, <1>3, <1>4 DEF TypeCorrect

\* Most actions touch no message and take nobody back before its first one.
LEMMA StampsKept ==
  ASSUME Stamps, UNCHANGED <<clock, message, db>>, db \subseteq Msg,
         \A c \in Clients : pc[c] \in {"reading", "persist", "broadcast", "sending", "gone"}
                              => pc'[c] \in {"reading", "persist", "broadcast", "sending", "gone"}
  PROVE  Stamps'
<1>1. \A m \in db : m.from \in Clients
  BY DEF Msg
<1>2. Stamped(db)'
  BY DEF Stamps, Stamped
<1> QED
  BY <1>1, <1>2 DEF Stamps

\* The steps of the handler before the replay.
LEMMA TypeJoin ==
  ASSUME TypeCorrect, NEW c \in Clients,
         Refuse(c) \/ GetRoom(c) \/ CreateRoom(c) \/ Add(c)
  PROVE  TypeCorrect'
<1> USE DEF TypeCorrect, Goto
<1>1. /\ Cardinality(Counted) \in Nat /\ Cardinality(Clients) \in Nat
      /\ Cardinality(Counted') <= Cardinality(Clients) /\ Cardinality(Counted') \in Nat
  <2>1. IsFiniteSet(Counted') /\ Cardinality(Counted') <= Cardinality(Clients)
    BY ClientsAssumption, FS_Subset DEF Counted
  <2> QED
    BY <2>1, CountedFinite, FS_CardinalityType
<1>2. Stamps'
  <2>1. /\ UNCHANGED <<clock, message, db>>
        /\ \A d \in Clients : pc[d] \in {"reading", "persist", "broadcast", "sending", "gone"}
                                => pc'[d] \in {"reading", "persist", "broadcast", "sending", "gone"}
    BY DEF TypeOK, Refuse, GetRoom, CreateRoom, Add
  <2> QED
    BY <2>1, StampsKept DEF TypeOK
<1>3. CASE Refuse(c) \/ GetRoom(c)
  <2>1. objects' = objects /\ Counted \subseteq Counted'
    BY <1>3 DEF Refuse, GetRoom, Counted, TypeOK
  <2>2. objects' <= Cardinality(Counted')
    BY <1>1, <2>1, CountedGrows DEF Control, TypeOK
  <2>3. TypeOK'
    <3>1. CASE Refuse(c)
      BY <3>1 DEF TypeOK, Refuse
    <3>2. CASE GetRoom(c)
      BY <3>2 DEF TypeOK, GetRoom
    <3> QED
      BY <1>3, <3>1, <3>2
  <2>4. Control'
    <3>1. ASSUME NEW d \in Clients
          PROVE  /\ pc'[d] \notin {"out", "create", "gone"} => room'[d] >= 1
                 /\ pc'[d] \in {"persist", "broadcast", "sending"} <=> pc[d] \in {"persist", "broadcast", "sending"}
                 /\ pc'[d] \in {"out", "create", "enlist", "query"} =>
                      pc[d] \in {"out", "create", "enlist", "query"}
      <4>1. CASE d = c
        <5>1. CASE Refuse(c)
          BY <4>1, <5>1 DEF TypeOK, Refuse
        <5>2. CASE GetRoom(c)
          <6>1. room'[c] = hub /\ pc[c] = "out" /\ hub \in 0..objects
                /\ pc'[c] = (IF hub = 0 THEN "create" ELSE "enlist")
            BY <5>2 DEF TypeOK, GetRoom
          <6> QED
            BY <4>1, <6>1
        <5> QED
          BY <1>3, <5>1, <5>2
      <4>2. CASE d # c
        <5>1. pc'[d] = pc[d] /\ room'[d] = room[d]
          BY <1>3, <4>2 DEF TypeOK, Refuse, GetRoom
        <5> QED
          BY <5>1 DEF Control
      <4> QED
        BY <4>1, <4>2
    <3>2. UNCHANGED <<message, todo, history, replayed>>
      BY <1>3 DEF Refuse, GetRoom
    <3>3. \A d \in Clients : todo[d] # {} => pc'[d] = "sending" /\ d \notin todo[d]
      BY <1>3 DEF Refuse, GetRoom, Control, TypeOK
    <3> QED
      BY <2>2, <3>1, <3>2, <3>3 DEF Control
  <2> QED
    BY <1>2, <2>3, <2>4
<1>4. CASE CreateRoom(c)
  <2>1. c \notin Counted /\ Counted' = Counted \cup {c}
    BY <1>4 DEF CreateRoom, Counted, TypeOK
  <2>2. Cardinality(Counted') = Cardinality(Counted) + 1
    BY <2>1, CountedFinite, FS_AddElement
  <2>3. objects' = objects + 1 /\ objects \in Nat /\ objects <= Cardinality(Counted)
    BY <1>4 DEF CreateRoom, TypeOK, Control
  <2>4. objects' <= Cardinality(Counted') /\ objects' \in 0..Cardinality(Clients)
    BY <1>1, <2>2, <2>3
  <2>5. TypeOK'
    <3>1. hub' \in 0..objects' /\ room' \in [Clients -> 0..objects']
      BY <1>4, <2>3 DEF TypeOK, CreateRoom
    <3> QED
      BY <1>4, <2>4, <3>1 DEF TypeOK, CreateRoom
  <2>6. Control'
    BY <1>4, <2>3, <2>4 DEF TypeOK, Control, CreateRoom
  <2> QED
    BY <1>2, <2>5, <2>6
<1>5. CASE Add(c)
  <2>1. Counted' = Counted
    BY <1>5 DEF Add, Counted, TypeOK
  <2>2. room[c] \in Objects
    <3>1. room[c] >= 1 /\ room[c] \in 0..objects /\ objects \in 0..Cardinality(Clients)
      BY <1>5 DEF Add, TypeOK, Control
    <3> QED
      BY <1>1, <3>1 DEF Objects
  <2>3. members' \in [Objects -> SUBSET Clients]
    BY <1>5, <2>2 DEF Add, TypeOK
  <2>4. TypeOK'
    BY <1>5, <2>3 DEF TypeOK, Add
  <2>5. Control'
    BY <1>5, <2>1 DEF TypeOK, Control, Add
  <2> QED
    BY <1>2, <2>4, <2>5
<1> QED
  BY <1>3, <1>4, <1>5

\* The replay.
LEMMA TypeReplay ==
  ASSUME TypeCorrect, NEW c \in Clients, FetchHistory(c) \/ Replay(c) \/ Run(c)
  PROVE  TypeCorrect'
<1> USE DEF TypeCorrect, Goto
<1>1. Counted' = Counted
  BY DEF FetchHistory, Replay, Run, Counted, TypeOK
<1>2. Stamps'
  <2>1. /\ UNCHANGED <<clock, message, db>>
        /\ \A d \in Clients : pc[d] \in {"reading", "persist", "broadcast", "sending", "gone"}
                                => pc'[d] \in {"reading", "persist", "broadcast", "sending", "gone"}
    BY DEF TypeOK, FetchHistory, Replay, Run
  <2> QED
    BY <2>1, StampsKept DEF TypeOK
<1>3. CASE FetchHistory(c)
  <2>1. /\ history' \in [Clients -> Seq(Msg)]
        /\ \A d \in Clients : Len(history'[d]) <= HistoryLimit
                              /\ Len(history'[d]) \in Nat /\ replayed[d] <= Len(history'[d])
    <3>1. CASE UNCHANGED history
      BY <3>1 DEF TypeOK
    <3>2. CASE \E s \in Descending(Newest(db)) : history' = [history EXCEPT ![c] = s]
      <4>1. PICK s \in Descending(Newest(db)) : history' = [history EXCEPT ![c] = s]
        BY <3>2
      <4>2. /\ Newest(db) \subseteq db /\ Cardinality(Newest(db)) \in Nat
            /\ Cardinality(Newest(db)) <= HistoryLimit
        BY NewestBound DEF TypeOK, Stamps
      <4>3. s \in Seq(Msg) /\ Len(s) = Cardinality(Newest(db))
        BY <4>2, DescendingSequence DEF TypeOK
      <4>4. replayed[c] = 0
        BY <1>3 DEF FetchHistory, Control
      <4> QED
        BY <4>1, <4>2, <4>3, <4>4 DEF TypeOK
    <3> QED
      BY <1>3, <3>1, <3>2 DEF FetchHistory
  <2>2. TypeOK'
    BY <1>3, <2>1 DEF TypeOK, FetchHistory
  <2>3. /\ pc[c] = "query" /\ pc'[c] \in {"replay", "reading"}
        /\ \A d \in Clients : d # c => pc'[d] = pc[d] /\ history'[d] = history[d]
    BY <1>3 DEF TypeOK, FetchHistory
  <2>4. Control'
    BY <1>1, <1>3, <2>3 DEF TypeOK, Control, FetchHistory
  <2> QED
    BY <1>2, <2>2, <2>4
<1>4. CASE Replay(c)
  <2>1. Len(history[c]) - replayed[c] \in 1..Len(history[c])
    BY <1>4 DEF Replay, TypeOK
  <2>2. NextOfHistory(c) \in Msg
    BY <2>1 DEF TypeOK, NextOfHistory
  <2>3. /\ stream' \in [Clients -> Seq(Msg)] /\ lost' \in [Clients -> SUBSET Msg]
        /\ \A t \in Clients : Len(stream'[t]) >= Len(stream[t])
    BY <1>4, <2>2, Sent DEF Replay, TypeOK
  <2>4. \A t \in Clients : drained[t] <= Len(stream'[t])
    <3> SUFFICES ASSUME NEW t \in Clients PROVE drained[t] <= Len(stream'[t])
      OBVIOUS
    <3>1. stream[t] \in Seq(Msg) /\ stream'[t] \in Seq(Msg)
      BY <2>3 DEF TypeOK
    <3>2. drained[t] \in Nat /\ drained[t] <= Len(stream[t]) /\ Len(stream'[t]) >= Len(stream[t])
      BY <2>3 DEF TypeOK
    <3> HIDE DEF TypeCorrect
    <3> QED
      BY <3>1, <3>2
  <2>5. /\ replayed' \in [Clients -> Nat]
        /\ \A t \in Clients : replayed'[t] <= Len(history[t])
    BY <1>4, <2>1 DEF TypeOK, Replay
  <2>7. TypeOK'
    BY <1>4, <2>3, <2>4, <2>5 DEF TypeOK, Replay
  <2>6. Control'
    BY <1>1, <1>4 DEF TypeOK, Control, Replay
  <2> QED
    BY <1>2, <2>7, <2>6
<1>5. CASE Run(c)
  <2>1. TypeOK'
    BY <1>5 DEF TypeOK, Run
  <2>2. Control'
    BY <1>1, <1>5 DEF TypeOK, Control, Run
  <2> QED
    BY <1>2, <2>1, <2>2
<1> QED
  BY <1>3, <1>4, <1>5

\* What a handler that ends takes with it.
LEMMA RemovedFrame ==
  ASSUME TypeOK, NEW c \in Clients, Remove(c)
  PROVE  /\ history' \in [Clients -> Seq(Msg)] /\ stream' \in [Clients -> Seq(Msg)]
         /\ replayed' \in [Clients -> Nat] /\ drained' \in [Clients -> Nat]
         /\ lost' \in [Clients -> SUBSET Msg]
         /\ Len(<<>>) = 0 /\ Len(<<>>) <= HistoryLimit
         /\ \A d \in Clients :
              IF d = c THEN /\ history'[d] = <<>> /\ replayed'[d] = 0
                            /\ stream'[d] = <<>> /\ drained'[d] = 0 /\ lost'[d] = {}
              ELSE UNCHANGED <<history[d], replayed[d], stream[d], drained[d], lost[d], pc[d]>>
<1>1. <<>> \in Seq(Msg) /\ Len(<<>>) = 0
  OBVIOUS
<1> QED
  BY <1>1, LimitsAssumption DEF Remove, Goto, TypeOK

\* The pumps, and what ends them.
LEMMA TypeChat ==
  ASSUME TypeCorrect, NEW c \in Clients, Chat(c)
  PROVE  TypeCorrect'
<1> USE DEF TypeCorrect, Goto
<1>1. Counted' = Counted
  BY DEF Chat, ReadFrame, Persist, Broadcast, Send, BroadcastDone, Panic, Remove, Drain, Leave,
         Counted, TypeOK
<1>2. CASE ReadFrame(c)
  <2> DEFINE m == [from |-> c, at |-> clock + 1]
  <2>1. /\ pc[c] = "reading" /\ message[c] = NoMsg /\ clock \in Nat
        /\ clock' = clock + 1 /\ clock' \in 1..MaxMessages
    <3>1. pc[c] = "reading" /\ clock < MaxMessages /\ clock' = clock + 1
          /\ clock \in 0..MaxMessages
      BY <1>2 DEF ReadFrame, TypeOK
    <3>2. message[c] = NoMsg
      BY <3>1 DEF Control
    <3> QED
      BY <3>1, <3>2, BoundAssumption
  <2>2. m \in Msg /\ m.from = c /\ m.at = clock + 1
    BY <2>1 DEF Msg
  <2>3. message' = [message EXCEPT ![c] = m] /\ pc' = [pc EXCEPT ![c] = "persist"]
    BY <1>2, <2>1 DEF ReadFrame
  <2> HIDE DEF m
  <2>4. TypeOK'
    BY <1>2, <2>1, <2>2, <2>3 DEF TypeOK, ReadFrame
  <2>5. Control'
    BY <1>1, <1>2, <2>1, <2>2, <2>3 DEF TypeOK, Control, ReadFrame
  <2>6. Stamps'
    <3>1. db' = db /\ Stamped(db')
      BY <1>2 DEF ReadFrame, Stamps
    <3>2. ASSUME NEW n \in db
          PROVE  /\ n.at <= clock /\ n.at <= clock' /\ n.at # m.at
                 /\ pc'[n.from] \in {"reading", "persist", "broadcast", "sending", "gone"}
      <4>1. n.at \in Nat /\ n.from \in Clients /\ n.at <= clock
        BY NoMsgIsNone DEF TypeOK, Stamps
      <4> QED
        BY <2>1, <2>2, <2>3, <4>1 DEF TypeOK, Stamps
    <3>3. ASSUME NEW d \in Clients, d # c
          PROVE  /\ message'[d] = message[d]
                 /\ message[d] # NoMsg => message[d].at \in Nat /\ message[d].at <= clock
                                          /\ message[d].at # m.at
      <4>1. message'[d] = message[d] /\ message[d] \in Msg \cup {NoMsg}
        BY <2>3, <3>3 DEF TypeOK
      <4> QED
        BY <2>1, <2>2, <4>1, NoMsgIsNone DEF Stamps
    <3>4. message'[c] = m
      BY <2>3 DEF TypeOK
    <3>5. \A d \in Clients : message'[d] # NoMsg => message'[d].at <= clock'
      BY <2>1, <2>2, <3>3, <3>4
    <3>6. \A d \in Clients : message'[d] # NoMsg =>
            \A n \in db : n.at = message'[d].at => n = message'[d]
      BY <3>2, <3>3, <3>4 DEF Stamps
    <3>7. \A d, e \in Clients :
            message'[d] # NoMsg /\ message'[e] # NoMsg /\ message'[e].at = message'[d].at => e = d
      BY <3>3, <3>4 DEF Stamps
    <3> QED
      BY <3>1, <3>2, <3>5, <3>6, <3>7 DEF Stamps
  <2> QED
    BY <2>4, <2>5, <2>6
<1>3. CASE Persist(c)
  <2>1. message[c] \in Msg /\ message[c].from = c /\ message[c] # NoMsg
    BY <1>3, NoMsgIsNone DEF Persist, Control
  <2>2. TypeOK'
    BY <1>3, <2>1 DEF TypeOK, Persist
  <2>3. Control'
    BY <1>1, <1>3, <2>1 DEF TypeOK, Control, Persist
  <2>4. Stamps'
    <3>1. \A m \in db : m.from \in Clients
      BY NoMsgIsNone DEF TypeOK
    <3>2. db' \subseteq db \cup {message[c]} /\ UNCHANGED <<clock, message>>
      BY <1>3 DEF Persist
    <3>3. Stamped(db')
      BY <2>1, <3>2 DEF Stamps, Stamped
    <3>4. \A m \in db' : /\ m.at <= clock
                         /\ pc'[m.from] \in {"reading", "persist", "broadcast", "sending", "gone"}
      BY <1>3, <2>1, <3>1, <3>2 DEF TypeOK, Stamps, Persist
    <3>5. \A d \in Clients : message[d] # NoMsg =>
            /\ message[d].at <= clock
            /\ \A m \in db' : m.at = message[d].at => m = message[d]
            /\ \A e \in Clients :
                 message[e] # NoMsg /\ message[e].at = message[d].at => e = d
      BY <2>1, <3>2 DEF Stamps
    <3> QED
      BY <3>2, <3>3, <3>4, <3>5 DEF Stamps
  <2> QED
    BY <2>2, <2>3, <2>4
<1>4. ASSUME NEW t \in todo[c], Send(c, t) PROVE TypeCorrect'
  <2>1. message[c] \in Msg /\ t \in Clients
    BY <1>4 DEF Send, TypeOK, Control
  <2>2. /\ stream' \in [Clients -> Seq(Msg)] /\ lost' \in [Clients -> SUBSET Msg]
        /\ \A d \in Clients : Len(stream'[d]) >= Len(stream[d])
    BY <1>4, <2>1, Sent DEF Send, TypeOK
  <2>3. \A d \in Clients : drained[d] <= Len(stream'[d])
    <3> SUFFICES ASSUME NEW d \in Clients PROVE drained[d] <= Len(stream'[d])
      OBVIOUS
    <3>1. stream[d] \in Seq(Msg) /\ stream'[d] \in Seq(Msg)
      BY <2>2 DEF TypeOK
    <3>2. drained[d] \in Nat /\ drained[d] <= Len(stream[d]) /\ Len(stream'[d]) >= Len(stream[d])
      BY <2>2 DEF TypeOK
    <3> HIDE DEF TypeCorrect
    <3> QED
      BY <3>1, <3>2
  <2>4. TypeOK'
    BY <1>4, <2>2, <2>3 DEF TypeOK, Send
  <2>5. Control'
    BY <1>1, <1>4 DEF TypeOK, Control, Send
  <2>6. Stamps'
    BY <1>4, StampsKept DEF TypeOK, Send
  <2> QED
    BY <2>4, <2>5, <2>6
<1>5. CASE Broadcast(c)
  <2>1. Audience(c) \subseteq Clients /\ c \notin Audience(c)
    <3>1. room[c] \in 1..objects /\ objects \in Nat /\ objects <= Cardinality(Clients)
          /\ Cardinality(Clients) \in Nat
      BY <1>5, CountedFinite DEF Broadcast, TypeOK, Control
    <3>2. room[c] \in Objects
      BY <3>1 DEF Objects
    <3> QED
      BY <3>2 DEF Audience, TypeOK
  <2>2. todo' = [todo EXCEPT ![c] = Audience(c)] /\ pc' = [pc EXCEPT ![c] = "sending"]
        /\ pc[c] = "broadcast"
    BY <1>5 DEF Broadcast
  <2>3. TypeOK'
    BY <1>5, <2>1, <2>2 DEF TypeOK, Broadcast
  <2>4. Control'
    BY <1>1, <1>5, <2>1, <2>2 DEF TypeOK, Control, Broadcast
  <2>5. Stamps'
    <3>1. UNCHANGED <<clock, message, db>>
      BY <1>5 DEF Broadcast
    <3> QED
      BY <2>2, <3>1, StampsKept DEF TypeOK
  <2> QED
    BY <2>3, <2>4, <2>5
<1>6. CASE BroadcastDone(c) \/ Panic(c) \/ Leave(c)
  <2>1. /\ UNCHANGED <<db, clock, hub, objects, room>>
        /\ pc[c] \in {"reading", "sending"}
        /\ pc' = [pc EXCEPT ![c] = IF BroadcastDone(c) THEN "reading" ELSE "gone"]
        /\ message' = [message EXCEPT ![c] = NoMsg]
        /\ todo' = [todo EXCEPT ![c] = {}]
    <3>1. Leave(c) => message[c] = NoMsg /\ todo[c] = {}
      BY DEF Leave, Control
    <3>2. BroadcastDone(c) => todo[c] = {} /\ ~Panic(c) /\ ~Leave(c)
      BY DEF BroadcastDone, Panic, Leave
    <3>3. message = [message EXCEPT ![c] = message[c]] /\ todo = [todo EXCEPT ![c] = todo[c]]
      BY DEF TypeOK
    <3> QED
      BY <1>6, <3>1, <3>2, <3>3 DEF BroadcastDone, Panic, Leave, Remove
  <2>2. TypeOK'
    <3>1. /\ pc' \in [Clients -> {"out", "create", "enlist", "query", "replay", "reading",
                                  "persist", "broadcast", "sending", "gone"}]
          /\ message' \in [Clients -> Msg \cup {NoMsg}]
          /\ todo' \in [Clients -> SUBSET Clients]
      BY <2>1 DEF TypeOK
    <3>2. members' \in [Objects -> SUBSET Clients]
      <4>1. CASE BroadcastDone(c)
        BY <4>1 DEF BroadcastDone, TypeOK
      <4>2. CASE Remove(c)
        BY <4>2 DEF Remove, TypeOK
      <4> QED
        BY <1>6, <4>1, <4>2 DEF Panic, Leave
    <3>3. skipped' \in [Clients -> SUBSET Msg]
      <4>1. CASE Panic(c)
        <5>1. message[c] \in Msg
          BY <4>1 DEF Panic, Control
        <5> QED
          BY <4>1, <5>1 DEF Panic, TypeOK
      <4> QED
        BY <1>6, <4>1 DEF BroadcastDone, Leave, TypeOK
    <3>4. /\ history' \in [Clients -> Seq(Msg)] /\ stream' \in [Clients -> Seq(Msg)]
          /\ replayed' \in [Clients -> Nat] /\ drained' \in [Clients -> Nat]
          /\ lost' \in [Clients -> SUBSET Msg]
          /\ \A d \in Clients : /\ Len(history'[d]) <= HistoryLimit
                                /\ replayed'[d] <= Len(history'[d])
                                /\ drained'[d] <= Len(stream'[d])
      <4>1. CASE BroadcastDone(c)
        BY <4>1 DEF BroadcastDone, TypeOK
      <4>2. CASE Remove(c)
        <5>1. TypeOK
          OBVIOUS
        <5>2. ASSUME NEW d \in Clients
              PROVE  /\ Len(history'[d]) <= HistoryLimit
                     /\ replayed'[d] <= Len(history'[d])
                     /\ drained'[d] <= Len(stream'[d])
          <6>1. CASE d = c
            <7>1. /\ history'[d] = <<>> /\ replayed'[d] = 0
                  /\ stream'[d] = <<>> /\ drained'[d] = 0
              BY <4>2, <5>1, <6>1, RemovedFrame
            <7>2. Len(<<>>) = 0 /\ Len(<<>>) <= HistoryLimit
              BY <4>2, <5>1, RemovedFrame
            <7> QED
              BY <7>1, <7>2
          <6>2. CASE d # c
            <7>1. /\ history'[d] = history[d] /\ replayed'[d] = replayed[d]
                  /\ stream'[d] = stream[d] /\ drained'[d] = drained[d]
              BY <4>2, <5>1, <6>2, RemovedFrame
            <7> QED
              BY <7>1 DEF TypeOK
          <6> QED
            BY <6>1, <6>2
        <5> QED
          BY <4>2, <5>1, <5>2, RemovedFrame
      <4> QED
        BY <1>6, <4>1, <4>2 DEF Panic, Leave
    <3> QED
      BY <2>1, <3>1, <3>2, <3>3, <3>4 DEF TypeOK
  <2>3. Control'
    <3>1. ASSUME NEW d \in Clients, d # c
          PROVE  /\ pc'[d] = pc[d] /\ message'[d] = message[d] /\ todo'[d] = todo[d]
                 /\ history'[d] = history[d] /\ replayed'[d] = replayed[d]
      <4>1. pc'[d] = pc[d] /\ message'[d] = message[d] /\ todo'[d] = todo[d]
        BY <2>1, <3>1 DEF TypeOK
      <4> QED
        BY <1>6, <3>1, <4>1 DEF BroadcastDone, Panic, Leave, Remove, TypeOK
    <3>2. pc'[c] \in {"reading", "gone"} /\ message'[c] = NoMsg /\ todo'[c] = {}
      BY <2>1 DEF TypeOK
    <3> QED
      BY <1>1, <2>1, <3>1, <3>2 DEF Control
  <2>4. Stamps'
    <3>1. /\ \A m \in db : m.from \in Clients
          /\ \A d \in Clients : message'[d] # NoMsg => message'[d] = message[d]
          /\ \A d \in Clients : pc[d] \in {"reading", "persist", "broadcast", "sending", "gone"}
                 => pc'[d] \in {"reading", "persist", "broadcast", "sending", "gone"}
      BY <2>1, NoMsgIsNone DEF TypeOK
    <3>2. Stamped(db')
      BY <2>1 DEF Stamps
    <3> QED
      BY <2>1, <3>1, <3>2 DEF Stamps
  <2> QED
    BY <2>2, <2>3, <2>4
<1>7. CASE Drain(c)
  <2>1. drained' \in [Clients -> Nat] /\ \A d \in Clients : drained'[d] <= Len(stream[d])
    BY <1>7 DEF Drain, TypeOK
  <2>2. TypeOK'
    BY <1>7, <2>1 DEF TypeOK, Drain
  <2>3. Control'
    BY <1>1, <1>7 DEF TypeOK, Control, Drain
  <2>4. Stamps'
    BY <1>7, StampsKept DEF TypeOK, Drain
  <2> QED
    BY <2>2, <2>3, <2>4
<1> QED
  BY <1>2, <1>3, <1>4, <1>5, <1>6, <1>7 DEF Chat

LEMMA TypeStep == TypeCorrect /\ [Next]_vars => TypeCorrect'
<1> SUFFICES ASSUME TypeCorrect, [Next]_vars PROVE TypeCorrect'
  OBVIOUS
<1>1. CASE UNCHANGED vars
  BY <1>1 DEF vars, TypeCorrect, TypeOK, Control, Stamps, Counted
<1>2. ASSUME NEW c \in Clients, Join(c) PROVE TypeCorrect'
  BY <1>2, TypeJoin, TypeReplay DEF Join
<1>3. ASSUME NEW c \in Clients, Chat(c) PROVE TypeCorrect'
  BY <1>3, TypeChat
<1> QED
  BY <1>1, <1>2, <1>3 DEF Next, Terminated

\* Every handler has the room object, the message and the history its place in the
\* code says, and no handler has a room object nobody created (ws_handler.go:59-94).
THEOREM TypeCorrectness == Spec => []TypeOK
<1>1. Spec => []TypeCorrect
  BY TypeInit, TypeStep, PTL DEF Spec
<1> QED
  BY <1>1, PTL DEF TypeCorrect

-------------------------------------------------------------------------------
(* A client that got its history misses nothing.                           *)

\* A client is in the object its handler works with.
Member == \A c \in Clients :
  pc[c] \in {"query", "replay", "reading", "persist", "broadcast", "sending"} => c \in members[room[c]]

Reached(c, m) ==
  \/ m.from = c \/ room[m.from] # room[c]
  \/ m \in Range(history[c])
  \/ Len(history[c]) = HistoryLimit /\ \A h \in Range(history[c]) : h.at > m.at
  \/ m \in Range(stream[c]) \cup lost[c] \cup skipped[c]
  \/ Coming(c, m)

GapInv == TypeCorrect /\ Member /\ NoGap

LEMMA NoGapIsReached ==
  NoGap <=> \A c \in Clients : Inside(c) /\ history[c] # <<>> => \A m \in db : Reached(c, m)
  BY DEF NoGap, Reached

LEMMA GapInit == Init => GapInv
<1> SUFFICES ASSUME Init PROVE GapInv
  OBVIOUS
<1>1. Member
  BY DEF Init, Member
<1>2. NoGap
  BY DEF Init, NoGap, Inside
<1> QED
  BY <1>1, <1>2, TypeInit DEF GapInv

LEMMA MemberStep ==
  ASSUME TypeCorrect, Member, NEW c \in Clients, Join(c) \/ Chat(c)
  PROVE  Member'
<1> SUFFICES ASSUME NEW d \in Clients,
                    pc'[d] \in {"query", "replay", "reading", "persist", "broadcast", "sending"}
             PROVE  d \in members'[room'[d]]
  BY DEF Member
<1> USE DEF TypeCorrect, Goto
<1>1. CASE Refuse(c) \/ GetRoom(c) \/ CreateRoom(c)
  <2>1. d # c /\ pc'[d] = pc[d] /\ room'[d] = room[d] /\ members' = members
    BY <1>1 DEF Refuse, GetRoom, CreateRoom, TypeOK
  <2> QED
    BY <2>1 DEF Member
<1>2. CASE Add(c)
  <2>1. room[c] \in DOMAIN members /\ room[d] \in DOMAIN members
    <3>1. \A e \in Clients : pc[e] \notin {"out", "create", "gone"} => room[e] \in 1..objects
      BY DEF TypeOK, Control
    <3>2. pc[c] = "enlist" /\ (d # c => pc'[d] = pc[d])
      BY <1>2 DEF Add, TypeOK
    <3>3. objects \in Nat /\ objects <= Cardinality(Clients) /\ Cardinality(Clients) \in Nat
      BY CountedFinite DEF TypeOK
    <3>4. room[c] \in 1..objects /\ room[d] \in 1..objects
      BY <3>1, <3>2
    <3>5. 1..objects \subseteq Objects
      BY <3>3 DEF Objects
    <3> QED
      BY <3>4, <3>5 DEF TypeOK
  <2>2. members' = [members EXCEPT ![room[c]] = @ \cup {c}] /\ room' = room
        /\ (d # c => pc'[d] = pc[d])
    BY <1>2 DEF Add, TypeOK
  <2> QED
    BY <2>1, <2>2 DEF Member
<1>3. CASE \/ FetchHistory(c) \/ Replay(c) \/ Run(c)
           \/ ReadFrame(c) \/ Persist(c) \/ Broadcast(c) \/ BroadcastDone(c) \/ Drain(c)
           \/ \E t \in todo[c] : Send(c, t)
  <2>1. /\ pc[d] \in {"query", "replay", "reading", "persist", "broadcast", "sending"}
        /\ UNCHANGED <<members, room>>
    BY <1>3 DEF FetchHistory, Replay, Run, ReadFrame, Persist, Broadcast, BroadcastDone, Send,
                Drain, TypeOK
  <2> QED
    BY <2>1 DEF Member
<1>4. CASE Panic(c) \/ Leave(c)
  <2>1. /\ d # c /\ pc'[d] = pc[d] /\ room' = room
        /\ members' = [members EXCEPT ![room[c]] = @ \ {c}]
    BY <1>4 DEF Panic, Leave, Remove, TypeOK
  <2>2. d \in members[room[d]]
    BY <2>1 DEF Member
  <2> QED
    BY <2>1, <2>2 DEF TypeOK
<1> QED
  BY <1>1, <1>2, <1>3, <1>4 DEF Join, Chat

\* The answer of the history query, and what it leaves out.
LEMMA Fetched ==
  ASSUME TypeCorrect, NEW c \in Clients, FetchHistory(c), history'[c] # <<>>
  PROVE  /\ history'[c] \in Descending(Newest(db))
         /\ \A m \in db : \/ m \in Range(history'[c])
                          \/ /\ Len(history'[c]) = HistoryLimit
                             /\ \A h \in Range(history'[c]) : h.at > m.at
<1>1. history[c] = <<>> /\ c \in DOMAIN history
  BY DEF TypeCorrect, TypeOK, Control, FetchHistory
<1>2. PICK s \in Descending(Newest(db)) : history' = [history EXCEPT ![c] = s]
  BY <1>1 DEF FetchHistory
<1>3. history'[c] = s
  BY <1>1, <1>2
<1>4. db \in SUBSET Msg /\ Stamped(db)
  BY DEF TypeCorrect, TypeOK, Stamps
<1>5. Newest(db) \in SUBSET Msg
  BY <1>4, NewestBound
<1>6. Len(s) = Cardinality(Newest(db)) /\ Range(s) = Newest(db)
  BY <1>5, DescendingSequence
<1>7. ASSUME NEW m \in db, m \notin Newest(db)
      PROVE  Len(s) = HistoryLimit /\ \A h \in Range(s) : h.at > m.at
  BY <1>4, <1>6, <1>7, NewestFull
<1> QED
  BY <1>2, <1>3, <1>6, <1>7

LEMMA GapStep ==
  ASSUME GapInv, NEW c \in Clients, Join(c) \/ Chat(c)
  PROVE  NoGap'
<1> USE DEF GapInv, TypeCorrect, Goto
<1> SUFFICES ASSUME NEW d \in Clients, Inside(d)', history'[d] # <<>>, NEW m \in db'
             PROVE  Reached(d, m)'
  BY DEF NoGap, Reached
<1>1. ASSUME Inside(d), history[d] # <<>>, m \in db PROVE Reached(d, m)
  BY <1>1, NoGapIsReached
<1>2. db \subseteq Msg /\ \A n \in db : n.from \in Clients
  BY NoMsgIsNone DEF TypeOK
<1>3. CASE \/ Refuse(c) \/ GetRoom(c) \/ CreateRoom(c) \/ Add(c) \/ Run(c) \/ Drain(c)
  <2>1. /\ UNCHANGED <<history, stream, lost, db, message, todo, skipped>>
        /\ Inside(d) /\ room'[d] = room[d]
    BY <1>3 DEF Refuse, GetRoom, CreateRoom, Add, Run, Drain, Inside, TypeOK
  <2>2. room'[m.from] = room[m.from] /\ (pc[m.from] # "sending" => pc'[m.from] # "sending")
    <3>1. pc[m.from] \in {"reading", "persist", "broadcast", "sending", "gone"}
      BY <2>1 DEF Stamps
    <3>2. m.from \in Clients
      BY <1>2, <2>1
    <3> QED
      BY <1>3, <3>1, <3>2 DEF Refuse, GetRoom, CreateRoom, Add, Run, Drain, TypeOK
  <2>3. Reached(d, m)
    BY <1>1, <2>1
  <2> QED
    BY <2>1, <2>2, <2>3 DEF Reached, Coming
<1>4. CASE FetchHistory(c)
  <2>1. UNCHANGED <<stream, lost, db, message, todo, skipped, room>>
    BY <1>4 DEF FetchHistory
  <2>2. CASE d = c
    BY <1>4, <2>1, <2>2, Fetched DEF Reached
  <2>3. CASE d # c
    <3>1. history'[d] = history[d] /\ Inside(d)
      BY <1>4, <2>3 DEF FetchHistory, TypeOK, Inside
    <3>2. Reached(d, m)
      BY <1>1, <2>1, <3>1
    <3>3. pc[m.from] # "sending" => pc'[m.from] # "sending"
      BY <1>2, <1>4, <2>1 DEF FetchHistory, TypeOK
    <3> QED
      BY <2>1, <3>1, <3>2, <3>3 DEF Reached, Coming
  <2> QED
    BY <2>2, <2>3
<1>5. CASE Replay(c)
  <2>1. /\ UNCHANGED <<history, db, message, todo, skipped, room, pc>> /\ Inside(d)
    BY <1>5 DEF Replay, Inside
  <2>2. NextOfHistory(c) \in Msg
    <3>1. Len(history[c]) - replayed[c] \in 1..Len(history[c])
      BY <1>5 DEF Replay, TypeOK
    <3> QED
      BY <3>1 DEF TypeOK, NextOfHistory
  <2>3. Range(stream[d]) \cup lost[d] \subseteq Range(stream'[d]) \cup lost'[d]
    BY <1>5, <2>2, Sent DEF Replay, TypeOK
  <2>4. Reached(d, m)
    BY <1>1, <2>1
  <2> QED
    BY <2>1, <2>3, <2>4 DEF Reached, Coming
<1>6. CASE ReadFrame(c)
  <2>1. /\ UNCHANGED <<history, stream, lost, db, todo, skipped, room>> /\ Inside(d)
        /\ message[c] = NoMsg /\ pc'[c] = "persist"
        /\ \A e \in Clients : e # c => message'[e] = message[e] /\ pc'[e] = pc[e]
    BY <1>6 DEF ReadFrame, Inside, TypeOK, Control
  <2>2. Reached(d, m)
    BY <1>1, <2>1
  <2>3. Coming(d, m) => Coming(d, m)'
    BY <1>2, <2>1, NoMsgIsNone DEF Coming
  <2> QED
    BY <2>1, <2>2, <2>3 DEF Reached
<1>7. CASE Persist(c)
  <2>1. /\ UNCHANGED <<history, stream, lost, message, todo, skipped, room>> /\ Inside(d)
        /\ message[c].from = c /\ pc'[c] = "broadcast"
        /\ \A e \in Clients : e # c => pc'[e] = pc[e]
    BY <1>7 DEF Persist, Inside, TypeOK, Control
  <2>2. CASE m \in db
    <3>1. Reached(d, m)
      BY <1>1, <2>1, <2>2
    <3> QED
      BY <1>2, <2>1, <2>2, <3>1 DEF Reached, Coming
  <2>3. CASE m = message[c]
    BY <2>1, <2>3 DEF Reached, Coming
  <2> QED
    BY <1>7, <2>2, <2>3 DEF Persist
<1>8. CASE Broadcast(c)
  <2>1. /\ UNCHANGED <<history, stream, lost, skipped, message, db, room>> /\ Inside(d)
        /\ todo' = [todo EXCEPT ![c] = Audience(c)] /\ pc' = [pc EXCEPT ![c] = "sending"]
    BY <1>8 DEF Broadcast, Inside, TypeOK
  <2>2. Reached(d, m)
    BY <1>1, <2>1
  <2>3. CASE m.from = c /\ m.from # d /\ room[m.from] = room[d] /\ Coming(d, m)
    <3>1. d \in members[room[d]]
      BY <2>1 DEF Member, Inside
    <3>2. d \in Audience(c)
      BY <2>3, <3>1 DEF Audience
    <3> QED
      BY <2>1, <2>3, <3>2 DEF Reached, Coming, TypeOK
  <2>4. CASE m.from # c /\ Coming(d, m)
    BY <1>2, <2>1, <2>4 DEF Reached, Coming, TypeOK
  <2> QED
    BY <2>1, <2>2, <2>3, <2>4 DEF Reached
<1>9. ASSUME NEW t \in todo[c], Send(c, t) PROVE Reached(d, m)'
  <2>1. /\ UNCHANGED <<history, db, room, message, skipped, pc>> /\ Inside(d)
        /\ message[c] \in Msg /\ message[c].from = c /\ t \in Clients
        /\ todo' = [todo EXCEPT ![c] = @ \ {t}]
    BY <1>9 DEF Send, Inside, TypeOK, Control
  <2>2. /\ Range(stream[d]) \cup lost[d] \subseteq Range(stream'[d]) \cup lost'[d]
        /\ d = t => message[c] \in Range(stream'[d]) \cup lost'[d]
    BY <1>9, <2>1, Sent DEF Send, TypeOK
  <2>3. Reached(d, m)
    BY <1>1, <2>1
  <2>4. Coming(d, m) => Coming(d, m)' \/ (d = t /\ m = message[c])
    BY <1>2, <2>1 DEF Coming, TypeOK
  <2> QED
    BY <2>1, <2>2, <2>3, <2>4 DEF Reached
<1>10. CASE BroadcastDone(c)
  <2>1. /\ UNCHANGED <<history, stream, lost, db, todo, skipped, room>> /\ Inside(d)
        /\ pc[c] = "sending" /\ todo[c] = {}
        /\ \A e \in Clients : e # c => message'[e] = message[e] /\ pc'[e] = pc[e]
    BY <1>10 DEF BroadcastDone, Inside, TypeOK
  <2>2. Reached(d, m)
    BY <1>1, <2>1
  <2>3. Coming(d, m) => Coming(d, m)'
    BY <1>2, <2>1 DEF Coming
  <2> QED
    BY <2>1, <2>2, <2>3 DEF Reached
<1>11. CASE Panic(c) \/ Leave(c)
  <2>1. /\ UNCHANGED <<db, room>> /\ d # c /\ Inside(d) /\ pc[d] # "gone"
        /\ history'[d] = history[d] /\ stream'[d] = stream[d] /\ lost'[d] = lost[d]
    BY <1>11, RemovedFrame DEF Panic, Leave, Remove, Inside, TypeOK
  <2>2. Reached(d, m) /\ m.from \in Clients
    BY <1>1, <1>2, <2>1
  <2>3. CASE Leave(c)
    <3>1. /\ UNCHANGED <<message, todo>> /\ skipped'[d] = skipped[d]
          /\ \A e \in Clients : pc[e] # "sending" => pc'[e] # "sending"
      BY <2>1, <2>3 DEF Leave, Remove, TypeOK
    <3> QED
      BY <2>1, <2>2, <3>1 DEF Reached, Coming
  <2>4. CASE Panic(c)
    <3>1. /\ pc[c] = "sending" /\ message[c] \in Msg /\ message[c].from = c
          /\ \A e \in Clients : e # c =>
               message'[e] = message[e] /\ todo'[e] = todo[e] /\ pc'[e] = pc[e]
      BY <2>4 DEF Panic, Remove, Control, TypeOK
    <3>2. /\ skipped[d] \subseteq skipped'[d]
          /\ d \in todo[c] => message[c] \in skipped'[d]
      BY <2>1, <2>4 DEF Panic
    <3>3. Coming(d, m) => Coming(d, m)' \/ m \in skipped'[d]
      BY <2>2, <3>1, <3>2 DEF Coming
    <3> QED
      BY <2>1, <2>2, <3>2, <3>3 DEF Reached
  <2> QED
    BY <1>11, <2>3, <2>4
<1> QED
  BY <1>3, <1>4, <1>5, <1>6, <1>7, <1>8, <1>9, <1>10, <1>11 DEF Join, Chat

LEMMA GapInvStep == GapInv /\ [Next]_vars => GapInv'
<1> SUFFICES ASSUME GapInv, [Next]_vars PROVE GapInv'
  OBVIOUS
<1>1. TypeCorrect'
  BY TypeStep DEF GapInv
<1>2. CASE UNCHANGED vars
  BY <1>1, <1>2 DEF vars, GapInv, Member, NoGap, Inside, Coming
<1>3. ASSUME NEW c \in Clients, Join(c) \/ Chat(c) PROVE GapInv'
  BY <1>1, <1>3, MemberStep, GapStep DEF GapInv
<1> QED
  BY <1>2, <1>3 DEF Next, Terminated

\* A client that got its history misses no stored message of its room object but what a
\* departure breaks off: it has it in the history, in its channel, dropped on the record
\* or still to come, or a full history of newer ones (ws_handler.go:88-91,
\* client.go:84-107, room.go:64-75).
THEOREM NothingMissed == Spec => []NoGap
<1>1. Spec => []GapInv
  BY GapInit, GapInvStep, PTL DEF Spec
<1> QED
  BY <1>1, PTL DEF GapInv

-------------------------------------------------------------------------------
(* The history comes oldest first, and nothing comes twice but what is in it. *)

\* The part of its history a client has been sent.
SentOf(c) == {history[c][i] : i \in (Len(history[c]) - replayed[c] + 1)..Len(history[c])}

\* A history is newest first, and of others.
Descends == \A c \in Clients :
  /\ \A i, j \in 1..Len(history[c]) : i < j => history[c][i].at > history[c][j].at
  /\ \A h \in Range(history[c]) : h.from # c
  /\ \A m \in Range(stream[c]) : m.from # c

\* A message is broadcast to a client once, and sent once from its history.
Past(c, m) == m.at <= clock /\ ~Coming(c, m)
Positions(s, m) == {i \in DOMAIN s : s[i] = m}
Counts == \A c \in Clients : \A m \in Msg :
  Cardinality(Positions(stream[c], m)) <=
    (IF Past(c, m) THEN 1 ELSE 0) + (IF m \in SentOf(c) THEN 1 ELSE 0)

\* What was sent from the history is in the channel, in order where it is there once,
\* or was dropped.
Once(c, i) ==
  /\ stream[c][i] \in SentOf(c) \ lost[c]
  /\ \A k \in DOMAIN stream[c] : stream[c][k] = stream[c][i] => k = i
InOrder == \A c \in Clients :
  /\ SentOf(c) \subseteq Range(stream[c]) \cup lost[c]
  /\ \A i, j \in DOMAIN stream[c] :
       Once(c, i) /\ Once(c, j) /\ stream[c][i].at < stream[c][j].at => i < j

OrderInv == TypeCorrect /\ Descends /\ Counts /\ InOrder

LEMMA AppendPositions ==
  ASSUME NEW s \in Seq(Msg), NEW e \in Msg, NEW m
  PROVE  /\ IsFiniteSet(Positions(s, m)) /\ Cardinality(Positions(s, m)) \in Nat
         /\ m # e => Positions(Append(s, e), m) = Positions(s, m)
         /\ Cardinality(Positions(Append(s, e), m)) <= Cardinality(Positions(s, m)) + 1
<1>1. DOMAIN s = 1..Len(s) /\ Len(s) \in Nat
  OBVIOUS
<1>2. DOMAIN Append(s, e) = 1..(Len(s) + 1)
  OBVIOUS
<1>3. \A i \in 1..Len(s) : Append(s, e)[i] = s[i]
  OBVIOUS
<1>4. Append(s, e)[Len(s) + 1] = e
  OBVIOUS
<1>5. 1..(Len(s) + 1) = 1..Len(s) \cup {Len(s) + 1}
  BY <1>1
<1>6. Positions(s, m) \subseteq 1..Len(s) /\ IsFiniteSet(1..Len(s))
  BY <1>1, FS_Interval DEF Positions
<1>7. IsFiniteSet(Positions(s, m)) /\ Cardinality(Positions(s, m)) \in Nat
  BY <1>6, FS_Subset, FS_CardinalityType
<1>8. m # e => Positions(Append(s, e), m) = Positions(s, m)
  BY <1>1, <1>2, <1>3, <1>4, <1>5 DEF Positions
<1>9. m = e => Positions(Append(s, e), m) = Positions(s, m) \cup {Len(s) + 1}
  <2> SUFFICES ASSUME m = e
               PROVE  Positions(Append(s, e), e) = Positions(s, e) \cup {Len(s) + 1}
    OBVIOUS
  <2>1. Positions(Append(s, e), e) = {i \in 1..Len(s) \cup {Len(s) + 1} : Append(s, e)[i] = e}
    BY <1>2, <1>5 DEF Positions
  <2>2. Positions(s, e) = {i \in 1..Len(s) : Append(s, e)[i] = e}
    BY <1>1, <1>3 DEF Positions
  <2> QED
    BY <1>4, <2>1, <2>2
<1>10. Cardinality(Positions(s, m) \cup {Len(s) + 1}) <= Cardinality(Positions(s, m)) + 1
  <2> DEFINE P == Positions(s, m)
  <2> HIDE DEF P
  <2>1. IsFiniteSet(P) /\ Cardinality(P) \in Nat
    BY <1>7 DEF P
  <2>2. Cardinality(P \cup {Len(s) + 1}) =
          IF Len(s) + 1 \in P THEN Cardinality(P) ELSE Cardinality(P) + 1
    BY <2>1, FS_AddElement
  <2>3. Cardinality(P \cup {Len(s) + 1}) <= Cardinality(P) + 1
    BY <2>1, <2>2
  <2> QED
    BY <2>3 DEF P
<1>11. CASE m = e
  BY <1>7, <1>9, <1>10, <1>11
<1>12. CASE m # e
  BY <1>7, <1>8, <1>12
<1> QED
  BY <1>11, <1>12

LEMMA OrderInit == Init => OrderInv
<1> SUFFICES ASSUME Init PROVE OrderInv
  OBVIOUS
<1>1. ASSUME NEW c \in Clients
      PROVE  /\ history[c] = <<>> /\ stream[c] = <<>> /\ replayed[c] = 0
             /\ Len(history[c]) = 0 /\ SentOf(c) = {}
  BY <1>1 DEF Init, SentOf
<1>2. Descends
  BY <1>1 DEF Descends, Range
<1>3. \A m : Positions(<<>>, m) = {}
  <2>1. DOMAIN <<>> = {}
    OBVIOUS
  <2> QED
    BY <2>1 DEF Positions
<1>4. Counts
  <2>1. \A c \in Clients : \A m \in Msg : Cardinality(Positions(stream[c], m)) = 0
    BY <1>1, <1>3, FS_EmptySet
  <2> QED
    BY <2>1 DEF Counts
<1>5. InOrder
  BY <1>1 DEF InOrder, Range
<1> QED
  BY <1>2, <1>4, <1>5, TypeInit DEF OrderInv

\* What the replay sends next is newer than all it has sent.
LEMMA NextIsNewer ==
  ASSUME TypeCorrect, Descends, NEW c \in Clients, Replay(c)
  PROVE  /\ NextOfHistory(c) \in Range(history[c]) /\ NextOfHistory(c) \in Msg
         /\ \A m \in SentOf(c) : NextOfHistory(c).at > m.at
         /\ SentOf(c)' = SentOf(c) \cup {NextOfHistory(c)}
         /\ \A d \in Clients : d # c => SentOf(d)' = SentOf(d)
<1> DEFINE k == Len(history[c]) - replayed[c]
<1>1. /\ k \in 1..Len(history[c]) /\ history[c] \in Seq(Msg)
      /\ replayed[c] \in Nat /\ Len(history[c]) \in Nat
  BY DEF Replay, TypeCorrect, TypeOK
<1>2. history' = history /\ replayed' = [replayed EXCEPT ![c] = @ + 1] /\ c \in DOMAIN replayed
  BY DEF Replay, TypeCorrect, TypeOK
<1>3. replayed'[c] = replayed[c] + 1 /\ \A d \in Clients : d # c => replayed'[d] = replayed[d]
  BY <1>2 DEF TypeCorrect, TypeOK
<1>4. NextOfHistory(c) = history[c][k]
  BY DEF NextOfHistory
<1>5. NextOfHistory(c) \in Range(history[c]) /\ NextOfHistory(c) \in Msg
  BY <1>1, <1>4 DEF Range
<1>6. \A m \in SentOf(c) : NextOfHistory(c).at > m.at
  <2>1. \A i \in (k + 1)..Len(history[c]) : history[c][k].at > history[c][i].at
    BY <1>1 DEF Descends
  <2> QED
    BY <1>4, <2>1 DEF SentOf
<1>7. SentOf(c)' = SentOf(c) \cup {NextOfHistory(c)}
  <2>1. SentOf(c)' = {history[c][i] : i \in (Len(history[c]) - (replayed[c] + 1) + 1)..Len(history[c])}
    BY <1>2, <1>3 DEF SentOf
  <2>2. (Len(history[c]) - (replayed[c] + 1) + 1)..Len(history[c])
          = {k} \cup (k + 1)..Len(history[c])
    BY <1>1
  <2>3. SentOf(c) = {history[c][i] : i \in (k + 1)..Len(history[c])}
    BY DEF SentOf
  <2> QED
    BY <1>4, <2>1, <2>2, <2>3
<1>8. \A d \in Clients : d # c => SentOf(d)' = SentOf(d)
  BY <1>2, <1>3 DEF SentOf
<1> QED
  BY <1>5, <1>6, <1>7, <1>8

\* The steps that put nothing into a channel and send nothing of a history.
Silent(c) == \/ Refuse(c) \/ GetRoom(c) \/ CreateRoom(c) \/ Add(c) \/ FetchHistory(c)
             \/ Run(c) \/ ReadFrame(c) \/ Persist(c) \/ Broadcast(c) \/ BroadcastDone(c) \/ Drain(c)

LEMMA SilentSteps ==
  ASSUME NEW c \in Clients, Join(c) \/ Chat(c)
  PROVE  Silent(c) \/ Replay(c) \/ (\E t \in todo[c] : Send(c, t)) \/ Panic(c) \/ Leave(c)
  BY DEF Join, Chat, Silent

LEMMA SilentFrame ==
  ASSUME TypeCorrect, NEW c \in Clients, Silent(c)
  PROVE  /\ UNCHANGED <<stream, lost>>
         /\ \A d \in Clients : SentOf(d)' = SentOf(d)
         /\ \A d \in Clients : \A m \in Msg : Past(d, m) => Past(d, m)'
<1> USE DEF TypeCorrect, Goto
<1>1. UNCHANGED <<stream, lost, replayed>>
  BY DEF Silent, Refuse, GetRoom, CreateRoom, Add, FetchHistory, Run, ReadFrame, Persist,
         Broadcast, BroadcastDone, Drain
<1>2. ASSUME NEW d \in Clients PROVE SentOf(d)' = SentOf(d)
  <2>1. CASE history'[d] = history[d]
    BY <1>1, <2>1 DEF SentOf
  <2>2. CASE history'[d] # history[d]
    <3>1. FetchHistory(c)
      BY <2>2 DEF Silent, Refuse, GetRoom, CreateRoom, Add, Run, ReadFrame, Persist,
                  Broadcast, BroadcastDone, Drain
    <3>2. d = c
      BY <2>2, <3>1 DEF FetchHistory, TypeOK
    <3>3. replayed[d] = 0 /\ replayed'[d] = 0
      BY <1>1, <3>1, <3>2 DEF FetchHistory, Control
    <3>4. history[d] \in Seq(Msg) /\ history'[d] \in Seq(Msg)
      <4>1. TypeOK'
        BY <3>1, TypeReplay
      <4> QED
        BY <4>1 DEF TypeOK
    <3>5. SentOf(d) = {} /\ SentOf(d)' = {}
      BY <3>3, <3>4 DEF SentOf
    <3> QED
      BY <3>5
  <2> QED
    BY <2>1, <2>2
<1>3. ASSUME NEW d \in Clients, NEW m \in Msg, Past(d, m) PROVE Past(d, m)'
  <2>0. m.at \in Nat /\ m.from \in Clients
    BY NoMsgIsNone
  <2>1. CASE ReadFrame(c)
    <3>1. /\ clock \in Nat /\ clock' = clock + 1 /\ todo' = todo
          /\ message' = [message EXCEPT ![c] = [from |-> c, at |-> clock + 1]]
          /\ pc[c] = "reading" /\ pc' = [pc EXCEPT ![c] = "persist"]
      BY <2>1, BoundAssumption DEF ReadFrame, TypeOK
    <3>2. m # [from |-> c, at |-> clock + 1]
      BY <1>3, <2>0, <3>1 DEF Past
    <3>3. message'[m.from] = m => message[m.from] = m /\ m.from # c
      BY <2>0, <3>1, <3>2 DEF TypeOK
    <3> QED
      BY <1>3, <2>0, <3>1, <3>3 DEF Past, Coming, TypeOK
  <2>2. CASE BroadcastDone(c)
    <3>1. /\ UNCHANGED <<clock, todo>> /\ message' = [message EXCEPT ![c] = NoMsg]
          /\ pc' = [pc EXCEPT ![c] = "reading"]
      BY <2>2 DEF BroadcastDone
    <3>2. message'[m.from] = m => message[m.from] = m /\ m.from # c
      BY <2>0, <3>1, NoMsgIsNone DEF TypeOK
    <3> QED
      BY <1>3, <2>0, <3>1, <3>2 DEF Past, Coming, TypeOK
  <2>3. CASE Broadcast(c)
    <3>1. /\ UNCHANGED <<clock, message>> /\ todo' = [todo EXCEPT ![c] = Audience(c)]
          /\ pc[c] = "broadcast" /\ pc' = [pc EXCEPT ![c] = "sending"]
      BY <2>3 DEF Broadcast
    <3> QED
      BY <1>3, <2>0, <3>1 DEF Past, Coming, TypeOK
  <2>4. CASE UNCHANGED <<clock, message, todo>> /\ pc'[c] # "sending" /\ pc[c] # "sending"
             /\ \A e \in Clients : e # c => pc'[e] = pc[e]
    BY <1>3, <2>0, <2>4 DEF Past, Coming
  <2>5. CASE Drain(c)
    BY <1>3, <2>5 DEF Drain, Past, Coming
  <2> QED
    BY <2>1, <2>2, <2>3, <2>4, <2>5 DEF Silent, Refuse, GetRoom, CreateRoom, Add, FetchHistory,
                                        Run, Persist, TypeOK
<1> QED
  BY <1>1, <1>2, <1>3

\* A handler that ends leaves nothing behind, and adds to no channel.
LEMMA GoneFrame ==
  ASSUME TypeCorrect, NEW c \in Clients, Panic(c) \/ Leave(c)
  PROVE  /\ history'[c] = <<>> /\ stream'[c] = <<>> /\ SentOf(c)' = {}
         /\ \A d \in Clients : d # c => /\ stream'[d] = stream[d] /\ lost'[d] = lost[d]
                                       /\ history'[d] = history[d]
                                       /\ SentOf(d)' = SentOf(d)
         /\ \A d \in Clients : \A m \in Msg : Past(d, m) => Past(d, m)'
<1>1. Remove(c) /\ TypeOK
  BY DEF Panic, Leave, TypeCorrect
<1>2. SentOf(c)' = {}
  BY <1>1, RemovedFrame DEF SentOf
<1>3. \A d \in Clients : d # c => SentOf(d)' = SentOf(d)
  BY <1>1, RemovedFrame DEF SentOf
<1>4. ASSUME NEW d \in Clients, NEW m \in Msg, Past(d, m) PROVE Past(d, m)'
  <2>1. m.from \in Clients /\ clock' = clock
    BY <1>1, NoMsgIsNone DEF Remove
  <2>2. message'[m.from] = m => /\ message[m.from] = m /\ m.from # c
                                /\ todo'[m.from] = todo[m.from]
    <3>1. CASE Panic(c)
      BY <2>1, <3>1, NoMsgIsNone DEF Panic, TypeCorrect, TypeOK
    <3>2. CASE Leave(c)
      <4>1. pc[c] = "reading" /\ UNCHANGED <<message, todo>>
        BY <3>2 DEF Leave
      <4>2. message[c] = NoMsg
        BY <4>1 DEF TypeCorrect, Control
      <4> QED
        BY <2>1, <4>1, <4>2, NoMsgIsNone
    <3> QED
      BY <3>1, <3>2
  <2>3. pc' = [pc EXCEPT ![c] = "gone"]
    BY <1>1 DEF Remove, Goto
  <2> QED
    BY <1>1, <1>4, <2>1, <2>2, <2>3 DEF Past, Coming, TypeOK
<1> QED
  BY <1>1, <1>2, <1>3, <1>4, RemovedFrame

LEMMA DescendsStep ==
  ASSUME TypeCorrect, Descends, NEW c \in Clients, Join(c) \/ Chat(c)
  PROVE  Descends'
<1> USE DEF TypeCorrect, Goto
<1>1. CASE FetchHistory(c)
  <2>1. UNCHANGED stream /\ \A d \in Clients : d # c => history'[d] = history[d]
    BY <1>1 DEF FetchHistory, TypeOK
  <2>2. CASE history'[c] = history[c]
    <3>1. \A d \in Clients : history'[d] = history[d]
      BY <2>1, <2>2
    <3> QED
      BY <2>1, <3>1 DEF Descends
  <2>3. CASE history'[c] # history[c]
    <3>1. history'[c] \in Descending(Newest(db))
      <4>1. history[c] = <<>>
        BY <1>1 DEF FetchHistory, Control
      <4> QED
        BY <1>1, <2>3, <4>1, Fetched
    <3>2. Newest(db) \subseteq db /\ Newest(db) \in SUBSET Msg
      BY NewestBound DEF TypeOK, Stamps
    <3>3. /\ Range(history'[c]) = Newest(db)
          /\ \A i, j \in 1..Len(history'[c]) : i < j => history'[c][i].at > history'[c][j].at
      BY <3>1, <3>2, DescendingSequence
    <3>4. \A h \in db : h.from # c
      BY <1>1 DEF Stamps, FetchHistory
    <3> QED
      BY <2>1, <3>2, <3>3, <3>4 DEF Descends
  <2> QED
    BY <2>2, <2>3
<1>2. CASE Silent(c) /\ ~ FetchHistory(c)
  <2>1. UNCHANGED <<stream, history>>
    BY <1>2 DEF Silent, Refuse, GetRoom, CreateRoom, Add, Run, ReadFrame, Persist, Broadcast,
                BroadcastDone, Drain
  <2> QED
    BY <2>1 DEF Descends
<1>3. ASSUME NEW t \in Clients, NEW m \in Msg, SendRaw(t, m), UNCHANGED history, m.from # t
      PROVE  Descends'
  <2>1. ASSUME NEW d \in Clients PROVE \A n \in Range(stream'[d]) : n.from # d
    <3>1. \/ d = t /\ stream'[d] = Append(stream[d], m)
          \/ stream'[d] = stream[d]
      BY <1>3, Sent DEF TypeOK
    <3>2. Range(Append(stream[d], m)) = Range(stream[d]) \cup {m}
      BY AppendRange DEF TypeOK
    <3> QED
      BY <1>3, <3>1, <3>2 DEF Descends
  <2> QED
    BY <1>3, <2>1 DEF Descends
<1>4. CASE Replay(c)
  <2>1. NextOfHistory(c) \in Msg /\ NextOfHistory(c).from # c
    BY <1>4, NextIsNewer DEF Descends
  <2> QED
    BY <1>3, <1>4, <2>1 DEF Replay
<1>5. ASSUME NEW t \in todo[c], Send(c, t) PROVE Descends'
  <2>1. message[c] \in Msg /\ message[c].from = c /\ t \in Clients /\ t # c
    BY <1>5 DEF Send, Control, TypeOK
  <2> QED
    BY <1>3, <1>5, <2>1 DEF Send
<1>6. CASE Panic(c) \/ Leave(c)
  <2>1. Range(<<>>) = {} /\ 1..Len(<<>>) = {}
    BY DEF Range
  <2> QED
    BY <1>6, <2>1, GoneFrame DEF Descends
<1> QED
  BY <1>1, <1>2, <1>4, <1>5, <1>6, SilentSteps

LEMMA CountsStep ==
  ASSUME TypeCorrect, Descends, Counts, NEW c \in Clients, Join(c) \/ Chat(c)
  PROVE  Counts'
<1> USE DEF TypeCorrect, Goto
<1> SUFFICES ASSUME NEW d \in Clients, NEW m \in Msg
             PROVE  Cardinality(Positions(stream'[d], m)) <=
                      (IF Past(d, m)' THEN 1 ELSE 0) + (IF m \in SentOf(d)' THEN 1 ELSE 0)
  BY DEF Counts
<1>1. /\ Cardinality(Positions(stream[d], m)) \in Nat
      /\ Cardinality(Positions(stream[d], m)) <=
           (IF Past(d, m) THEN 1 ELSE 0) + (IF m \in SentOf(d) THEN 1 ELSE 0)
  BY AppendPositions DEF Counts, TypeOK
<1>2. CASE Silent(c)
  BY <1>1, <1>2, SilentFrame
<1>3. ASSUME NEW t \in Clients, NEW x \in Msg, SendRaw(t, x)
      PROVE  /\ Cardinality(Positions(stream'[d], m)) \in Nat
             /\ Cardinality(Positions(stream'[d], m)) <= Cardinality(Positions(stream[d], m)) + 1
             /\ d # t \/ m # x => stream'[d] = stream[d]
                                       \/ Positions(stream'[d], m) = Positions(stream[d], m)
  <2>1. /\ stream'[d] \in Seq(Msg)
        /\ \/ d = t /\ stream'[d] = Append(stream[d], x)
           \/ stream'[d] = stream[d]
    BY <1>3, Sent DEF TypeOK
  <2>2. stream[d] \in Seq(Msg)
    BY DEF TypeOK
  <2>3. Cardinality(Positions(stream'[d], m)) \in Nat
    BY <2>1, AppendPositions
  <2>4. CASE stream'[d] = stream[d]
    BY <1>1, <2>3, <2>4
  <2>5. CASE d = t /\ stream'[d] = Append(stream[d], x)
    BY <2>2, <2>3, <2>5, AppendPositions
  <2> QED
    BY <2>1, <2>4, <2>5
<1>4. CASE Replay(c)
  <2> DEFINE x == NextOfHistory(c)
  <2>1. /\ x \in Msg /\ x \notin SentOf(c)
        /\ SentOf(c)' = SentOf(c) \cup {x}
        /\ \A e \in Clients : e # c => SentOf(e)' = SentOf(e)
    <3>1. /\ x \in Msg /\ \A n \in SentOf(c) : x.at > n.at
          /\ SentOf(c)' = SentOf(c) \cup {x}
          /\ \A e \in Clients : e # c => SentOf(e)' = SentOf(e)
      BY <1>4, NextIsNewer
    <3>2. ~ x.at > x.at
      BY <3>1, NoMsgIsNone
    <3> QED
      BY <3>1, <3>2
  <2>2. SendRaw(c, x) /\ (Past(d, m)' <=> Past(d, m))
    BY <1>4 DEF Replay, Past, Coming
  <2> HIDE DEF x
  <2>3. CASE d = c /\ m = x
    BY <1>1, <1>3, <2>1, <2>2, <2>3
  <2>4. CASE d # c \/ m # x
    <3>1. Cardinality(Positions(stream'[d], m)) = Cardinality(Positions(stream[d], m))
      BY <1>3, <2>1, <2>2, <2>4
    <3>2. m \in SentOf(d) <=> m \in SentOf(d)'
      BY <2>1, <2>4
    <3> QED
      BY <1>1, <2>2, <3>1, <3>2
  <2> QED
    BY <2>3, <2>4
<1>5. CASE \E t \in todo[c] : Send(c, t)
  <2> PICK t \in todo[c] : Send(c, t)
    BY <1>5
  <2> DEFINE x == message[c]
  <2>1. /\ x \in Msg /\ x.from = c /\ t \in Clients /\ SendRaw(t, x) /\ pc[c] = "sending"
        /\ UNCHANGED <<history, replayed, clock, message, pc>>
        /\ todo' = [todo EXCEPT ![c] = @ \ {t}]
    BY DEF Send, Control, TypeOK
  <2>2. SentOf(d)' = SentOf(d)
    BY <2>1 DEF SentOf
  <2>3. Past(d, m) => Past(d, m)'
    BY <2>1, NoMsgIsNone DEF Past, Coming, TypeOK
  <2>4. CASE m = x /\ d = t
    <3>1. ~Past(d, m) /\ Past(d, m)'
      <4>1. m.from = c /\ m.at <= clock
        BY <2>1, <2>4, NoMsgIsNone DEF Stamps
      <4> QED
        BY <2>1, <2>4, <4>1 DEF Past, Coming, TypeOK
    <3> HIDE DEF x
    <3> QED
      BY <1>1, <1>3, <2>1, <2>2, <2>4, <3>1
  <2>5. CASE m # x \/ d # t
    <3>1. Cardinality(Positions(stream'[d], m)) = Cardinality(Positions(stream[d], m))
      BY <1>3, <2>1, <2>5
    <3> HIDE DEF x
    <3> QED
      BY <1>1, <2>2, <2>3, <3>1
  <2> QED
    BY <2>4, <2>5
<1>6. CASE Panic(c) \/ Leave(c)
  <2>1. CASE d = c
    <3>1. Positions(<<>>, m) = {}
      BY DEF Positions
    <3> QED
      BY <1>6, <2>1, <3>1, GoneFrame, FS_EmptySet
  <2>2. CASE d # c
    BY <1>1, <1>6, <2>2, GoneFrame
  <2> QED
    BY <2>1, <2>2
<1> QED
  BY <1>2, <1>4, <1>5, <1>6, SilentSteps

\* An append leaves the old positions, and makes what it repeats be there twice.
LEMMA AppendOnce ==
  ASSUME TypeCorrect, NEW d \in Clients, NEW x \in Msg, NEW n, n = Len(stream[d]),
         stream'[d] = Append(stream[d], x), lost'[d] = lost[d]
  PROVE  /\ DOMAIN stream[d] = 1..n /\ n \in Nat
         /\ DOMAIN stream'[d] = 1..n \cup {n + 1} /\ n + 1 \notin 1..n
         /\ \A i \in 1..n : stream'[d][i] = stream[d][i]
         /\ stream'[d][n + 1] = x
         /\ \A i \in 1..n :
              Once(d, i)' => /\ stream[d][i] # x
                             /\ stream[d][i] \in SentOf(d) => Once(d, i)
         /\ Once(d, n + 1)' => x \notin Range(stream[d])
<1> DEFINE s == stream[d]
<1>1. s \in Seq(Msg)
  BY DEF TypeCorrect, TypeOK
<1>2. /\ DOMAIN s = 1..n /\ n \in Nat
      /\ DOMAIN Append(s, x) = 1..(n + 1)
      /\ \A i \in 1..n : Append(s, x)[i] = s[i]
      /\ Append(s, x)[n + 1] = x
  <2>1. n = Len(s)
    OBVIOUS
  <2> HIDE DEF s
  <2> QED
    BY <1>1, <2>1
<1>3. 1..(n + 1) = 1..n \cup {n + 1} /\ n + 1 \notin 1..n
  BY <1>2
<1>4. ASSUME NEW i \in 1..n, Once(d, i)'
      PROVE  s[i] # x /\ (s[i] \in SentOf(d) => Once(d, i))
  <2>1. /\ s[i] \notin lost[d]
        /\ \A k \in 1..(n + 1) : stream'[d][k] = s[i] => k = i
    BY <1>2, <1>3, <1>4 DEF Once
  <2> QED
    BY <1>2, <1>3, <2>1 DEF Once
<1>5. ASSUME Once(d, n + 1)' PROVE x \notin Range(s)
  <2>1. \A k \in 1..(n + 1) : stream'[d][k] = x => k = n + 1
    BY <1>2, <1>5 DEF Once
  <2> QED
    BY <1>2, <1>3, <2>1 DEF Range
<1> QED
  BY <1>2, <1>3, <1>4, <1>5

LEMMA InOrderStep ==
  ASSUME TypeCorrect, Descends, InOrder, NEW c \in Clients, Join(c) \/ Chat(c)
  PROVE  InOrder'
<1> USE DEF TypeCorrect, Goto
<1> SUFFICES ASSUME NEW d \in Clients
             PROVE  /\ SentOf(d)' \subseteq Range(stream'[d]) \cup lost'[d]
                    /\ \A i, j \in DOMAIN stream'[d] :
                         Once(d, i)' /\ Once(d, j)' /\ stream'[d][i].at < stream'[d][j].at
                           => i < j
  BY DEF InOrder
<1>0. PICK n : n = Len(stream[d])
  OBVIOUS
<1>1. /\ SentOf(d) \subseteq Range(stream[d]) \cup lost[d]
      /\ \A i, j \in DOMAIN stream[d] :
           Once(d, i) /\ Once(d, j) /\ stream[d][i].at < stream[d][j].at => i < j
  BY DEF InOrder
<1>2. CASE SentOf(d)' = SentOf(d) /\ stream'[d] = stream[d] /\ lost[d] \subseteq lost'[d]
  <2>1. \A i \in DOMAIN stream[d] : Once(d, i)' => Once(d, i)
    BY <1>2 DEF Once
  <2> QED
    BY <1>1, <1>2, <2>1
<1>3. CASE Silent(c)
  BY <1>2, <1>3, SilentFrame
<1>4. CASE \E t \in todo[c] : Send(c, t)
  <2> PICK t \in todo[c] : Send(c, t)
    BY <1>4
  <2> DEFINE x == message[c]
  <2>1. /\ x \in Msg /\ t \in Clients /\ SendRaw(t, x) /\ UNCHANGED <<history, replayed>>
    BY DEF Send, Control, TypeOK
  <2>2. SentOf(d)' = SentOf(d)
    BY <2>1 DEF SentOf
  <2> HIDE DEF x
  <2>3. /\ Range(stream[d]) \cup lost[d] \subseteq Range(stream'[d]) \cup lost'[d]
        /\ \/ stream'[d] = Append(stream[d], x) /\ lost'[d] = lost[d]
           \/ stream'[d] = stream[d] /\ lost[d] \subseteq lost'[d]
    BY <2>1, Sent DEF TypeOK
  <2>4. CASE stream'[d] = Append(stream[d], x) /\ lost'[d] = lost[d]
    <3>1. \A i \in 1..n : Once(d, i)' => Once(d, i)
      <4>1. ASSUME NEW i \in 1..n, Once(d, i)' PROVE stream[d][i] \in SentOf(d)
        BY <2>1, <2>2, <2>4, <4>1, <1>0, AppendOnce DEF Once
      <4> QED
        BY <2>1, <2>4, <4>1, <1>0, AppendOnce
    <3>2. ~ Once(d, n + 1)'
      <4> SUFFICES ASSUME Once(d, n + 1)' PROVE FALSE
        OBVIOUS
      <4>1. x \notin Range(stream[d]) /\ x = stream'[d][n + 1]
        BY <2>1, <2>4, <1>0, AppendOnce
      <4>2. x \in SentOf(d) \ lost[d]
        BY <2>2, <2>4, <4>1 DEF Once
      <4> QED
        BY <1>1, <4>1, <4>2
    <3>3. /\ DOMAIN stream[d] = 1..n /\ n \in Nat
          /\ DOMAIN stream'[d] = 1..n \cup {n + 1}
          /\ \A i \in 1..n : stream'[d][i] = stream[d][i]
      BY <2>1, <2>4, <1>0, AppendOnce
    <3>5. ASSUME NEW i \in DOMAIN stream'[d], Once(d, i)'
          PROVE  i \in DOMAIN stream[d] /\ Once(d, i) /\ stream'[d][i] = stream[d][i]
      BY <3>1, <3>2, <3>3, <3>5
    <3> QED
      BY <1>1, <2>2, <2>3, <3>5
  <2>5. CASE stream'[d] = stream[d] /\ lost[d] \subseteq lost'[d]
    BY <1>2, <2>2, <2>5
  <2> QED
    BY <2>3, <2>4, <2>5
<1>5. CASE Replay(c)
  <2> DEFINE x == NextOfHistory(c)
  <2>1. /\ x \in Msg /\ \A h \in SentOf(c) : x.at > h.at
        /\ SentOf(c)' = SentOf(c) \cup {x}
        /\ \A e \in Clients : e # c => SentOf(e)' = SentOf(e)
    BY <1>5, NextIsNewer
  <2>2. SendRaw(c, x)
    BY <1>5 DEF Replay
  <2> HIDE DEF x
  <2>3. /\ Range(stream[d]) \cup lost[d] \subseteq Range(stream'[d]) \cup lost'[d]
        /\ d = c => x \in Range(stream'[d]) \cup lost'[d]
        /\ \/ d = c /\ stream'[d] = Append(stream[d], x) /\ lost'[d] = lost[d]
           \/ d = c /\ stream'[d] = stream[d] /\ lost'[d] = lost[d] \cup {x}
           \/ d # c /\ stream'[d] = stream[d] /\ lost'[d] = lost[d]
    BY <2>1, <2>2, Sent DEF TypeOK
  <2>4. SentOf(d)' \subseteq Range(stream'[d]) \cup lost'[d]
    BY <1>1, <2>1, <2>3
  <2>5. CASE d = c /\ stream'[d] = Append(stream[d], x) /\ lost'[d] = lost[d]
    <3>1. \A i \in 1..n : Once(d, i)' => Once(d, i) /\ stream[d][i] \in SentOf(d)
      <4>1. ASSUME NEW i \in 1..n, Once(d, i)' PROVE stream[d][i] \in SentOf(d)
        <5>1. stream[d][i] # x /\ stream'[d][i] = stream[d][i]
          BY <2>1, <2>5, <4>1, <1>0, AppendOnce
        <5>2. stream'[d][i] \in SentOf(d)'
          BY <4>1 DEF Once
        <5> QED
          BY <2>1, <2>5, <5>1, <5>2
      <4> QED
        BY <2>1, <2>5, <4>1, <1>0, AppendOnce
    <3>2. /\ DOMAIN stream[d] = 1..n /\ n \in Nat
          /\ DOMAIN stream'[d] = 1..n \cup {n + 1}
          /\ \A i \in 1..n : stream'[d][i] = stream[d][i]
          /\ stream'[d][n + 1] = x
      BY <2>1, <2>5, <1>0, AppendOnce
    <3> SUFFICES ASSUME NEW i \in DOMAIN stream'[d], NEW j \in DOMAIN stream'[d],
                        Once(d, i)', Once(d, j)', stream'[d][i].at < stream'[d][j].at
                 PROVE  i < j
      BY <2>4
    <3>3. i \in 1..n \/ i = n + 1
      BY <3>2
    <3>4. j \in 1..n \/ j = n + 1
      BY <3>2
    <3>5. CASE i \in 1..n /\ j \in 1..n
      BY <1>1, <3>1, <3>2, <3>5
    <3>6. CASE i \in 1..n /\ j = n + 1
      BY <3>2, <3>6
    <3>7. CASE i = n + 1 /\ j \in 1..n
      <4>1. stream[d][j] \in SentOf(d) /\ stream[d][j] \in Msg
        <5>1. stream[d] \in Seq(Msg) /\ j \in 1..Len(stream[d])
          BY <1>0, <3>7 DEF TypeOK
        <5>2. stream[d][j] \in Msg
          BY <5>1
        <5> QED
          BY <3>1, <3>7, <5>2
      <4>2. x.at > stream[d][j].at /\ x.at < stream[d][j].at
        BY <2>1, <2>5, <3>2, <3>7, <4>1
      <4> QED
        BY <2>1, <4>1, <4>2, NoMsgIsNone
    <3>8. CASE i = n + 1 /\ j = n + 1
      <4>1. x.at < x.at
        BY <3>2, <3>8
      <4> QED
        BY <2>1, <4>1, NoMsgIsNone
    <3> QED
      BY <3>3, <3>4, <3>5, <3>6, <3>7, <3>8
  <2>6. CASE d = c /\ stream'[d] = stream[d] /\ lost'[d] = lost[d] \cup {x}
    <3>1. \A i \in DOMAIN stream[d] : Once(d, i)' => Once(d, i)
      BY <2>1, <2>6 DEF Once
    <3> QED
      BY <1>1, <2>4, <2>6, <3>1
  <2>7. CASE d # c /\ stream'[d] = stream[d] /\ lost'[d] = lost[d]
    BY <1>2, <2>1, <2>7
  <2> QED
    BY <2>3, <2>5, <2>6, <2>7
<1>6. CASE Panic(c) \/ Leave(c)
  <2>1. CASE d = c
    <3>1. DOMAIN <<>> = {}
      OBVIOUS
    <3> QED
      BY <1>6, <2>1, <3>1, GoneFrame
  <2>2. CASE d # c
    BY <1>2, <1>6, <2>2, GoneFrame
  <2> QED
    BY <2>1, <2>2
<1> QED
  BY <1>3, <1>4, <1>5, <1>6, SilentSteps

LEMMA OrderInvStep == OrderInv /\ [Next]_vars => OrderInv'
<1> SUFFICES ASSUME OrderInv, [Next]_vars PROVE OrderInv'
  OBVIOUS
<1>1. TypeCorrect'
  BY TypeStep DEF OrderInv
<1>2. CASE UNCHANGED vars
  BY <1>1, <1>2 DEF vars, OrderInv, Descends, Counts, InOrder, Past, Coming, SentOf, Once
<1>3. ASSUME NEW c \in Clients, Join(c) \/ Chat(c) PROVE OrderInv'
  BY <1>1, <1>3, DescendsStep, CountsStep, InOrderStep DEF OrderInv
<1> QED
  BY <1>2, <1>3 DEF Next, Terminated

LEMMA OrderInvariant == Spec => []OrderInv
  BY OrderInit, OrderInvStep, PTL DEF Spec

LEMMA TwiceFromOrder == OrderInv => TwiceOnlyAsHistory
<1> SUFFICES ASSUME OrderInv, NEW c \in Clients, NEW m \in Range(stream[c])
             PROVE  /\ m.from # c
                    /\ Cardinality(Positions(stream[c], m)) <=
                         IF m \in Range(history[c]) THEN 2 ELSE 1
  BY DEF TwiceOnlyAsHistory, Positions
<1> USE DEF OrderInv, TypeCorrect
<1>1. stream[c] \in Seq(Msg)
  BY DEF TypeOK
<1>2. m \in Msg
  BY <1>1 DEF Range
<1>3. /\ Cardinality(Positions(stream[c], m)) \in Nat
      /\ Cardinality(Positions(stream[c], m)) <=
           (IF Past(c, m) THEN 1 ELSE 0) + (IF m \in SentOf(c) THEN 1 ELSE 0)
  BY <1>1, <1>2, AppendPositions DEF Counts
<1>4. m \in SentOf(c) => m \in Range(history[c])
  <2>1. history[c] \in Seq(Msg) /\ replayed[c] \in Nat /\ replayed[c] <= Len(history[c])
    BY DEF TypeOK
  <2>2. (Len(history[c]) - replayed[c] + 1)..Len(history[c]) \subseteq DOMAIN history[c]
    BY <2>1
  <2> QED
    BY <2>2 DEF SentOf, Range
<1>5. m.from # c
  BY DEF Descends
<1> QED
  BY <1>3, <1>4, <1>5

LEMMA OldestFromOrder == OrderInv => HistoryOldestFirst
<1> SUFFICES ASSUME OrderInv, NEW c \in Clients
             PROVE
    LET old == {i \in DOMAIN stream[c] : stream[c][i] \in Range(history[c])}
        First(m) == CHOOSE i \in old : /\ stream[c][i] = m
                                       /\ \A j \in old : stream[c][j] = m => i <= j
        sent == {history[c][i] : i \in (Len(history[c]) - replayed[c] + 1)..Len(history[c])}
        once == {m \in sent : Cardinality({i \in old : stream[c][i] = m}) = 1} \ lost[c]
    IN \A m, n \in once : m.at < n.at => First(m) < First(n)
  BY DEF HistoryOldestFirst
<1> DEFINE old == {i \in DOMAIN stream[c] : stream[c][i] \in Range(history[c])}
           First(m) == CHOOSE i \in old : /\ stream[c][i] = m
                                          /\ \A j \in old : stream[c][j] = m => i <= j
           sent == {history[c][i] : i \in (Len(history[c]) - replayed[c] + 1)..Len(history[c])}
           once == {m \in sent : Cardinality({i \in old : stream[c][i] = m}) = 1} \ lost[c]
<1>1. /\ stream[c] \in Seq(Msg) /\ history[c] \in Seq(Msg)
      /\ replayed[c] \in Nat /\ replayed[c] <= Len(history[c])
  BY DEF OrderInv, TypeCorrect, TypeOK
<1>2. DOMAIN stream[c] \subseteq Nat /\ IsFiniteSet(DOMAIN stream[c])
  <2>1. DOMAIN stream[c] = 1..Len(stream[c]) /\ Len(stream[c]) \in Nat
    BY <1>1
  <2> QED
    BY <2>1, FS_Interval
<1>3. sent = SentOf(c) /\ sent \subseteq Range(history[c])
  <2>1. (Len(history[c]) - replayed[c] + 1)..Len(history[c]) \subseteq DOMAIN history[c]
    BY <1>1
  <2> QED
    BY <2>1 DEF SentOf, Range
<1>4. ASSUME NEW m \in once
      PROVE  /\ First(m) \in DOMAIN stream[c] /\ stream[c][First(m)] = m
             /\ Once(c, First(m))
  <2>1. m \in sent /\ m \notin lost[c] /\ Cardinality({i \in old : stream[c][i] = m}) = 1
    OBVIOUS
  <2>2. IsFiniteSet({i \in old : stream[c][i] = m})
    BY <1>2, FS_Subset
  <2>3. PICK p : {i \in old : stream[c][i] = m} = {p}
    BY <2>1, <2>2, FS_Singleton
  <2>4. p \in old /\ stream[c][p] = m /\ \A j \in old : stream[c][j] = m => p <= j
    <3>1. p \in old /\ stream[c][p] = m /\ \A j \in old : stream[c][j] = m => j = p
      BY <2>3
    <3>2. p \in Nat
      BY <1>2, <3>1
    <3> QED
      BY <3>1, <3>2
  <2>5. First(m) \in old /\ stream[c][First(m)] = m
    <3> HIDE DEF old
    <3> QED
      BY <2>4
  <2>6. \A k \in DOMAIN stream[c] : stream[c][k] = m => k = First(m)
    <3>1. First(m) = p
      BY <2>3, <2>5
    <3>2. \A k \in DOMAIN stream[c] : stream[c][k] = m => k \in old
      BY <1>3, <2>1
    <3> QED
      BY <2>3, <3>1, <3>2
  <2> QED
    BY <1>3, <2>1, <2>5, <2>6 DEF Once
<1>5. ASSUME NEW m \in once, NEW n \in once, m.at < n.at PROVE First(m) < First(n)
  <2> HIDE DEF First, once
  <2>1. /\ First(m) \in DOMAIN stream[c] /\ First(n) \in DOMAIN stream[c]
        /\ Once(c, First(m)) /\ Once(c, First(n))
        /\ stream[c][First(m)].at < stream[c][First(n)].at
    BY <1>4, <1>5
  <2> QED
    BY <2>1 DEF OrderInv, InOrder
<1> QED
  BY <1>5

\* The stored messages enter the channel oldest first, whatever arrives in between
\* (ws_handler.go:103-133).
THEOREM OldestFirst == Spec => []HistoryOldestFirst
  BY OrderInvariant, OldestFromOrder, PTL

\* A message is in the channel twice only if it is in the history too, never more
\* often, and never in its sender's (ws_handler.go:88-91, room.go:66).
THEOREM TwiceAtMost == Spec => []TwiceOnlyAsHistory
  BY OrderInvariant, TwiceFromOrder, PTL
===============================================================================
