----------------------------- MODULE TypingProofs -----------------------------
(***************************************************************************)
(* Proofs about Typing: how long a name can stay on the screen, for any    *)
(* authors and any debounce, TTL, refresh period and delay.                *)
(***************************************************************************)
EXTENDS Typing, TLAPS

\* A tick makes an age one older, or leaves it at its cap.
LEMMA OlderAge ==
  ASSUME NEW cap \in Nat, NEW age \in 0..cap
  PROVE  /\ Older(age, cap) \in 0..cap
         /\ Older(age, cap) <= age + 1
         /\ age < cap => Older(age, cap) = age + 1
  BY DEF Older

\* The caps are numbers.
LEMMA Caps ==
  /\ Longest \in Nat /\ Settled \in Nat
  /\ Debounce + MaxDelay + 1 \in Nat /\ TTL + Refresh + 1 \in Nat
  /\ Refresh \in Nat /\ TTL \in Nat /\ KeyGap \in Nat /\ MaxDelay \in Nat /\ Debounce \in Nat
  BY TimesAssumption DEF Longest, Settled, Slower

-------------------------------------------------------------------------------
(* The types.                                                              *)

\* The refresh tick bounds what is in typingUsers: an entry is younger than the
\* TTL at the tick, and ages with it.
Fresh == \A a \in Authors : typing[a] <= TTL + refresh

\* A message sent is on its way to the viewer, or nowhere.
LEMMA BroadcastAdds ==
  ASSUME NEW a, NEW k, Broadcast(a, k), wire \subseteq Frame,
         orphans \subseteq 1..MaxOrphans, a \in Authors, k \in {"typing", "chat"}
  PROVE  /\ wire' \subseteq Frame
         /\ Heard = {} => wire' = wire
         /\ \A f \in wire' : f \in wire \/ (f.from = a /\ f.kind = k /\ f.age = 0)
<1>1. Heard \subseteq 0..MaxOrphans
  BY BoundAssumption DEF Heard
<1>2. \A f \in Frames(a, k, Heard) :
         f \in Frame /\ f.from = a /\ f.kind = k /\ f.age = 0
  BY <1>1, TimesAssumption DEF Frames, Frame
<1>3. Heard = {} => Frames(a, k, Heard) = {}
  BY DEF Frames
<1>4. wire' = wire \cup Frames(a, k, Heard)
  BY DEF Broadcast
<1> HIDE DEF Frames
<1> QED
  BY <1>2, <1>3, <1>4

\* Time makes the frames older.
LEMMA TickWire ==
  ASSUME Tick, wire \subseteq Frame
  PROVE  /\ wire' \subseteq Frame
         /\ \A g \in wire' : \E f \in wire : /\ g.age = f.age + 1
                                             /\ g.from = f.from /\ g.kind = f.kind
                                             /\ g.on = f.on
<1> SUFFICES ASSUME NEW g \in wire'
             PROVE  /\ g \in Frame
                    /\ \E f \in wire : /\ g.age = f.age + 1
                                       /\ g.from = f.from /\ g.kind = f.kind
                                       /\ g.on = f.on
  OBVIOUS
<1>1. PICK f \in wire : g = [f EXCEPT !.age = @ + 1]
  BY DEF Tick
<1>2. f.age < MaxDelay /\ f \in Frame
  BY DEF Tick
<1>3. g.age = f.age + 1 /\ g.from = f.from /\ g.kind = f.kind /\ g.on = f.on /\ g \in Frame
  BY <1>1, <1>2, TimesAssumption DEF Frame
<1> QED
  BY <1>3

\* A connection changes no frame but which connection it is on.
LEMMA ConnectedWire ==
  ASSUME wire \subseteq Frame, NEW r, Connected(r)
  PROVE  /\ wire' \subseteq Frame
         /\ \A g \in wire' : \E f \in wire : g.age = f.age /\ g.from = f.from /\ g.kind = f.kind
<1>1. CASE wire' = wire
  BY <1>1
<1>2. ASSUME NEW o \in 1..MaxOrphans,
             wire' = {[f EXCEPT !.on = IF @ = 0 THEN o ELSE @] : f \in wire}
      PROVE  /\ wire' \subseteq Frame
             /\ \A g \in wire' : \E f \in wire : g.age = f.age /\ g.from = f.from /\ g.kind = f.kind
  <2> SUFFICES ASSUME NEW g \in wire'
               PROVE  /\ g \in Frame
                      /\ \E f \in wire : g.age = f.age /\ g.from = f.from /\ g.kind = f.kind
    OBVIOUS
  <2>1. PICK f \in wire : g = [f EXCEPT !.on = IF @ = 0 THEN o ELSE @]
    BY <1>2
  <2>2. f \in Frame /\ o \in 0..MaxOrphans
    BY BoundAssumption
  <2>3. g.age = f.age /\ g.from = f.from /\ g.kind = f.kind /\ g \in Frame
    BY <2>1, <2>2 DEF Frame
  <2> QED
    BY <2>3
<1> QED
  BY <1>1, <1>2 DEF Connected

LEMMA TypeStep ==
  ASSUME TypeOK, Fresh, [Next]_vars
  PROVE  TypeOK' /\ Fresh'
<1> USE DEF authorVars, viewerVars, Absent, Fresh
<1>1. ASSUME NEW a \in Authors, Key(a) PROVE TypeOK' /\ Fresh'
  <2>1. wire' \subseteq Frame
    BY <1>1, BroadcastAdds DEF Key, TypeOK
  <2>2. /\ lastSent' \in [Authors -> 0..(Debounce + MaxDelay + 1)]
        /\ lastKey' \in [Authors -> 0..KeyGap]
        /\ since' \in [Authors -> 0..(Longest + 1)]
    BY <1>1, Caps DEF Key, TypeOK
  <2> QED
    BY <1>1, <2>1, <2>2 DEF Key, TypeOK
<1>2. ASSUME NEW a \in Authors, Enter(a) PROVE TypeOK' /\ Fresh'
  <2>1. wire' \subseteq Frame
    BY <1>2, BroadcastAdds DEF Enter, TypeOK
  <2>2. /\ lastKey' \in [Authors -> 0..KeyGap]
        /\ steady' \in [Authors -> 0..Settled]
    BY <1>2, Caps DEF Enter, TypeOK
  <2> QED
    BY <1>2, <2>1, <2>2 DEF Enter, TypeOK
<1>3. ASSUME NEW f \in wire, Receive(f) PROVE TypeOK' /\ Fresh'
  <2>1. f.from \in Authors
    BY DEF TypeOK, Frame
  <2>2. typing' \in [Authors -> {Absent} \cup 0..(TTL + Refresh)] /\ Fresh'
    BY <1>3, <2>1, Caps DEF Receive, TypeOK
  <2>3. orphans' \subseteq orphans /\ moved' \in 0..(Longest + 1)
    BY <1>3, Caps DEF Receive, TypeOK
  <2> QED
    BY <1>3, <2>2, <2>3 DEF Receive, Render, TypeOK
<1>4. ASSUME NEW f \in wire, Lose(f) PROVE TypeOK' /\ Fresh'
  <2>1. f.from \in Authors
    BY DEF TypeOK, Frame
  <2>2. steady' \in [Authors -> 0..Settled]
    BY <1>4, <2>1, Caps DEF Lose, TypeOK
  <2>3. wire' \subseteq wire
    BY <1>4 DEF Lose
  <2> QED
    BY <1>4, <2>2, <2>3 DEF Lose, TypeOK
<1>5. ASSUME RefreshTick PROVE TypeOK' /\ Fresh'
  <2>1. refresh' = 0
    BY <1>5 DEF RefreshTick, Again
  <2>2. typing' \in [Authors -> {Absent} \cup 0..(TTL + Refresh)] /\ Fresh'
    BY <1>5, <2>1, Caps DEF RefreshTick, Expired, TypeOK
  <2> QED
    BY <1>5, <2>1, <2>2, Caps DEF RefreshTick, Render, TypeOK
<1>6. ASSUME NEW m \in BOOLEAN, Rerender(m) PROVE TypeOK' /\ Fresh'
  BY <1>6 DEF Rerender, Render, TypeOK
<1>7. ASSUME NEW r \in BOOLEAN, Connected(r) PROVE TypeOK' /\ Fresh'
  <2>1. steady' \in [Authors -> 0..Settled] /\ moved' \in 0..(Longest + 1)
    BY <1>7, Caps DEF Connected, TypeOK
  <2>2. wire' \subseteq Frame
    BY <1>7, ConnectedWire DEF TypeOK
  <2>3. orphans' \subseteq 1..MaxOrphans
    BY <1>7 DEF Connected, TypeOK
  <2> QED
    BY <1>7, <2>1, <2>2, <2>3 DEF Connected, Render, TypeOK
<1>8. ASSUME Tick PROVE TypeOK' /\ Fresh'
  <2>1. wire' \subseteq Frame
    BY <1>8, TickWire DEF TypeOK
  <2>2. refresh < Refresh /\ refresh' = refresh + 1
    BY <1>8, Caps DEF Tick, TypeOK, Older
  <2>3. typing' \in [Authors -> {Absent} \cup 0..(TTL + Refresh)] /\ Fresh'
    BY <1>8, <2>2, Caps DEF Tick, TypeOK, Older
  <2>4. /\ lastSent' \in [Authors -> 0..(Debounce + MaxDelay + 1)]
        /\ lastKey' \in [Authors -> 0..KeyGap]
    BY <1>8, Caps, OlderAge DEF Tick, TypeOK
  <2>5. /\ since' \in [Authors -> 0..(Longest + 1)]
        /\ moved' \in 0..(Longest + 1)
    BY <1>8, Caps DEF Tick, TypeOK, Older
  <2>6. steady' \in [Authors -> 0..Settled]
    BY <1>8, Caps, OlderAge DEF Tick, TypeOK
  <2> QED
    BY <1>8, <2>1, <2>2, <2>3, <2>4, <2>5, <2>6, Caps DEF Tick, TypeOK
<1>9. ASSUME NEW o \in orphans, OrphanEnds(o) PROVE TypeOK' /\ Fresh'
  <2>1. orphans' \subseteq orphans /\ moved' \in 0..(Longest + 1)
    BY <1>9, Caps DEF OrphanEnds
  <2> QED
    BY <1>9, <2>1 DEF OrphanEnds, Render, TypeOK
<1>10. ASSUME UNCHANGED vars PROVE TypeOK' /\ Fresh'
  BY <1>10 DEF vars, TypeOK
<1> QED
  BY <1>1, <1>2, <1>3, <1>4, <1>5, <1>6, <1>7, <1>8, <1>9, <1>10 DEF Next

LEMMA TypeHolds == Spec => [](TypeOK /\ Fresh)
<1>1. Init => TypeOK /\ Fresh
  <2> SUFFICES ASSUME Init PROVE TypeOK /\ Fresh
    OBVIOUS
  <2>1. /\ lastSent \in [Authors -> 0..(Debounce + MaxDelay + 1)]
        /\ lastKey \in [Authors -> 0..KeyGap]
        /\ since \in [Authors -> 0..(Longest + 1)]
        /\ steady \in [Authors -> 0..Settled]
    BY Caps DEF Init
  <2>2. /\ typing \in [Authors -> {Absent} \cup 0..(TTL + Refresh)]
        /\ moved \in 0..(Longest + 1)
        /\ refresh \in 0..Refresh
        /\ Fresh
    BY Caps DEF Init, Fresh, Absent
  <2> QED
    BY <2>1, <2>2 DEF Init, TypeOK
<1>2. TypeOK /\ Fresh /\ [Next]_vars => (TypeOK /\ Fresh)'
  BY TypeStep
<1> QED
  BY <1>1, <1>2, PTL DEF Spec

\* Every variable keeps its type; an entry of typingUsers lives no longer than its
\* TTL and the refresh that deletes it (update.go:16-23).
THEOREM TypeCorrect == Spec => []TypeOK
  BY TypeHolds, PTL

-------------------------------------------------------------------------------
(* What is on the screen.                                                  *)

\* Let clock be the age of an event that comes before no typing event of a on its
\* way or shown: a's last typing event, or the viewer's change of room.  It is no
\* older than a frame of a, older than a's entry by the delay at most, and older
\* than what is on the screen by TTL, delay and refresh at most.
Bounded(a, clock) ==
  /\ \A f \in wire : f.from = a /\ f.kind = "typing" => clock <= f.age
  /\ typing[a] # Absent => clock <= typing[a] + MaxDelay
  /\ a \in screen => clock < TTL + MaxDelay + refresh

\* What the screen shows of a user it has just been rendered for.
LEMMA RenderBounds ==
  ASSUME NEW a \in Authors, NEW users \in [Authors -> Int], NEW hidden \in BOOLEAN,
         Render(users, hidden), a \in screen'
  PROVE  users[a] \in 0..(TTL - 1)
  BY DEF Render

\* What the viewer gets or forgets keeps a clock bounded.
LEMMA ViewerBounds ==
  ASSUME TypeOK, TypeOK', NEW a \in Authors, NEW clock \in Nat, Bounded(a, clock),
         \/ \E f \in wire : Receive(f) \/ Lose(f)
         \/ RefreshTick
         \/ \E o \in orphans : OrphanEnds(o)
         \/ \E m \in BOOLEAN : Rerender(m) \/ Connected(m)
  PROVE  Bounded(a, clock)'
<1> USE DEF authorVars, viewerVars, Absent
<1>1. ASSUME NEW f \in wire, Receive(f) PROVE Bounded(a, clock)'
  <2>1. f \in Frame
    BY DEF TypeOK
  <2>2. typing'[a] # Absent => clock <= typing'[a] + MaxDelay
    <3>1. CASE f.from = a /\ f.kind = "typing"
      <4>1. clock <= f.age /\ f.age <= MaxDelay /\ f.age \in Nat
        BY <2>1, <3>1, Caps DEF Bounded, Frame
      <4>2. typing'[a] = 0
        BY <1>1, <2>1, <3>1 DEF Receive, TypeOK, Frame
      <4> QED
        BY <4>1, <4>2, Caps
    <3>2. CASE f.from = a /\ f.kind # "typing"
      BY <1>1, <2>1, <3>2 DEF Receive, TypeOK, Frame
    <3>3. CASE f.from # a
      BY <1>1, <3>3 DEF Receive, TypeOK, Bounded
    <3> QED
      BY <3>1, <3>2, <3>3
  <2>3. a \in screen' => clock < TTL + MaxDelay + refresh'
    <3> SUFFICES ASSUME a \in screen' PROVE clock < TTL + MaxDelay + refresh'
      OBVIOUS
    <3>1. typing'[a] \in 0..(TTL - 1)
      BY <1>1 DEF Receive, Render
    <3>2. PICK n \in Nat : n = refresh'
      BY Caps DEF TypeOK
    <3>3. PICK t \in 0..(TTL - 1) : t = typing'[a]
      BY <3>1
    <3>4. clock <= t + MaxDelay
      BY <2>2, <3>3
    <3>5. clock < TTL + MaxDelay
      BY <3>4, Caps
    <3>6. clock < TTL + MaxDelay + n
      BY <3>5, Caps
    <3> QED
      BY <3>2, <3>6
  <2>4. wire' \subseteq wire
    BY <1>1 DEF Receive
  <2> QED
    BY <2>2, <2>3, <2>4 DEF Bounded
<1>2. ASSUME NEW f \in wire, Lose(f) PROVE Bounded(a, clock)'
  BY <1>2 DEF Lose, Bounded
<1>3. ASSUME RefreshTick PROVE Bounded(a, clock)'
  <2>1. typing'[a] \in {Absent, typing[a]} /\ refresh' = 0 /\ wire' = wire
    BY <1>3 DEF RefreshTick, Again, TypeOK
  <2>2. typing'[a] # Absent => clock <= typing'[a] + MaxDelay
    BY <2>1 DEF Bounded
  <2>3. ASSUME a \in screen' PROVE clock < TTL + MaxDelay + refresh'
    <3>1. typing'[a] \in 0..(TTL - 1)
      BY <1>3, <2>3 DEF RefreshTick, Render
    <3> QED
      BY <2>1, <2>2, <3>1, Caps
  <2> QED
    BY <2>1, <2>2, <2>3 DEF Bounded
<1>4. ASSUME \/ \E o \in orphans : OrphanEnds(o)
             \/ \E m \in BOOLEAN : Rerender(m) \/ Connected(m)
      PROVE  Bounded(a, clock)'
  <2>1. UNCHANGED <<typing, refresh>>
    BY <1>4 DEF OrphanEnds, Rerender, Connected
  <2>2. ASSUME a \in screen' PROVE clock < TTL + MaxDelay + refresh'
    <3>1. typing[a] \in 0..(TTL - 1) /\ refresh \in Nat
      BY <1>4, <2>2, Caps DEF OrphanEnds, Rerender, Connected, Render, TypeOK
    <3>2. clock <= typing[a] + MaxDelay
      BY <3>1 DEF Bounded
    <3> QED
      BY <2>1, <3>1, <3>2, Caps
  <2>3. \A g \in wire' : \E f \in wire : g.age = f.age /\ g.from = f.from /\ g.kind = f.kind
    <3>1. wire' = wire \/ \E m \in BOOLEAN : Connected(m)
      BY <1>4 DEF OrphanEnds, Rerender
    <3> QED
      BY <3>1, ConnectedWire DEF TypeOK
  <2> QED
    BY <2>1, <2>2, <2>3 DEF Bounded
<1> QED
  BY <1>1, <1>2, <1>3, <1>4

\* Time passes for a clock too.
LEMMA TickBounds ==
  ASSUME TypeOK, Fresh, NEW a \in Authors, NEW clock \in Nat, NEW later \in Nat,
         later <= clock + 1, Bounded(a, clock), Tick
  PROVE  Bounded(a, later)'
<1> USE DEF Absent
<1>1. \A g \in wire' : g.from = a /\ g.kind = "typing" => later <= g.age
  <2> SUFFICES ASSUME NEW g \in wire', g.from = a, g.kind = "typing"
               PROVE  later <= g.age
    OBVIOUS
  <2>1. PICK f \in wire : g.age = f.age + 1 /\ g.from = f.from /\ g.kind = f.kind
    BY TickWire DEF TypeOK
  <2>2. f.age \in Nat /\ clock <= f.age
    BY <2>1, Caps DEF Bounded, TypeOK, Frame
  <2> QED
    BY <2>1, <2>2
<1>2. refresh < Refresh /\ refresh' = refresh + 1 /\ refresh \in Nat
  <2>1. refresh \in 0..Refresh
    BY DEF TypeOK
  <2>2. refresh # Refresh /\ refresh' = Older(refresh, Refresh + 1)
    BY DEF Tick
  <2> QED
    BY <2>1, <2>2, Caps DEF Older
<1>3. typing'[a] # Absent => later <= typing'[a] + MaxDelay
  <2> SUFFICES ASSUME typing'[a] # Absent PROVE later <= typing'[a] + MaxDelay
    OBVIOUS
  <2>1. typing[a] \in Nat /\ typing'[a] = Older(typing[a], TTL + Refresh + 1)
    BY Caps DEF Tick, TypeOK
  <2>2. typing[a] <= TTL + refresh
    BY DEF Fresh
  <2>3. typing'[a] = typing[a] + 1
    BY <1>2, <2>1, <2>2, Caps DEF Older
  <2> QED
    BY <2>1, <2>3, Caps DEF Bounded
<1>4. a \in screen' => later < TTL + MaxDelay + refresh'
  BY <1>2, Caps DEF Bounded, Tick
<1> QED
  BY <1>1, <1>3, <1>4 DEF Bounded

SinceInv == \A a \in Authors : Bounded(a, since[a])

\* Nobody stays on the screen who has not sent a typing event within the TTL, the
\* delay and one refresh period (update.go:16-23, view.go:171-191).
THEOREM ShownHaveTyped == Spec => []ShownWasTyping
<1>1. Init => SinceInv
  BY DEF Init, SinceInv, Bounded
<1>2. TypeOK /\ TypeOK' /\ Fresh /\ SinceInv /\ [Next]_vars => SinceInv'
  <2> SUFFICES ASSUME TypeOK, TypeOK', Fresh, SinceInv, [Next]_vars, NEW a \in Authors
               PROVE  Bounded(a, since[a])'
    BY DEF SinceInv
  <2> USE DEF authorVars, viewerVars
  <2>1. Bounded(a, since[a]) /\ since[a] \in Nat /\ since'[a] \in Nat
    BY Caps DEF SinceInv, TypeOK
  <2>2. ASSUME NEW b \in Authors, Key(b) PROVE Bounded(a, since[a])'
    <3>1. UNCHANGED <<typing, screen, refresh>>
      BY <2>2 DEF Key
    <3>2. since'[a] <= since[a] /\ since'[a] \in {0, since[a]}
      BY <2>1, <2>2 DEF Key, TypeOK
    <3>3. ASSUME NEW f \in wire', f.from = a, f.kind = "typing" PROVE since'[a] <= f.age
      <4>1. CASE f \in wire
        <5>1. f.age \in Nat
          BY <4>1, Caps DEF TypeOK, Frame
        <5> QED
          BY <2>1, <3>2, <3>3, <4>1, <5>1 DEF Bounded
      <4>2. CASE f \notin wire
        <5>1. ShouldSendTyping(b) /\ Broadcast(b, "typing")
          BY <2>2, <4>2 DEF Key
        <5>3. f.age = 0 /\ a = b
          BY <3>3, <4>2, <5>1, BroadcastAdds DEF TypeOK
        <5>4. since'[a] = 0
          BY <2>2, <5>1, <5>3 DEF Key, TypeOK
        <5> QED
          BY <5>3, <5>4
      <4> QED
        BY <4>1, <4>2
    <3>4. refresh \in Nat /\ typing[a] \in Int
      BY Caps DEF TypeOK, Absent
    <3> QED
      BY <2>1, <3>1, <3>2, <3>3, <3>4, Caps DEF Bounded
  <2>3. ASSUME NEW b \in Authors, Enter(b) PROVE Bounded(a, since[a])'
    <3>1. UNCHANGED <<typing, screen, refresh, since>>
      BY <2>3 DEF Enter
    <3>2. \A f \in wire' : f.kind = "typing" => f \in wire
      BY <2>3, BroadcastAdds DEF Enter, TypeOK
    <3> QED
      BY <2>1, <3>1, <3>2 DEF Bounded
  <2>4. ASSUME \/ \E f \in wire : Receive(f) \/ Lose(f)
               \/ RefreshTick
               \/ \E o \in orphans : OrphanEnds(o)
               \/ \E m \in BOOLEAN : Rerender(m) \/ Connected(m)
        PROVE  Bounded(a, since[a])'
    <3>1. PICK clock \in Nat : clock = since[a]
      BY <2>1
    <3>2. since' = since
      BY <2>4 DEF Receive, Lose, RefreshTick, OrphanEnds, Rerender, Connected
    <3>3. Bounded(a, clock)'
      BY <2>1, <2>4, <3>1, ViewerBounds
    <3> QED
      BY <3>1, <3>2, <3>3 DEF Bounded
  <2>6. ASSUME Tick PROVE Bounded(a, since[a])'
    <3>1. PICK clock \in Nat : clock = since[a]
      BY <2>1
    <3>2. PICK later \in Nat : later = since'[a]
      BY <2>1
    <3>3. later <= clock + 1
      BY <2>6, <3>1, <3>2, Caps DEF Tick, TypeOK, Older
    <3>4. Bounded(a, later)'
      BY <2>1, <2>6, <3>1, <3>3, TickBounds
    <3> QED
      BY <3>2, <3>4 DEF Bounded
  <2>7. ASSUME UNCHANGED vars PROVE Bounded(a, since[a])'
    BY <2>1, <2>7 DEF vars, Bounded
  <2> QED
    BY <2>2, <2>3, <2>4, <2>6, <2>7 DEF Next
<1>3. TypeOK /\ SinceInv => ShownWasTyping
  BY Caps DEF TypeOK, SinceInv, Bounded, ShownWasTyping, Longest
<1> QED
  BY <1>1, <1>2, <1>3, TypeHolds, PTL DEF Spec

-------------------------------------------------------------------------------
(* After a change of room, or the end of an orphan.                        *)

MovedInv == Heard = {} => \A a \in Authors : Bounded(a, moved)

\* Nothing is heard of the authors' room and nothing has just changed that: then
\* nothing was heard of it before.
LEMMA HeardBefore ==
  ASSUME TypeOK, [Next]_vars, Heard' = {}, ~(moved' = 0 /\ Render(typing', modal'))
  PROVE  Heard = {}
<1> USE DEF authorVars, viewerVars
<1>1. ASSUME NEW f \in wire, Receive(f) PROVE Heard = {}
  <2>1. orphans' = orphans
    BY <1>1 DEF Receive
  <2> QED
    BY <1>1, <2>1 DEF Receive, Heard
<1>2. CASE UNCHANGED <<inRoom, orphans>>
  BY <1>2 DEF Heard
<1> QED
  BY <1>1, <1>2 DEF Next, Key, Enter, Lose, RefreshTick, OrphanEnds, Rerender, Connected, Tick, vars

\* What is left over when a connection to the authors' room ends goes within the TTL, the
\* delay and one refresh period, and only such a connection brings more: the model's own or
\* an orphan (update.go:16-23, commands.go:94; update.go:68-76 leaves typingUsers alone).
THEOREM RoomIsRight == Spec => []RightRoom
<1>1. TypeOK /\ Init => MovedInv
  BY DEF Init, MovedInv, Heard
<1>2. TypeOK /\ TypeOK' /\ Fresh /\ MovedInv /\ [Next]_vars => MovedInv'
  <2> SUFFICES ASSUME TypeOK, TypeOK', Fresh, MovedInv, [Next]_vars, NEW a \in Authors,
                      Heard' = {}
               PROVE  Bounded(a, moved)'
    BY DEF MovedInv
  <2> USE DEF authorVars, viewerVars
  <2>1. moved \in Nat /\ moved' \in Nat
    BY Caps DEF TypeOK
  <2>2. CASE moved' = 0 /\ Render(typing', modal')
    <3>1. \A f \in wire' : f.age \in Nat
      BY Caps DEF TypeOK, Frame
    <3>2. typing'[a] # Absent => 0 <= typing'[a] + MaxDelay
      BY Caps DEF TypeOK
    <3>4. ASSUME a \in screen' PROVE 0 < TTL + MaxDelay + refresh'
      <4>1. typing'[a] \in 0..(TTL - 1) /\ refresh' \in Nat
        BY <2>2, <3>4, Caps DEF Render, TypeOK
      <4>2. TTL > 0
        BY <4>1, Caps
      <4>3. PICK n \in Nat : n = refresh'
        BY <4>1
      <4>4. 0 < TTL + MaxDelay + n
        BY <4>2, Caps
      <4> QED
        BY <4>3, <4>4
    <3> QED
      BY <2>2, <3>1, <3>2, <3>4 DEF Bounded
  <2>3. CASE ~(moved' = 0 /\ Render(typing', modal'))
    <3>1. Heard = {} /\ Bounded(a, moved)
      BY <2>3, HeardBefore DEF MovedInv
    <3>2. ASSUME NEW b \in Authors, Key(b) \/ Enter(b) PROVE Bounded(a, moved)'
      <4>1. wire' = wire
        BY <3>1, <3>2, BroadcastAdds DEF Key, Enter, TypeOK
      <4>2. UNCHANGED <<typing, screen, refresh, moved>>
        BY <3>2 DEF Key, Enter
      <4> QED
        BY <3>1, <4>1, <4>2 DEF Bounded
    <3>3. ASSUME \/ \E f \in wire : Receive(f) \/ Lose(f)
                 \/ RefreshTick
                 \/ \E m \in BOOLEAN : Rerender(m)
          PROVE  Bounded(a, moved)'
      <4>1. PICK clock \in Nat : clock = moved
        BY <2>1
      <4>2. moved' = moved
        BY <2>3, <3>3 DEF Receive, Lose, RefreshTick, Rerender
      <4>3. Bounded(a, clock)'
        BY <3>1, <3>3, <4>1, ViewerBounds
      <4> QED
        BY <4>1, <4>2, <4>3 DEF Bounded
    <3>4. ASSUME Tick PROVE Bounded(a, moved)'
      <4>1. PICK clock \in Nat : clock = moved
        BY <2>1
      <4>2. PICK later \in Nat : later = moved'
        BY <2>1
      <4>3. later <= clock + 1
        BY <3>4, <4>1, <4>2, Caps DEF Tick, TypeOK, Older
      <4>4. Bounded(a, later)'
        BY <3>1, <3>4, <4>1, <4>3, TickBounds
      <4> QED
        BY <4>2, <4>4 DEF Bounded
    <3>5. ASSUME UNCHANGED vars PROVE Bounded(a, moved)'
      BY <3>1, <3>5 DEF vars, Bounded
    <3> QED
      BY <2>3, <3>2, <3>3, <3>4, <3>5 DEF Next, OrphanEnds, Connected
  <2> QED
    BY <2>2, <2>3
<1>3. TypeOK /\ MovedInv => RightRoom
  BY Caps DEF TypeOK, MovedInv, Bounded, RightRoom, Longest
<1> QED
  BY <1>1, <1>2, <1>3, TypeHolds, PTL DEF Spec
-------------------------------------------------------------------------------
(* Steady typing shows.                                                    *)

\* The times fit together: the longest pause between two typing events of somebody who
\* types steadily, and the delay of the second, are within the viewer's patience.
Fits == Debounce + KeyGap + MaxDelay < TTL

\* The events on their way that no end of an orphan takes away.
Events(a) == {f \in Flying(a) : f.kind = "typing" /\ f.on = 0}

\* While a types steadily the viewer is in the room, no message of a sent before is younger
\* than that, and an input that is still empty has seen no key nor event.
Undisturbed(a) ==
  /\ steady[a] > 0 => inRoom
  /\ a \in empty => steady[a] <= lastKey[a] /\ steady[a] <= since[a]
  /\ lastSent[a] <= Debounce => since[a] = lastSent[a]
  /\ \A f \in Flying(a) : f.kind = "chat" => steady[a] <= f.age

\* a is on the screen and stays there until the next event comes, which is due or on its
\* way.
OnScreen(a) ==
  /\ ~modal => a \in screen
  /\ typing[a] >= 0
  /\ \/ typing[a] <= since[a]
     \/ \E f \in Events(a) : typing[a] <= Debounce + KeyGap + f.age

\* Either no event has been due since a began to type steadily ...
Beginning(a) == lastSent[a] > Debounce /\ steady[a] <= KeyGap + lastKey[a]

\* ... or the last one is recent, and: it may still be taken away by a message sent before,
\* or one that is not is on its way, or a is on the screen.
Recent(a) == since[a] <= Debounce + lastKey[a]
Soon(a) == \/ steady[a] <= since[a] + MaxDelay
           \/ \E f \in Events(a) : steady[a] <= f.age + KeyGap + Slower
Going(a) == Recent(a) /\ (Soon(a) \/ OnScreen(a))

Paced(a) == Undisturbed(a) /\ (Beginning(a) \/ Going(a))

LEMMA Ages ==
  ASSUME TypeOK, NEW a \in Authors
  PROVE  /\ lastSent[a] \in Nat /\ since[a] \in Nat /\ steady[a] \in Nat
         /\ lastKey[a] \in Nat /\ lastKey[a] <= KeyGap
         /\ typing[a] \in Int /\ typing[a] >= -1
         /\ \A f \in Flying(a) : f.age \in Nat /\ f.age <= MaxDelay /\ f \in Frame
  BY Caps DEF TypeOK, Absent, Flying, Frame

LEMMA Slow ==
  /\ Slower \in Nat /\ Slower >= KeyGap /\ Slower >= Debounce + MaxDelay
  /\ Settled = KeyGap + Slower + MaxDelay + 1
  BY TimesAssumption DEF Slower, Settled

\* Steady typing that begins anew begins well.
LEMMA Restart ==
  ASSUME TypeOK', NEW a \in Authors, steady'[a] = 0, Undisturbed(a)'
  PROVE  Paced(a)'
<1>0. /\ lastSent'[a] \in Nat /\ since'[a] \in Nat /\ lastKey'[a] \in Nat
      /\ KeyGap \in Nat /\ MaxDelay \in Nat /\ Debounce \in Nat
  BY Caps DEF TypeOK
<1>1. CASE lastSent'[a] > Debounce
  BY <1>0, <1>1 DEF Paced, Beginning
<1>2. CASE lastSent'[a] <= Debounce
  <2>1. Recent(a)'
    BY <1>0, <1>2 DEF Undisturbed, Recent
  <2>2. Soon(a)'
    BY <1>0 DEF Soon
  <2> QED
    BY <2>1, <2>2 DEF Paced, Going
<1> QED
  BY <1>0, <1>1, <1>2

\* Whoever is on the screen is there in time.
LEMMA OnTime ==
  ASSUME Fits, TypeOK, NEW a \in Authors, Recent(a), OnScreen(a)
  PROVE  typing[a] \in 0..(TTL - 1)
<1>1. CASE typing[a] <= since[a]
  BY <1>1, Ages, Caps DEF Recent, OnScreen, Fits
<1>2. ASSUME NEW f \in Events(a), typing[a] <= Debounce + KeyGap + f.age
      PROVE  typing[a] \in 0..(TTL - 1)
  <2>1. f.age \in Nat /\ f.age <= MaxDelay
    BY Ages DEF Events
  <2> QED
    BY <1>2, <2>1, Ages, Caps DEF OnScreen, Fits
<1> QED
  BY <1>1, <1>2 DEF OnScreen

\* A step that leaves a's side of it alone.
LEMMA Untouched ==
  ASSUME NEW a \in Authors, Paced(a),
         UNCHANGED <<lastSent[a], lastKey[a], since[a], steady[a], inRoom>>,
         Flying(a)' \subseteq Flying(a), Events(a)' = Events(a), a \in empty' => a \in empty,
         Recent(a) /\ OnScreen(a) => typing'[a] = typing[a] /\ (~modal' => a \in screen')
  PROVE  Paced(a)'
<1>2. Undisturbed(a)'
  BY DEF Paced, Undisturbed
<1>3. Beginning(a) => Beginning(a)'
  BY DEF Beginning
<1>4. Recent(a) => Recent(a)'
  BY DEF Recent
<1>5. Soon(a) => Soon(a)'
  BY DEF Soon
<1>6. Recent(a) /\ OnScreen(a) => OnScreen(a)'
  BY DEF OnScreen
<1> QED
  BY <1>2, <1>3, <1>4, <1>5, <1>6 DEF Paced, Going

\* A frame is a's own, and new, or leaves a's frames alone.
LEMMA OwnFrames ==
  ASSUME NEW a, NEW b, NEW k, Broadcast(b, k)
  PROVE  /\ Flying(a) \subseteq Flying(a)'
         /\ a # b => Flying(a)' = Flying(a)
         /\ \A f \in Flying(a)' : f \in Flying(a) \/ f.kind = k
         /\ inRoom => [from |-> b, kind |-> k, age |-> 0, on |-> 0] \in Flying(b)'
<1> DEFINE g == [from |-> b, kind |-> k, age |-> 0, on |-> 0]
<1>1. g.from = b
  OBVIOUS
<1>2. wire' = wire \cup Frames(b, k, Heard)
  BY DEF Broadcast
<1>3. \A f \in Frames(b, k, Heard) : f.from = b /\ f.kind = k
  BY DEF Frames
<1>4. inRoom => g \in Frames(b, k, Heard)
  BY DEF Frames, Heard
<1> HIDE DEF g, Frames
<1>5. Flying(a)' = {f \in wire' : f.from = a} /\ Flying(b)' = {f \in wire' : f.from = b}
  BY DEF Flying
<1>6. inRoom => g \in Flying(b)'
  BY <1>1, <1>2, <1>4, <1>5
<1>7. \A f \in Flying(a)' : f \in Flying(a) \/ (f.kind = k /\ f.from = b)
  BY <1>2, <1>3, <1>5 DEF Flying
<1>8. Flying(a) \subseteq Flying(a)'
  BY <1>2, <1>5 DEF Flying
<1>9. a # b => Flying(a)' \subseteq Flying(a)
  BY <1>5, <1>7
<1> QED
  BY <1>6, <1>7, <1>8, <1>9 DEF g

\* A key: it sends an event when one is due.
LEMMA KeyPaced ==
  ASSUME Fits, TypeOK, TypeOK', NEW a \in Authors, Paced(a), Key(a)
  PROVE  Paced(a)'
<1> USE DEF viewerVars
<1>1. /\ lastKey'[a] = 0 /\ a \notin empty'
      /\ UNCHANGED <<steady, inRoom, typing, modal, screen>>
  BY DEF Key, TypeOK
<1>2. CASE ~ShouldSendTyping(a)
  <2>1. UNCHANGED <<wire, lastSent, since>> /\ Flying(a)' = Flying(a) /\ Events(a)' = Events(a)
    BY <1>2 DEF Key, Flying, Events
  <2>2. Undisturbed(a)'
    BY <1>1, <2>1 DEF Paced, Undisturbed
  <2>3. CASE lastSent[a] > Debounce
    <3>1. steady[a] <= KeyGap
      BY <1>2, <2>3, Ages, Caps DEF ShouldSendTyping, Paced, Undisturbed
    <3> QED
      BY <1>1, <2>1, <2>2, <2>3, <3>1, Ages, Caps DEF Paced, Beginning
  <2>4. CASE lastSent[a] <= Debounce
    <3>1. since[a] <= Debounce
      BY <2>4 DEF Paced, Undisturbed
    <3>2. Recent(a)'
      BY <1>1, <2>1, <3>1, Caps DEF Recent
    <3>3. Going(a)
      BY <2>4, Ages, Caps DEF Paced, Beginning
    <3>4. Soon(a) \/ OnScreen(a) => Soon(a)' \/ OnScreen(a)'
      BY <1>1, <2>1 DEF Soon, OnScreen
    <3> QED
      BY <2>2, <3>2, <3>3, <3>4 DEF Paced, Going
  <2> QED
    BY <2>3, <2>4, Ages, Caps
<1>3. CASE ShouldSendTyping(a) /\ steady[a] = 0
  <2>1. since'[a] = 0 /\ lastSent'[a] = 0 /\ Broadcast(a, "typing")
    BY <1>3 DEF Key, TypeOK
  <2>2. \A f \in Flying(a)' : f.kind = "chat" => f \in Flying(a)
    <3>1. \A f \in Flying(a)' : f \in Flying(a) \/ f.kind = "typing"
      BY <2>1, OwnFrames
    <3> QED
      BY <3>1
  <2>3. Undisturbed(a)'
    BY <1>1, <1>3, <2>1, <2>2, Caps DEF Paced, Undisturbed
  <2> QED
    BY <1>1, <1>3, <2>3, Restart
<1>4. CASE ShouldSendTyping(a) /\ steady[a] # 0
  <2> DEFINE g == [from |-> a, kind |-> "typing", age |-> 0, on |-> 0]
  <2>1. since'[a] = 0 /\ lastSent'[a] = 0 /\ Broadcast(a, "typing")
    BY <1>4 DEF Key, TypeOK
  <2>2. \A f \in Flying(a)' : f.kind = "chat" => f \in Flying(a)
    <3>1. \A f \in Flying(a)' : f \in Flying(a) \/ f.kind = "typing"
      BY <2>1, OwnFrames
    <3> QED
      BY <3>1
  <2>3. Undisturbed(a)'
    BY <1>1, <2>1, <2>2, Caps DEF Paced, Undisturbed
  <2>4. inRoom
    BY <1>4, Ages DEF Paced, Undisturbed
  <2>5. g \in Events(a)' /\ Events(a) \subseteq Events(a)'
    BY <2>1, <2>4, OwnFrames DEF Events
  <2>6. Recent(a)'
    BY <1>1, <2>1, Caps DEF Recent
  <2>7. steady[a] <= KeyGap + Slower => Soon(a)'
    <3>1. steady[a] <= KeyGap + Slower => steady[a] <= g.age + KeyGap + Slower
      BY Ages, Caps, Slow
    <3> HIDE DEF g
    <3> QED
      BY <1>1, <2>5, <3>1 DEF Soon
  <2>8. CASE Beginning(a)
    <3>1. steady[a] <= KeyGap + Slower
      BY <2>8, Ages, Caps, Slow DEF Beginning
    <3> QED
      BY <2>3, <2>6, <2>7, <3>1 DEF Paced, Going
  <2>9. CASE Recent(a) /\ steady[a] <= since[a] + MaxDelay
    <3>1. steady[a] <= KeyGap + Slower
      BY <2>9, Ages, Caps, Slow DEF Recent
    <3> QED
      BY <2>3, <2>6, <2>7, <3>1 DEF Paced, Going
  <2>10. CASE \E f \in Events(a) : steady[a] <= f.age + KeyGap + Slower
    <3>1. Soon(a)'
      BY <1>1, <2>5, <2>10 DEF Soon
    <3> QED
      BY <2>3, <2>6, <3>1 DEF Paced, Going
  <2>11. CASE Recent(a) /\ OnScreen(a)
    <3>1. \E f \in Events(a)' : typing[a] <= Debounce + KeyGap + f.age
      <4>1. CASE typing[a] <= since[a]
        <5>1. typing[a] <= Debounce + KeyGap + g.age
          BY <2>11, <4>1, Ages, Caps DEF Recent
        <5> HIDE DEF g
        <5> QED
          BY <2>5, <5>1
      <4>2. CASE \E f \in Events(a) : typing[a] <= Debounce + KeyGap + f.age
        BY <2>5, <4>2
      <4> QED
        BY <2>11, <4>1, <4>2 DEF OnScreen
    <3>2. OnScreen(a)'
      BY <1>1, <2>11, <3>1 DEF OnScreen
    <3> QED
      BY <2>3, <2>6, <3>2 DEF Paced, Going
  <2> QED
    BY <2>8, <2>9, <2>10, <2>11 DEF Paced, Going, Soon
<1> QED
  BY <1>2, <1>3, <1>4

\* A frame of a arrives: an event puts a on the screen, a message takes a from it, but no
\* message is still on its way when a has typed long enough.
LEMMA ReceivePaced ==
  ASSUME Fits, TypeOK, TypeOK', NEW a \in Authors, Paced(a), NEW f \in wire, Receive(f)
  PROVE  Paced(a)'
<1> USE DEF authorVars, viewerVars
<1>1. UNCHANGED <<lastSent, lastKey, since, steady, inRoom, empty, modal>> /\ wire' = wire \ {f}
  BY DEF Receive
<1>2. Render(typing', modal) /\ f \in Frame
  BY DEF Receive, TypeOK
<1>3. CASE f.from # a
  <2>1. Flying(a)' = Flying(a) /\ typing'[a] = typing[a]
    BY <1>1, <1>2, <1>3 DEF Flying, Receive, TypeOK, Frame
  <2>2. Recent(a) /\ OnScreen(a) => (~modal' => a \in screen')
    BY <1>1, <1>2, <2>1, OnTime DEF Render
  <2> QED
    BY <1>1, <2>1, <2>2, Untouched DEF Events
<1>4. CASE f.from = a
  <2>1. Flying(a)' \subseteq Flying(a)
    BY <1>1 DEF Flying
  <2>2. Undisturbed(a)'
    BY <1>1, <2>1 DEF Paced, Undisturbed
  <2>3. (Beginning(a) => Beginning(a)') /\ (Recent(a) => Recent(a)')
    BY <1>1 DEF Beginning, Recent
  <2>4. CASE f.kind = "typing"
    <3>1. typing'[a] = 0
      BY <1>2, <1>4, <2>4 DEF Receive, TypeOK, Frame
    <3>2. ~modal' => a \in screen'
      <4>1. TTL \in Nat /\ TTL > 0
        BY Caps DEF Fits
      <4> QED
        BY <1>1, <1>2, <3>1, <4>1 DEF Render
    <3>3. OnScreen(a)'
      BY <1>1, <3>1, <3>2, Ages DEF OnScreen
    <3> QED
      BY <2>2, <2>3, <3>3 DEF Paced, Going
  <2>5. CASE f.kind # "typing"
    <3>1. f \in Flying(a) /\ f.kind = "chat"
      BY <1>2, <1>4, <2>5 DEF Flying, Frame
    <3>2. steady[a] <= since[a] + MaxDelay
      BY <3>1, Ages, Caps DEF Paced, Undisturbed
    <3>3. Soon(a)'
      BY <1>1, <3>2 DEF Soon
    <3> QED
      BY <2>2, <2>3, <3>3 DEF Paced, Going
  <2> QED
    BY <2>4, <2>5
<1> QED
  BY <1>3, <1>4

\* Time passes: what is counted goes up by one, or steady typing ends.
LEMMA TickPaced ==
  ASSUME Fits, TypeOK, TypeOK', NEW a \in Authors, Paced(a), Tick
  PROVE  Paced(a)'
<1>1. /\ UNCHANGED <<empty, inRoom, modal, screen>>
      /\ lastSent'[a] = Older(lastSent[a], Debounce + MaxDelay + 1)
      /\ lastKey'[a] = Older(lastKey[a], KeyGap)
      /\ since'[a] = Older(since[a], Longest + 1)
      /\ steady'[a] = IF lastKey[a] = KeyGap \/ ~inRoom THEN 0 ELSE Older(steady[a], Settled)
      /\ typing'[a] = IF typing[a] = Absent THEN Absent ELSE Older(typing[a], TTL + Refresh + 1)
  BY DEF Tick
<1>2. /\ lastSent[a] > Debounce => lastSent'[a] > Debounce
      /\ lastSent'[a] <= Debounce => lastSent[a] <= Debounce /\ lastSent'[a] = lastSent[a] + 1
  BY <1>1, Ages, Caps DEF Older
<1>3. lastSent'[a] <= Debounce => since'[a] = lastSent'[a]
  BY <1>1, <1>2, Ages, Caps DEF Older, Paced, Undisturbed, Longest, Fits
<1>4. ASSUME NEW g \in Flying(a)'
      PROVE  \E f \in Flying(a) : g.age = f.age + 1 /\ g.kind = f.kind
  BY <1>4, TickWire DEF TypeOK, Flying
<1>5. CASE steady'[a] = 0
  <2>1. \A f \in Flying(a)' : steady'[a] <= f.age
    BY <1>5, Caps DEF TypeOK, Flying, Frame
  <2>2. lastKey'[a] \in Nat /\ since'[a] \in Nat
    BY Caps DEF TypeOK
  <2>3. Undisturbed(a)'
    BY <1>3, <1>5, <2>1, <2>2 DEF Undisturbed
  <2> QED
    BY <1>5, <2>3, Restart
<1>6. CASE steady'[a] # 0
  <2>1. /\ inRoom /\ lastKey[a] < KeyGap /\ lastKey'[a] = lastKey[a] + 1
        /\ steady'[a] <= steady[a] + 1 /\ steady'[a] \in Nat
    BY <1>1, <1>6, Ages, Caps, Slow DEF Older
  <2>2. since'[a] <= since[a] + 1 /\ (since[a] < TTL => since'[a] = since[a] + 1)
    BY <1>1, Ages, Caps DEF Older, Longest
  <2>3. \A g \in Flying(a)' : g.kind = "chat" => steady'[a] <= g.age
    <3> SUFFICES ASSUME NEW g \in Flying(a)', g.kind = "chat" PROVE steady'[a] <= g.age
      OBVIOUS
    <3>1. PICK f \in Flying(a) : g.age = f.age + 1 /\ g.kind = f.kind
      BY <1>4
    <3> QED
      BY <2>1, <3>1, Ages DEF Paced, Undisturbed
  <2>4. Undisturbed(a)'
    <3>1. a \in empty' => steady'[a] <= lastKey'[a]
      BY <1>1, <2>1, Ages, Caps DEF Paced, Undisturbed
    <3>2. a \in empty' => steady'[a] <= since'[a]
      <4>1. a \in empty => steady[a] <= since[a] /\ steady[a] < KeyGap
        BY <2>1, Ages, Caps DEF Paced, Undisturbed
      <4>2. since'[a] = since[a] + 1 \/ since'[a] >= TTL
        <5>1. since'[a] \in {since[a] + 1, Longest + 1}
          BY <1>1 DEF Older
        <5>2. Longest + 1 >= TTL
          BY Caps DEF Longest
        <5> QED
          BY <5>1, <5>2
      <4>3. KeyGap < TTL
        BY Caps DEF Fits
      <4>4. since'[a] \in Nat /\ empty' = empty
        BY <1>1, Caps DEF TypeOK
      <4> QED
        BY <2>1, <4>1, <4>2, <4>3, <4>4, Ages, Caps
    <3> QED
      BY <1>1, <1>3, <2>1, <2>3, <3>1, <3>2 DEF Undisturbed
  <2>5. Beginning(a) => Beginning(a)'
    BY <1>2, <2>1, Ages, Caps DEF Beginning
  <2>6. Recent(a) => Recent(a)' /\ since'[a] = since[a] + 1
    BY <2>1, <2>2, Ages, Caps DEF Recent, Fits
  <2>7. ASSUME NEW f \in Events(a) PROVE \E g \in Events(a)' : g.age = f.age + 1
    <3>1. [f EXCEPT !.age = @ + 1] \in wire' /\ f \in Frame
      BY DEF Tick, Events, Flying, TypeOK
    <3>2. PICK g \in wire' : g = [f EXCEPT !.age = @ + 1]
      BY <3>1
    <3>3. g.age = f.age + 1 /\ g.from = f.from /\ g.kind = f.kind /\ g.on = f.on
      BY <3>1, <3>2 DEF Frame
    <3> QED
      BY <3>3 DEF Events, Flying
  <2>8. Recent(a) /\ Soon(a) => Soon(a)'
    <3>1. ASSUME NEW f \in Events(a), steady[a] <= f.age + KeyGap + Slower PROVE Soon(a)'
      <4>1. PICK g \in Events(a)' : g.age = f.age + 1
        BY <2>7
      <4>2. f.age \in Nat
        BY Ages DEF Events
      <4>3. steady'[a] <= g.age + KeyGap + Slower
        BY <2>1, <3>1, <4>1, <4>2, Ages, Caps, Slow
      <4>4. KeyGap' = KeyGap /\ Slower' = Slower
        BY DEF Slower
      <4> QED
        BY <4>1, <4>3, <4>4 DEF Soon
    <3>2. Recent(a) /\ steady[a] <= since[a] + MaxDelay => Soon(a)'
      BY <2>1, <2>6, Ages, Caps DEF Soon
    <3> QED
      BY <3>1, <3>2 DEF Soon
  <2>9. Recent(a) /\ OnScreen(a) => OnScreen(a)'
    <3> SUFFICES ASSUME Recent(a), OnScreen(a) PROVE OnScreen(a)'
      OBVIOUS
    <3>1. typing'[a] = typing[a] + 1 /\ typing[a] \in Nat
      BY <1>1, OnTime, Caps DEF Older, Absent
    <3>2. ASSUME NEW f \in Events(a), typing[a] <= Debounce + KeyGap + f.age PROVE OnScreen(a)'
      <4>1. PICK g \in Events(a)' : g.age = f.age + 1
        BY <2>7
      <4>2. f.age \in Nat
        BY Ages DEF Events
      <4>3. typing'[a] <= Debounce + KeyGap + g.age
        BY <3>1, <3>2, <4>1, <4>2, Caps
      <4> QED
        BY <1>1, <3>1, <4>1, <4>3 DEF OnScreen
    <3>3. CASE typing[a] <= since[a]
      <4>1. typing'[a] <= since'[a]
        BY <2>6, <3>1, <3>3, Ages
      <4> QED
        BY <1>1, <3>1, <4>1 DEF OnScreen
    <3> QED
      BY <3>2, <3>3 DEF OnScreen
  <2> QED
    BY <2>4, <2>5, <2>6, <2>8, <2>9 DEF Paced, Going
<1> QED
  BY <1>5, <1>6

PaceInv == Fits => \A a \in Authors : Paced(a)

LEMMA PaceStep ==
  ASSUME Fits, TypeOK, TypeOK', NEW a \in Authors, Paced(a), [Next]_vars
  PROVE  Paced(a)'
<1> USE DEF authorVars, viewerVars
<1>1. ASSUME NEW b \in Authors, Key(b) PROVE Paced(a)'
  <2>1. CASE b = a
    BY <1>1, <2>1, KeyPaced
  <2>2. CASE b # a
    <3>1. Flying(a)' = Flying(a)
      BY <1>1, <2>2, OwnFrames DEF Key, Flying
    <3> QED
      BY <1>1, <2>2, <3>1, Untouched DEF Key, Events, OnScreen, TypeOK
  <2> QED
    BY <2>1, <2>2
<1>2. ASSUME NEW b \in Authors, Enter(b) PROVE Paced(a)'
  <2>1. CASE b = a
    <3>1. /\ steady'[a] = 0 /\ lastKey'[a] = 0
          /\ UNCHANGED <<lastSent, since, inRoom>>
      BY <1>2, <2>1 DEF Enter, TypeOK
    <3>2. \A f \in Flying(a)' : 0 <= f.age
      BY Caps DEF TypeOK, Flying, Frame
    <3>3. Undisturbed(a)'
      BY <3>1, <3>2, Ages DEF Paced, Undisturbed
    <3> QED
      BY <3>1, <3>3, Restart
  <2>2. CASE b # a
    <3>1. Flying(a)' = Flying(a)
      BY <1>2, <2>2, OwnFrames DEF Enter
    <3> QED
      BY <1>2, <2>2, <3>1, Untouched DEF Enter, Events, OnScreen, TypeOK
  <2> QED
    BY <2>1, <2>2
<1>3. ASSUME NEW f \in wire, Receive(f) PROVE Paced(a)'
  BY <1>3, ReceivePaced
<1>4. ASSUME NEW f \in wire, Lose(f) PROVE Paced(a)'
  <2>1. UNCHANGED <<lastSent, lastKey, since, inRoom, empty, modal, screen, typing>>
    BY <1>4 DEF Lose
  <2>2. CASE f.from = a /\ f.on = 0
    <3>1. steady'[a] = 0 /\ Flying(a)' \subseteq Flying(a)
      BY <1>4, <2>2 DEF Lose, TypeOK, Flying
    <3>2. \A g \in Flying(a) : 0 <= g.age
      BY Ages
    <3>3. Undisturbed(a)'
      BY <2>1, <3>1, <3>2, Ages DEF Paced, Undisturbed
    <3> QED
      BY <3>1, <3>3, Restart
  <2>3. CASE f.from # a \/ f.on # 0
    <3>1. steady'[a] = steady[a] /\ Flying(a)' \subseteq Flying(a)
      BY <1>4, <2>3 DEF Lose, TypeOK, Flying
    <3>2. Events(a)' = Events(a)
      BY <1>4, <2>3 DEF Lose, Events, Flying
    <3> QED
      BY <2>1, <3>1, <3>2, Untouched DEF OnScreen
  <2> QED
    BY <2>2, <2>3
<1>5. ASSUME \/ RefreshTick
             \/ \E o \in orphans : OrphanEnds(o)
             \/ \E m \in BOOLEAN : Rerender(m)
      PROVE  Paced(a)'
  <2>1. UNCHANGED <<lastSent, lastKey, since, steady, inRoom, empty, wire>>
    BY <1>5 DEF RefreshTick, OrphanEnds, Rerender
  <2>2. Flying(a)' = Flying(a)
    BY <2>1 DEF Flying
  <2>3. Render(typing', modal')
    BY <1>5 DEF RefreshTick, OrphanEnds, Rerender, Render
  <2>4. ASSUME Recent(a), OnScreen(a)
        PROVE  typing'[a] = typing[a] /\ (~modal' => a \in screen')
    <3>1. typing[a] \in 0..(TTL - 1)
      BY <2>4, OnTime
    <3>2. typing'[a] = typing[a]
      BY <1>5, <3>1, Caps DEF RefreshTick, Expired, OrphanEnds, Rerender
    <3> QED
      BY <2>3, <3>1, <3>2 DEF Render
  <2> QED
    BY <2>1, <2>2, <2>4, Untouched DEF Events
<1>6. ASSUME NEW r \in BOOLEAN, Connected(r) PROVE Paced(a)'
  <2>1. UNCHANGED <<lastSent, lastKey, since, empty>> /\ steady'[a] = 0
    BY <1>6 DEF Connected
  <2>2. \A g \in Flying(a)' : 0 <= g.age
    BY Caps DEF TypeOK, Flying, Frame
  <2>3. Undisturbed(a)'
    BY <2>1, <2>2, Ages DEF Paced, Undisturbed
  <2> QED
    BY <2>1, <2>3, Restart
<1>7. CASE Tick
  BY <1>7, TickPaced
<1>8. CASE UNCHANGED vars
  <2>1. UNCHANGED <<lastSent, lastKey, since, steady, inRoom, empty, wire, typing, modal, screen>>
    BY <1>8 DEF vars
  <2> QED
    BY <2>1, Untouched DEF Events, Flying, OnScreen
<1> QED
  BY <1>1, <1>2, <1>3, <1>4, <1>5, <1>6, <1>7, <1>8 DEF Next

\* Whoever types steadily is on the screen without a break once two keys and the delay
\* have passed, for any times that fit together (update.go:78-89, 244-255, model.go:13).
THEOREM ShowsSteadily == Spec => []KeepsShowing
<1>1. Init => PaceInv
  <2> SUFFICES ASSUME Init, NEW a \in Authors PROVE Paced(a)
    BY DEF PaceInv
  <2>1. lastSent[a] > Debounce /\ steady[a] = 0 /\ lastKey[a] = KeyGap /\ since[a] \in Nat
    BY Caps DEF Init
  <2> QED
    BY <2>1, Caps DEF Init, Paced, Undisturbed, Beginning, Flying
<1>2. TypeOK /\ TypeOK' /\ PaceInv /\ [Next]_vars => PaceInv'
  <2>1. Fits' = Fits
    BY DEF Fits
  <2> QED
    BY <2>1, PaceStep DEF PaceInv
<1>3. TypeOK /\ PaceInv => KeepsShowing
  <2> SUFFICES ASSUME TypeOK, Fits, ~modal, NEW a \in Authors, Paced(a), steady[a] = Settled
               PROVE  a \in screen
    BY DEF KeepsShowing, PaceInv, Fits
  <2>1. ~Beginning(a)
    BY Ages, Caps, Slow DEF Beginning
  <2>2. Recent(a) => ~Soon(a)
    <3>1. ASSUME NEW f \in Events(a) PROVE ~(steady[a] <= f.age + KeyGap + Slower)
      BY Ages, Caps, Slow DEF Events
    <3> QED
      BY <3>1, Ages, Caps, Slow DEF Recent, Soon
  <2> QED
    BY <2>1, <2>2 DEF Paced, Going, OnScreen
<1> QED
  BY <1>1, <1>2, <1>3, TypeHolds, PTL DEF Spec
===============================================================================
