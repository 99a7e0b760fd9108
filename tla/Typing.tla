-------------------------------- MODULE Typing --------------------------------
(***************************************************************************)
(* "X is typing...": from a key pressed in one terminal to the status line *)
(* of another.  The authors debounce what they send, the server forwards   *)
(* it to the others in the room, and the viewer forgets an author who has  *)
(* been quiet.  What is on the screen is what the last Update rendered: an *)
(* idle terminal is rendered again by its refresh tick only.               *)
(*                                                                         *)
(* Time passes in ticks; an age counts the ticks since something happened, *)
(* and is capped where a longer time makes no difference.  Bubble Tea's    *)
(* event loop takes no time.  The authors stay in one room; the viewer     *)
(* comes and goes.  Two dials under way at once leave the connection of    *)
(* the first open, with a reader waiting on it, or two: an orphan.  A      *)
(* reader brings one frame, whenever that comes, and then waits on the     *)
(* model's own connection.  A frame takes at most MaxDelay, frames may be  *)
(* lost and may overtake each other, as they do in a worker pool (see      *)
(* Room).                                                                  *)
(***************************************************************************)
EXTENDS Integers, FiniteSets

CONSTANTS Authors,    \* the users who type
          Debounce,   \* 2 s: the pause after a typing event
          TTL,        \* typingUserTTL, 4 s
          Refresh,    \* 5 s: the period of tickCmd
          MaxDelay,   \* bound: ticks a frame is on its way
          KeyGap,     \* ticks between two keys of somebody who types steadily
          MaxFrames,  \* bound: frames of one author on their way when it sends
          MaxOrphans  \* bound: orphans in the authors' room

ASSUME AuthorsAssumption == IsFiniteSet(Authors)
ASSUME TimesAssumption   == /\ Debounce \in Nat /\ TTL \in Nat /\ Refresh \in Nat \ {0}
                            /\ MaxDelay \in Nat /\ KeyGap \in Nat
ASSUME BoundAssumption   == MaxFrames \in Nat /\ MaxOrphans \in Nat

VARIABLES
  lastSent,  \* lastSent[a]: age of the author's lastTypingSent
  empty,     \* the authors whose input is empty
  wire,      \* frames on their way to the viewer
  inRoom,    \* m.conn is a connection to the authors' room
  orphans,   \* the orphans in the authors' room whose reader still waits
  typing,    \* the viewer's typingUsers: an age, or Absent
  modal,     \* the viewer has the create-room form open
  refresh,   \* age of the last refresh tick
  screen,    \* the authors the viewer's screen says are typing
  lastKey,   \* history: lastKey[a], age of the last key
  since,     \* history: since[a], age of the last typing event sent
  steady,    \* history: steady[a], how long a has typed steadily, undisturbed
  moved      \* history: age of the last change of inRoom or orphans

authorVars  == <<lastSent, empty, lastKey, since>>
viewerVars  == <<inRoom, orphans, typing, modal, refresh, screen, moved>>
vars == <<authorVars, viewerVars, wire, steady>>

Absent  == -1
Longest == TTL + MaxDelay + Refresh

\* Steady typing shows from its second key on at the latest (the first one may meet an
\* empty input), or from the first event that no older message can take away.
Slower  == IF KeyGap > Debounce + MaxDelay THEN KeyGap ELSE Debounce + MaxDelay
Settled == KeyGap + Slower + MaxDelay + 1

Older(age, cap) == IF age < cap THEN age + 1 ELSE cap

Init ==
  /\ lastSent = [a \in Authors |-> Debounce + 1]
  /\ empty = Authors
  /\ wire = {}
  /\ inRoom = TRUE
  /\ orphans = {}
  /\ typing = [a \in Authors |-> Absent]
  /\ modal = FALSE
  /\ refresh = 0
  /\ screen = {}
  /\ lastKey = [a \in Authors |-> KeyGap]
  /\ since = [a \in Authors |-> Longest + 1]
  /\ steady = [a \in Authors |-> 0]
  /\ moved = Longest + 1

-------------------------------------------------------------------------------
(* An author: Update's key handling.                                       *)

\* Mutant: a pause longer than the viewers' patience.
SendsTypingRarely(a) == lastSent[a] > Debounce + MaxDelay /\ a \notin empty
ShouldSendTyping(a) == lastSent[a] > Debounce /\ a \notin empty

\* What the viewer has in the authors' room: the model's connection, 0, and orphans.
Heard == orphans \cup (IF inRoom THEN {0} ELSE {})

Frames(a, k, conns) == {[from |-> a, kind |-> k, age |-> 0, on |-> o] : o \in conns}

\* The read pump's answer to a typing frame, and to a chat frame: Room.Broadcast,
\* in the author's room.  Mutant: Hub.Broadcast.
BroadcastEverywhere(a, k) == wire' = wire \cup Frames(a, k, orphans \cup {0})
Broadcast(a, k) == wire' = wire \cup Frames(a, k, Heard)

Flying(a) == {f \in wire : f.from = a}

\* Any key that Update has no case for; the input gets it after the check.
Key(a) ==
  /\ IF ShouldSendTyping(a)
     THEN /\ Cardinality(Flying(a)) < MaxFrames
          /\ Broadcast(a, "typing")
          /\ lastSent' = [lastSent EXCEPT ![a] = 0]
          /\ since' = [since EXCEPT ![a] = 0]
     ELSE UNCHANGED <<wire, lastSent, since>>
  /\ empty' = empty \ {a}
  /\ lastKey' = [lastKey EXCEPT ![a] = 0]
  /\ UNCHANGED <<viewerVars, steady>>

\* Enter sends what was typed, and empties the input.
Enter(a) ==
  /\ a \notin empty
  /\ Cardinality(Flying(a)) < MaxFrames
  /\ Broadcast(a, "chat")
  /\ empty' = empty \cup {a}
  /\ lastKey' = [lastKey EXCEPT ![a] = 0]
  /\ steady' = [steady EXCEPT ![a] = 0]
  /\ UNCHANGED <<viewerVars, lastSent, since>>

-------------------------------------------------------------------------------
(* The viewer.                                                             *)

\* typingLine, on the screen unless the form hides it.
Render(users, hidden) ==
  screen' = IF hidden THEN {} ELSE {a \in Authors : users[a] \in 0..(TTL - 1)}

\* typingMsg: the author is typing from now on; incomingMsg: no longer.  Either way
\* the reader goes on with the model's connection, and an orphan has one less, or none.
Receive(f) ==
  /\ f \in wire
  /\ f.on \in orphans \cup {0}
  /\ wire' = wire \ {f}
  /\ orphans' \in {orphans, orphans \ {f.on}}
  /\ moved' = IF orphans' = orphans THEN moved ELSE 0
  /\ typing' = [typing EXCEPT ![f.from] = IF f.kind = "typing" THEN 0 ELSE Absent]
  /\ Render(typing', modal)
  /\ UNCHANGED <<authorVars, inRoom, modal, refresh, steady>>

\* A frame is dropped, its write fails, or its connection is closed or read no more.
Lose(f) ==
  /\ f \in wire
  /\ wire' = wire \ {f}
  /\ steady' = IF f.on = 0 THEN [steady EXCEPT ![f.from] = 0] ELSE steady
  /\ UNCHANGED <<authorVars, viewerVars>>

\* An orphan ends: its reader brings an error, and the client reconnects.
OrphanEnds(o) ==
  /\ o \in orphans
  /\ orphans' = orphans \ {o}
  /\ moved' = 0
  /\ Render(typing, modal)
  /\ UNCHANGED <<authorVars, inRoom, typing, modal, refresh, wire, steady>>

\* The users that tickMsg deletes.  Mutants: nobody; also some who are typing.
ExpiredNever(a) == FALSE
Expired(a) == typing[a] >= TTL

\* tickMsg, which starts the next tick.  Mutant: it does not.
NotAgain == Refresh + 1
Again == 0

RefreshTick ==
  /\ refresh = Refresh
  /\ refresh' = Again
  /\ typing' = [a \in Authors |-> IF Expired(a) THEN Absent ELSE typing[a]]
  /\ Render(typing', modal)
  /\ UNCHANGED <<authorVars, inRoom, orphans, modal, moved, wire, steady>>

\* Any other Update renders the view again; opening or closing the form does too.
Rerender(m) ==
  /\ modal' = m
  /\ Render(typing, m)
  /\ UNCHANGED <<authorVars, inRoom, orphans, typing, refresh, moved, wire, steady>>

\* connectedMsg, for another room or again for this one: typingUsers stays.  The dial
\* has closed the connection that was the model's when it began, which may be an
\* older one than the model has now: that one stays open.
Connected(r) ==
  /\ inRoom' = r
  /\ moved' = 0
  /\ Render(typing, modal)
  /\ steady' = [a \in Authors |-> 0]
  /\ \/ UNCHANGED <<orphans, wire>>
     \/ \E o \in 1..MaxOrphans \ orphans :
          /\ inRoom
          /\ orphans' = orphans \cup {o}
          /\ wire' = {[f EXCEPT !.on = IF @ = 0 THEN o ELSE @] : f \in wire}
  /\ UNCHANGED <<authorVars, typing, modal, refresh>>

-------------------------------------------------------------------------------
\* Time passes, unless a frame or the refresh tick is due.
Tick ==
  /\ \A f \in wire : f.age < MaxDelay
  /\ refresh # Refresh
  /\ wire' = {[f EXCEPT !.age = @ + 1] : f \in wire}
  /\ refresh' = Older(refresh, Refresh + 1)
  /\ lastSent' = [a \in Authors |-> Older(lastSent[a], Debounce + MaxDelay + 1)]
  /\ typing' = [a \in Authors |-> IF typing[a] = Absent THEN Absent
                                  ELSE Older(typing[a], TTL + Refresh + 1)]
  /\ lastKey' = [a \in Authors |-> Older(lastKey[a], KeyGap)]
  /\ steady' = [a \in Authors |-> IF lastKey[a] = KeyGap \/ ~inRoom THEN 0
                                  ELSE Older(steady[a], Settled)]
  /\ since' = [a \in Authors |-> Older(since[a], Longest + 1)]
  /\ moved' = Older(moved, Longest + 1)
  /\ UNCHANGED <<empty, inRoom, orphans, modal, screen>>

Next ==
  \/ \E a \in Authors : Key(a) \/ Enter(a)
  \/ \E f \in wire : Receive(f) \/ Lose(f)
  \/ \E o \in orphans : OrphanEnds(o)
  \/ RefreshTick
  \/ \E m \in BOOLEAN : Rerender(m)
  \/ \E r \in BOOLEAN : Connected(r)
  \/ Tick

Spec == Init /\ [][Next]_vars

-------------------------------------------------------------------------------
(* Properties.                                                             *)

Frame == [from : Authors, kind : {"typing", "chat"}, age : 0..MaxDelay,
          on : 0..MaxOrphans]

\* Every variable keeps its type; an entry of typingUsers lives no longer than
\* its TTL and the refresh that deletes it (update.go:16-23).
TypeOK ==
  /\ lastSent \in [Authors -> 0..(Debounce + MaxDelay + 1)]
  /\ empty \subseteq Authors
  /\ wire \subseteq Frame
  /\ orphans \subseteq 1..MaxOrphans
  /\ inRoom \in BOOLEAN /\ modal \in BOOLEAN
  /\ typing \in [Authors -> {Absent} \cup 0..(TTL + Refresh)]
  /\ refresh \in 0..Refresh
  /\ screen \subseteq Authors
  /\ lastKey \in [Authors -> 0..KeyGap]
  /\ since \in [Authors -> 0..(Longest + 1)]
  /\ steady \in [Authors -> 0..Settled]
  /\ moved \in 0..(Longest + 1)

\* Somebody who types steadily stays on the screen, without flickering: debounce,
\* delay and TTL fit together, also when a typing event overtakes the message
\* sent before it (update.go:78-89, 244-255, model.go:13).
KeepsShowing ==
  Debounce + KeyGap + MaxDelay < TTL /\ ~modal
    => \A a \in Authors : steady[a] = Settled => a \in screen

\* Nobody stays on the screen who has stopped: the TTL alone does not render an
\* idle terminal again, the refresh tick does (update.go:16-23, view.go:171-191).
ShownWasTyping ==
  \A a \in screen : since[a] <= Longest

\* The line speaks of the room the viewer is in, or of one whose connection two
\* crossing dials have left open, apart from what is left over for a while when
\* either ends: of an orphan each reader brings one frame (commands.go:94, 120,
\* update.go:68-89; connectedMsg does not clear typingUsers).
RightRoom == screen # {} => Heard # {} \/ moved <= Longest
===============================================================================
