----------------------------- MODULE SetupProofs ------------------------------
(***************************************************************************)
(* Proofs about Setup, for any number of commands and of faults.           *)
(***************************************************************************)
EXTENDS Setup, TLAPS

-------------------------------------------------------------------------------
(* The contents of a config file.                                          *)

\* The three contents without settings differ from each other.
LEMMA Distinct ==
  /\ Missing \in Contents /\ Empty \in Contents /\ Garbled \in Contents
  /\ Missing.is = "missing" /\ Empty.is = "empty" /\ Garbled.is = "garbled"
  BY DEF Missing, Empty, Garbled, Contents

\* A config consists of its host and its key.
LEMMA ConfigIs ==
  ASSUME NEW host \in BOOLEAN, NEW key \in Keys
  PROVE  /\ Config(host, key) \in Contents
         /\ Config(host, key).is = "config"
         /\ Config(host, key).host = host
         /\ Config(host, key).key = key
  BY DEF Config, Contents

\* Every content is one of the three, or a config.
LEMMA ContentsAre ==
  ASSUME NEW f \in Contents
  PROVE  \/ f.is # "config" /\ f \in {Missing, Empty, Garbled}
         \/ f.is = "config" /\ f.host \in BOOLEAN /\ f.key \in Keys
  BY DEF Missing, Empty, Garbled, Contents

\* A write leaves what is written, or a file that does not parse; and the first
\* when what is there has no setting that the new content lacks.
LEMMA OverIs ==
  ASSUME NEW old \in Contents, NEW new \in Contents
  PROVE  /\ Over(old, new) \in {Garbled, new}
         /\ (/\ old # Garbled
             /\ HasHost(old) => HasHost(new)
             /\ HasKey(old) => HasKey(new))
            => Over(old, new) = new
<1>1. Over(old, new) \in {Garbled, new}
  BY DEF Over
<1>2. ASSUME old # Garbled, HasHost(old) => HasHost(new), HasKey(old) => HasKey(new)
      PROVE  Over(old, new) = new
  <2>1. Size(old) <= Size(new)
    BY <1>2 DEF Size
  <2>2. Size(old) \in Int /\ Size(new) \in Int
    BY DEF Size
  <2> QED
    BY <1>2, <2>1, <2>2 DEF Over
<1> QED
  BY <1>1, <1>2

\* Putting a key into a file.
LEMMA WithKeyIs ==
  ASSUME NEW f \in Contents, NEW key \in Keys
  PROVE  /\ WithKey(f, key) \in Contents
         /\ WithKey(f, key) \in {Garbled, Config(HasHost(f), key)}
         /\ f.is = "config" => WithKey(f, key) = Config(HasHost(f), key)
<1>1. HasHost(f) \in BOOLEAN
  BY ContentsAre DEF HasHost
<1> QED
  BY <1>1, ConfigIs, Distinct DEF WithKey

-------------------------------------------------------------------------------
(* The types.                                                              *)

\* The two files as the user left them.
LEMMA InitFile ==
  ASSUME Init
  PROVE  \E home \in {Missing, Config(FALSE, NoKey), Config(TRUE, NoKey)},
            other \in {Missing, Config(TRUE, NoKey)} :
           file = [home |-> home, other |-> other] /\ file.home = home /\ file.other = other
<1>1. PICK home \in {Missing, Config(FALSE, NoKey), Config(TRUE, NoKey)},
           other \in {Missing, Config(TRUE, NoKey)} :
             file = [home |-> home, other |-> other]
  BY Zenon DEF Init
<1> QED
  BY <1>1

LEMMA TypeStep ==
  ASSUME TypeOK, [Next]_vars
  PROVE  TypeOK'
<1> USE DEF Ended
<1>1. ASSUME NEW p \in Procs, NEW c \in {"init", "register", "client"},
             NEW name \in {"home", "other"}, Start(p, c, name)
      PROVE  TypeOK'
  <2>1. file[name] \in Contents
    BY DEF TypeOK
  <2>2. FirstStep(c, file[name]) \in {"stat", "post", "connect", "failed"}
    BY DEF FirstStep
  <2> QED
    BY <1>1, <2>1, <2>2 DEF Start, Goto, TypeOK
<1>2. ASSUME NEW p \in Procs, Stat(p) PROVE TypeOK'
  BY <1>2 DEF Stat, Goto, TypeOK
<1>3. ASSUME NEW p \in Procs, Create(p) PROVE TypeOK'
  <2>1. Config(TRUE, NoKey) \in Contents
    BY ConfigIs DEF Keys
  <2>2. damaged' \in BOOLEAN
    BY <1>3 DEF Create, TypeOK
  <2> QED
    BY <1>3, <2>1, <2>2, Distinct DEF Create, Truncate, Goto, TypeOK
<1>4. ASSUME NEW p \in Procs, Write(p) PROVE TypeOK'
  <2>1. Over(file.home, draft[p]) \in Contents
    BY OverIs, Distinct DEF TypeOK
  <2> QED
    BY <1>4, <2>1 DEF Write, Goto, TypeOK
<1>5. ASSUME NEW p \in Procs, Handle(p) \/ Reply(p) PROVE TypeOK'
  BY <1>5 DEF Handle, Reply, Goto, TypeOK
<1>6. ASSUME NEW p \in Procs, Refuse(p) \/ LoseReply(p) PROVE TypeOK'
  BY <1>6, BoundAssumption DEF Refuse, LoseReply, Fault, Goto, TypeOK
<1>7. ASSUME NEW p \in Procs, ReadHome(p) PROVE TypeOK'
  <2>1. WithKey(file.home, p) \in Contents
    BY WithKeyIs DEF TypeOK, Keys
  <2> QED
    BY <1>7, <2>1 DEF ReadHome, Goto, TypeOK
<1>11. ASSUME NEW p \in Procs, SaveAPIKey(p) PROVE TypeOK'
  BY <1>11, Distinct DEF SaveAPIKey, Truncate, Goto, TypeOK
<1>8. ASSUME NEW p \in Procs, Connect(p) PROVE TypeOK'
  BY <1>8 DEF Connect, Goto, TypeOK
<1>9. ASSUME NEW p \in Procs, Kill(p) PROVE TypeOK'
  <2>1. damaged' \in BOOLEAN
    BY <1>9 DEF Kill, TypeOK
  <2> QED
    BY <1>9, <2>1, BoundAssumption DEF Kill, Fault, Goto, TypeOK
<1>10. ASSUME UNCHANGED vars PROVE TypeOK'
  BY <1>10 DEF vars, TypeOK
<1> QED
  BY <1>1, <1>2, <1>3, <1>4, <1>5, <1>6, <1>7, <1>8, <1>9, <1>10, <1>11
     DEF Next, Terminated

\* Every variable keeps its type.
THEOREM TypeCorrect == Spec => []TypeOK
<1>1. Init => TypeOK
  <2> SUFFICES ASSUME Init PROVE TypeOK
    OBVIOUS
  <2>1. Config(FALSE, NoKey) \in Contents /\ Config(TRUE, NoKey) \in Contents
    BY ConfigIs DEF Keys
  <2>2. file \in [home : Contents, other : Contents]
    BY <2>1, InitFile, Distinct
  <2>3. pc \in [Procs -> Ended \cup {"new", "stat", "create", "write", "post", "reply",
                                    "save", "replace", "connect"}]
    BY DEF Init
  <2>4. /\ cmd \in [Procs -> {"none", "init", "register", "client"}]
        /\ config \in [Procs -> {"home", "other"}]
        /\ seen \in [Procs -> Contents] /\ draft \in [Procs -> Contents]
    BY Distinct DEF Init
  <2>5. users = {} /\ damaged = FALSE /\ faults = 0
    BY DEF Init
  <2>6. faults \in 0..MaxFaults
    BY <2>5, BoundAssumption
  <2>7. users \subseteq Procs /\ damaged \in BOOLEAN
    BY <2>5, Zenon
  <2> QED
    BY <2>2, <2>3, <2>4, <2>6, <2>7, Zenon DEF TypeOK
<1>2. TypeOK /\ [Next]_vars => TypeOK'
  BY TypeStep
<1> QED
  BY <1>1, <1>2, PTL DEF Spec

-------------------------------------------------------------------------------
(* A key that is somewhere is registered.                                  *)

Known(f) == HasKey(f) => f.key \in users

\* The user comes before the reply, and everything that is read or about to be
\* written comes from a reply or from the file.
RegisteredInv ==
  /\ Known(file.home) /\ Known(file.other)
  /\ \A p \in Procs : /\ Known(seen[p]) /\ Known(draft[p])
                      /\ pc[p] \in {"reply", "save"} => p \in users
                      /\ pc[p] = "connect" => HasKey(seen[p])
                      /\ pc[p] # "refused"

\* A content without a key is known, and so is one with a registered key.
LEMMA KnownContents ==
  /\ Known(Missing) /\ Known(Empty) /\ Known(Garbled)
  /\ \A host \in BOOLEAN : /\ Known(Config(host, NoKey))
                           /\ \A p \in Procs : p \in users => Known(Config(host, p))
<1>1. Known(Missing) /\ Known(Empty) /\ Known(Garbled)
  BY Distinct DEF Known, HasKey
<1>2. ASSUME NEW host \in BOOLEAN PROVE Known(Config(host, NoKey))
  <2>1. Config(host, NoKey).key = NoKey
    BY ConfigIs DEF Keys
  <2> QED
    BY <2>1 DEF Known, HasKey
<1>3. ASSUME NEW host \in BOOLEAN, NEW p \in Procs, p \in users PROVE Known(Config(host, p))
  <2>1. Config(host, p).key = p
    BY ConfigIs DEF Keys
  <2> QED
    BY <1>3, <2>1 DEF Known
<1> QED
  BY <1>1, <1>2, <1>3

LEMMA RegisteredStep ==
  ASSUME TypeOK, RegisteredInv, [Next]_vars
  PROVE  RegisteredInv'
<1> USE DEF RegisteredInv
<1>1. ASSUME NEW p \in Procs, NEW c \in {"init", "register", "client"},
             NEW name \in {"home", "other"}, Start(p, c, name)
      PROVE  RegisteredInv'
  <2>1. file[name] \in {file.home, file.other}
    BY DEF TypeOK
  <2>2. /\ pc' = [pc EXCEPT ![p] = "failed"] /\ UNCHANGED seen
        \/ /\ pc' = [pc EXCEPT ![p] = FirstStep(c, file[name])]
           /\ seen' = [seen EXCEPT ![p] = file[name]]
    BY <1>1 DEF Start, Goto
  <2>3. /\ FirstStep(c, file[name]) \in {"stat", "post", "connect", "failed"}
        /\ FirstStep(c, file[name]) = "connect" => HasKey(file[name])
    BY DEF FirstStep
  <2>4. UNCHANGED <<file, draft, users>>
    BY <1>1 DEF Start
  <2> QED
    BY <2>1, <2>2, <2>3, <2>4 DEF TypeOK, Known
<1>2. ASSUME NEW p \in Procs, Stat(p) PROVE RegisteredInv'
  BY <1>2 DEF Stat, Goto, TypeOK, Known
<1>3. ASSUME NEW p \in Procs, Create(p) PROVE RegisteredInv'
  <2>1. Known(Config(TRUE, NoKey)) /\ Known(Empty)
    BY KnownContents
  <2>2. /\ draft' = [draft EXCEPT ![p] = Config(TRUE, NoKey)]
        /\ file' = [file EXCEPT !.home = Empty]
        /\ pc' = [pc EXCEPT ![p] = "write"]
        /\ UNCHANGED <<seen, users>>
    BY <1>3 DEF Create, Truncate, Goto
  <2> QED
    BY <2>1, <2>2 DEF TypeOK, Known
<1>4. ASSUME NEW p \in Procs, Write(p) PROVE RegisteredInv'
  <2>1. Over(file.home, draft[p]) \in {Garbled, draft[p]}
    BY OverIs DEF TypeOK
  <2>2. Known(Over(file.home, draft[p]))
    BY <2>1, KnownContents
  <2>3. /\ file' = [file EXCEPT !.home = Over(file.home, draft[p])]
        /\ pc' \in {[pc EXCEPT ![p] = "created"], [pc EXCEPT ![p] = "saved"]}
        /\ UNCHANGED <<seen, draft, users>>
    BY <1>4 DEF Write, Goto
  <2> QED
    BY <2>2, <2>3 DEF TypeOK, Known
<1>5. ASSUME NEW p \in Procs, Handle(p) PROVE RegisteredInv'
  BY <1>5 DEF Handle, Goto, TypeOK, Known
<1>6. ASSUME NEW p \in Procs, Reply(p) \/ Refuse(p) \/ LoseReply(p) \/ Kill(p)
      PROVE  RegisteredInv'
  BY <1>6 DEF Reply, Refuse, LoseReply, Kill, Goto, TypeOK, Known
<1>7. ASSUME NEW p \in Procs, ReadHome(p) PROVE RegisteredInv'
  <2>1. HasHost(file.home) \in BOOLEAN /\ file.home \in Contents
    BY ContentsAre DEF HasHost, TypeOK
  <2>2. p \in users
    BY <1>7 DEF ReadHome
  <2>3. Known(WithKey(file.home, p))
    BY <2>1, <2>2, KnownContents, WithKeyIs DEF Keys
  <2>4. UNCHANGED <<file, seen, users>>
    BY <1>7 DEF ReadHome
  <2>5. CASE HasKeyLine(file.home)
    <3>1. /\ draft' = [draft EXCEPT ![p] = WithKey(file.home, p)]
          /\ pc' = [pc EXCEPT ![p] = "replace"]
      BY <1>7, <2>5 DEF ReadHome, Goto
    <3> QED
      BY <2>3, <2>4, <3>1 DEF TypeOK, Known
  <2>6. CASE ~HasKeyLine(file.home)
    BY <1>7, <2>6 DEF ReadHome, Goto, TypeOK, Known
  <2> QED
    BY <2>5, <2>6
<1>10. ASSUME NEW p \in Procs, SaveAPIKey(p) PROVE RegisteredInv'
  <2>1. /\ file' = [file EXCEPT !.home = Empty]
        /\ pc' = [pc EXCEPT ![p] = "write"]
        /\ UNCHANGED <<seen, draft, users>>
    BY <1>10 DEF SaveAPIKey, Truncate, Goto
  <2>2. Known(Empty)
    BY KnownContents
  <2> QED
    BY <2>1, <2>2 DEF TypeOK, Known
<1>8. ASSUME NEW p \in Procs, Connect(p) PROVE RegisteredInv'
  <2>1. seen[p].key \in users
    BY <1>8 DEF Connect, Known
  <2> QED
    BY <1>8, <2>1 DEF Connect, Goto, TypeOK, Known
<1>9. ASSUME UNCHANGED vars PROVE RegisteredInv'
  BY <1>9 DEF vars, Known
<1> QED
  BY <1>1, <1>2, <1>3, <1>4, <1>5, <1>6, <1>7, <1>8, <1>9, <1>10
     DEF Next, Terminated

\* No key gets into the config file, nor to a client, before its user is in the
\* database (register_handler.go:45-62, register.go:37-102).
THEOREM KeysRegistered == Spec => []KeyRegistered
<1>1. Init => RegisteredInv
  <2> SUFFICES ASSUME Init PROVE RegisteredInv
    OBVIOUS
  <2>1. Known(file.home) /\ Known(file.other)
    BY InitFile, KnownContents
  <2> QED
    BY <2>1, KnownContents DEF Init, RegisteredInv
<1>2. TypeOK /\ RegisteredInv /\ [Next]_vars => RegisteredInv'
  BY RegisteredStep
<1>3. RegisteredInv => KeyRegistered
  BY DEF RegisteredInv, Known, KeyRegistered
<1> QED
  BY <1>1, <1>2, <1>3, TypeCorrect, PTL DEF Spec

-------------------------------------------------------------------------------
(* What is in the file.                                                    *)

Writing == {p \in Procs : pc[p] = "write"}

\* Those that have a text ready, the file as it was when they read it.
Pending == {p \in Procs : pc[p] \in {"replace", "write"}}

\* What a process is going to write, and where the others are meanwhile: an init
\* is alone and follows nobody who saved a key; a register keeps the host the file
\* has, or the others are going to write, however long ago it has read it, and puts
\* its own key in.
Draft(p) ==
  /\ draft[p] \in Contents /\ draft[p].is = "config"
  /\ cmd[p] = "init" => /\ Pending = {p} /\ file.home = Empty /\ Saved = {}
  /\ cmd[p] # "init" => draft[p].key = p
  /\ file.home.is = "config" => (HasHost(file.home) <=> HasHost(draft[p]))
  /\ \A q \in Pending : HasHost(draft[p]) <=> HasHost(draft[q])

\* The home file, as long as nothing has been damaged.
FileInv ==
  /\ file.home # Garbled
  /\ file.home = Missing => Pending = {} /\ Saved = {}
  /\ file.home = Empty => Writing # {}
  /\ file.home.is = "config" /\ Saved # {} => HasKey(file.home) /\ file.home.key \in Saved
  /\ \A p \in Pending : Draft(p)

\* An init that creates has seen no file; only register and init write.
LooksInv ==
  \A p \in Procs : /\ pc[p] = "create" => cmd[p] = "init" /\ seen[p] = Missing
                   /\ pc[p] = "stat" => cmd[p] = "init"
                   /\ pc[p] \in {"post", "reply", "save", "replace"} => cmd[p] = "register"

HomeInv == LooksInv /\ (~damaged => FileInv)

\* A step that is none of the file's business.
LEMMA Elsewhere ==
  ASSUME FileInv, UNCHANGED <<file, draft>>,
         Writing' = Writing, Pending' \subseteq Pending, Saved' = Saved,
         \A p \in Pending : cmd'[p] = cmd[p]
  PROVE  FileInv'
  BY DEF FileInv, Draft, HasHost, HasKey

LEMMA LooksStep ==
  ASSUME TypeOK, LooksInv, [Next]_vars
  PROVE  LooksInv'
<1> USE DEF LooksInv
<1>1. ASSUME NEW p \in Procs, NEW c \in {"init", "register", "client"},
             NEW name \in {"home", "other"}, Start(p, c, name)
      PROVE  LooksInv'
  <2>1. pc'[p] \in {"failed", FirstStep(c, file[name])} /\ cmd'[p] = c
    BY <1>1 DEF Start, Goto, TypeOK
  <2>2. /\ FirstStep(c, file[name]) \in {"stat", "post", "connect", "failed"}
        /\ FirstStep(c, file[name]) = "stat" => c = "init"
        /\ FirstStep(c, file[name]) = "post" => c = "register"
    BY DEF FirstStep
  <2>3. \A q \in Procs \ {p} : pc'[q] = pc[q] /\ cmd'[q] = cmd[q] /\ seen'[q] = seen[q]
    BY <1>1 DEF Start, Goto, TypeOK
  <2> QED
    BY <2>1, <2>2, <2>3
<1>2. ASSUME NEW p \in Procs, Stat(p) PROVE LooksInv'
  BY <1>2 DEF Stat, Absent, Goto, TypeOK
<1>3. ASSUME NEW p \in Procs, Create(p) \/ Write(p) \/ ReadHome(p) \/ SaveAPIKey(p)
      PROVE  LooksInv'
  <2>1. \/ pc'[p] \in {"write", "created", "saved", "printed"}
        \/ pc[p] = "save" /\ pc'[p] = "replace"
    BY <1>3 DEF Create, Write, ReadHome, SaveAPIKey, Truncate, Goto, TypeOK
  <2>2. \A q \in Procs \ {p} : pc'[q] = pc[q]
    BY <1>3 DEF Create, Write, ReadHome, SaveAPIKey, Truncate, Goto, TypeOK
  <2>3. UNCHANGED <<cmd, seen>>
    BY <1>3 DEF Create, Write, ReadHome, SaveAPIKey
  <2> QED
    BY <2>1, <2>2, <2>3
<1>4. ASSUME NEW p \in Procs,
             Handle(p) \/ Refuse(p) \/ LoseReply(p) \/ Reply(p) \/ Connect(p) \/ Kill(p)
      PROVE  LooksInv'
  <2>1. UNCHANGED <<cmd, seen>>
    BY <1>4 DEF Handle, Refuse, LoseReply, Reply, Connect, Kill
  <2>2. \A q \in Procs \ {p} : pc'[q] = pc[q]
    BY <1>4 DEF Handle, Refuse, LoseReply, Reply, Connect, Kill, Goto, TypeOK
  <2>3. \/ pc'[p] \in {"failed", "killed", "in", "refused"}
        \/ pc[p] \in {"post", "reply"} /\ pc'[p] \in {"reply", "save"}
    BY <1>4 DEF Handle, Refuse, LoseReply, Reply, Connect, Kill, Goto, TypeOK
  <2> QED
    BY <2>1, <2>2, <2>3
<1>5. ASSUME UNCHANGED vars PROVE LooksInv'
  BY <1>5 DEF vars
<1> QED
  BY <1>1, <1>2, <1>3, <1>4, <1>5 DEF Next, Terminated

-------------------------------------------------------------------------------
\* init creates the file: it is alone with it.
LEMMA CreateStep ==
  ASSUME TypeOK, LooksInv, FileInv, NEW p \in Procs, Create(p), ~damaged'
  PROVE  FileInv' /\ ~HasHost(file.home)
<1>1. file.home = Missing
  BY DEF Create, LooksInv, TypeOK
<1>2. Pending = {} /\ Saved = {}
  BY <1>1 DEF FileInv
<1>3. /\ draft' = [draft EXCEPT ![p] = Config(TRUE, NoKey)]
      /\ file'.home = Empty
      /\ pc' = [pc EXCEPT ![p] = "write"]
      /\ UNCHANGED cmd /\ cmd[p] = "init"
  BY DEF Create, Truncate, Goto, TypeOK, LooksInv
<1>4. Writing' = {p} /\ Pending' = {p} /\ Saved' = {}
  BY <1>2, <1>3 DEF Writing, Pending, Saved, TypeOK
<1>5. draft'[p] = Config(TRUE, NoKey)
  BY <1>3 DEF TypeOK
<1>6. Config(TRUE, NoKey) \in Contents /\ Config(TRUE, NoKey).is = "config"
  BY ConfigIs DEF Keys
<1>7. Draft(p)'
  BY <1>3, <1>4, <1>5, <1>6, Distinct DEF Draft
<1>8. ~HasHost(file.home)
  BY <1>1, Distinct DEF HasHost
<1> QED
  BY <1>3, <1>4, <1>7, <1>8, Distinct DEF FileInv

\* register puts its key into the text it has read.
LEMMA ReadStep ==
  ASSUME TypeOK, LooksInv, FileInv, NEW p \in Procs, ReadHome(p)
  PROVE  FileInv' /\ UNCHANGED file
<1>1. /\ p \notin Pending /\ p \notin Saved /\ cmd[p] = "register"
      /\ UNCHANGED <<cmd, file>>
  BY DEF ReadHome, Pending, Saved, LooksInv
<1>2. CASE ~HasKeyLine(file.home)
  <2>1. UNCHANGED draft /\ pc' = [pc EXCEPT ![p] = "printed"]
    BY <1>2 DEF ReadHome, Goto
  <2>2. Writing' = Writing /\ Pending' = Pending /\ Saved' = Saved
    BY <1>1, <2>1 DEF Writing, Pending, Saved, TypeOK
  <2> QED
    BY <1>1, <2>1, <2>2, Elsewhere
<1>3. CASE HasKeyLine(file.home)
  <2>1. file.home \in Contents /\ file.home.is = "config"
    BY <1>3, ContentsAre DEF HasKeyLine, TypeOK, FileInv
  <2>2. PICK new : new = Config(HasHost(file.home), p)
    OBVIOUS
  <2>3. /\ new \in Contents /\ new.is = "config" /\ new.key = p
        /\ HasHost(new) <=> HasHost(file.home)
    <3>1. HasHost(file.home) \in BOOLEAN
      BY <2>1, ContentsAre DEF HasHost
    <3> QED
      BY <2>2, <3>1, ConfigIs DEF HasHost, Keys
  <2>4. /\ draft' = [draft EXCEPT ![p] = new]
        /\ pc' = [pc EXCEPT ![p] = "replace"]
    BY <1>3, <2>1, <2>2, WithKeyIs DEF ReadHome, Goto, TypeOK, Keys
  <2>5. Pending' = Pending \cup {p} /\ Writing' = Writing /\ Saved' = Saved
    BY <1>1, <2>4 DEF Writing, Pending, Saved, TypeOK
  <2>6. draft'[p] = new /\ \A q \in Pending : draft'[q] = draft[q]
    BY <1>1, <2>4 DEF TypeOK, Pending
  <2>7. \A q \in Pending : cmd[q] # "init" /\ (HasHost(draft[q]) <=> HasHost(new))
    BY <2>1, <2>3, Distinct DEF FileInv, Draft
  <2>8. \A q \in Pending' : Draft(q)'
    <3> SUFFICES ASSUME NEW q \in Pending' PROVE Draft(q)'
      OBVIOUS
    <3>1. \A u \in Pending' : HasHost(draft'[u]) <=> HasHost(new)
      BY <2>5, <2>6, <2>7
    <3>2. draft'[q] \in Contents /\ draft'[q].is = "config" /\ draft'[q].key = q
      BY <2>3, <2>5, <2>6, <2>7 DEF FileInv, Draft
    <3>3. cmd'[q] # "init"
      BY <1>1, <2>5, <2>7
    <3>4. HasHost(file'.home) <=> HasHost(new)
      BY <1>1, <2>3
    <3> QED
      BY <3>1, <3>2, <3>3, <3>4 DEF Draft, HasHost
  <2> QED
    BY <1>1, <2>1, <2>5, <2>8, Distinct DEF FileInv, HasKey
<1> QED
  BY <1>2, <1>3

\* register empties the file, to write its text into it.
LEMMA SaveStep ==
  ASSUME TypeOK, LooksInv, FileInv, NEW p \in Procs, SaveAPIKey(p)
  PROVE  /\ FileInv'
         /\ HasHost(file.home) => pc'[p] = "write" /\ HasHost(draft'[p])
<1>1. /\ p \in Pending /\ Draft(p) /\ cmd[p] = "register"
      /\ UNCHANGED <<cmd, draft>>
  BY DEF SaveAPIKey, Pending, LooksInv, FileInv
<1>2. file'.home = Empty /\ pc' = [pc EXCEPT ![p] = "write"]
  BY DEF SaveAPIKey, Truncate, Goto, TypeOK
<1>3. Pending' = Pending /\ Saved' = Saved /\ p \in Writing' /\ pc'[p] = "write"
  BY <1>1, <1>2 DEF SaveAPIKey, Pending, Writing, Saved, TypeOK
<1>4. \A q \in Pending : cmd[q] # "init"
  BY <1>1 DEF FileInv, Draft
<1>5. \A q \in Pending' : Draft(q)'
  <2> SUFFICES ASSUME NEW q \in Pending' PROVE Draft(q)'
    OBVIOUS
  <2>1. Draft(q) /\ cmd'[q] # "init"
    BY <1>1, <1>3, <1>4 DEF FileInv
  <2> QED
    BY <1>1, <1>2, <1>3, <2>1, Distinct DEF Draft, HasHost
<1>6. HasHost(file.home) => HasHost(draft'[p])
  BY <1>1 DEF Draft, HasHost
<1> QED
  BY <1>2, <1>3, <1>5, <1>6, Distinct DEF FileInv

\* What is written is what the process had in mind: whatever came between has the
\* same host, and no setting that is missing in it.
LEMMA WriteStep ==
  ASSUME TypeOK, FileInv, NEW p \in Procs, Write(p)
  PROVE  FileInv' /\ (HasHost(file.home) => HasHost(file'.home))
<1>1. p \in Pending /\ p \notin Saved /\ Draft(p) /\ UNCHANGED <<draft, cmd>>
  BY DEF Write, Pending, Saved, FileInv
<1>2. file.home \in Contents /\ draft[p] \in Contents /\ draft[p].is = "config"
  BY <1>1 DEF TypeOK, Draft
<1>3. HasKey(file.home) => HasKey(draft[p])
  <2>1. CASE cmd[p] = "init"
    BY <1>1, <2>1, Distinct DEF Draft, HasKey
  <2>2. CASE cmd[p] # "init"
    BY <1>1, <1>2, <2>2, ProcsAssumption DEF Draft, HasKey
  <2> QED
    BY <2>1, <2>2
<1>4. HasHost(file.home) => HasHost(draft[p])
  BY <1>1 DEF Draft, HasHost
<1>5. file'.home = draft[p]
  <2>1. Over(file.home, draft[p]) = draft[p]
    BY <1>2, <1>3, <1>4, OverIs DEF FileInv
  <2> QED
    BY <2>1 DEF Write, TypeOK
<1>6. Pending' = Pending \ {p}
  BY DEF Write, Goto, Pending, TypeOK
<1>7. \A q \in Pending' : cmd[q] # "init" /\ Draft(q)
  BY <1>1, <1>6 DEF FileInv, Draft
<1>8. \A q \in Pending' : Draft(q)'
  <2> SUFFICES ASSUME NEW q \in Pending' PROVE Draft(q)'
    OBVIOUS
  <2>1. HasHost(draft[q]) <=> HasHost(draft[p])
    BY <1>1, <1>6, <1>7 DEF Draft
  <2>2. HasHost(file'.home) <=> HasHost(draft'[q])
    BY <1>1, <1>5, <2>1
  <2>3. \A u \in Pending' : HasHost(draft'[q]) <=> HasHost(draft'[u])
    BY <1>1, <1>6, <1>7 DEF Draft
  <2> QED
    BY <1>1, <1>7, <2>2, <2>3 DEF Draft, HasHost
<1>9. Saved' # {} => HasKey(file'.home) /\ file'.home.key \in Saved'
  <2>1. CASE cmd[p] = "init"
    <3>1. Saved' = {}
      BY <1>1, <2>1 DEF Write, Goto, Saved, TypeOK, Draft
    <3> QED
      BY <3>1
  <2>2. CASE cmd[p] # "init"
    <3>1. p \in Saved'
      BY <2>2 DEF Write, Goto, Saved, TypeOK
    <3>2. file'.home.is = "config" /\ file'.home.key = p
      BY <1>1, <1>2, <1>5, <2>2 DEF Draft
    <3> QED
      BY <3>1, <3>2, ProcsAssumption DEF HasKey
  <2> QED
    BY <2>1, <2>2
<1>10. file'.home \notin {Missing, Empty, Garbled}
  BY <1>2, <1>5, Distinct
<1> QED
  BY <1>4, <1>5, <1>8, <1>9, <1>10 DEF FileInv

\* The other steps leave the file alone, or damage it.
LEMMA OtherStep ==
  ASSUME TypeOK, FileInv, ~damaged',
         \/ \E p \in Procs :
              \/ \E c \in {"init", "register", "client"}, name \in {"home", "other"} :
                   Start(p, c, name)
              \/ Stat(p) \/ Handle(p) \/ Refuse(p) \/ LoseReply(p) \/ Reply(p)
              \/ Connect(p) \/ Kill(p)
         \/ UNCHANGED vars
  PROVE  FileInv' /\ UNCHANGED file
<1>1. UNCHANGED <<file, draft>>
  BY DEF Start, Stat, Handle, Refuse, LoseReply, Reply, Connect, Kill, vars
<1>2. /\ Writing' = Writing /\ Pending' \subseteq Pending /\ Saved' = Saved
      /\ \A p \in Pending : cmd'[p] = cmd[p]
  <2>1. ASSUME NEW p \in Procs, NEW c \in {"init", "register", "client"},
               NEW name \in {"home", "other"}, Start(p, c, name)
        PROVE  /\ Writing' = Writing /\ Pending' \subseteq Pending /\ Saved' = Saved
               /\ \A q \in Pending : cmd'[q] = cmd[q]
    <3>1. FirstStep(c, file[name]) \in {"stat", "post", "connect", "failed"}
      BY DEF FirstStep
    <3>2. pc[p] = "new" /\ pc'[p] \in {"stat", "post", "connect", "failed"}
      BY <2>1, <3>1 DEF Start, Goto, TypeOK
    <3>3. \A q \in Procs \ {p} : pc'[q] = pc[q] /\ cmd'[q] = cmd[q]
      BY <2>1 DEF Start, Goto, TypeOK
    <3> QED
      BY <3>2, <3>3 DEF Writing, Pending, Saved
  <2>2. ASSUME NEW p \in Procs,
               \/ Stat(p) \/ Handle(p) \/ Refuse(p) \/ LoseReply(p) \/ Reply(p)
               \/ Connect(p) \/ Kill(p)
        PROVE  /\ Writing' = Writing /\ Pending' \subseteq Pending /\ Saved' = Saved
               /\ cmd' = cmd
    <3>1. /\ pc[p] \notin {"write", "saved"}
          /\ pc'[p] \notin {"replace", "write", "saved"}
      BY <2>2 DEF Stat, Handle, Refuse, LoseReply, Reply, Connect, Kill, Goto, TypeOK
    <3>2. \A q \in Procs \ {p} : pc'[q] = pc[q]
      BY <2>2 DEF Stat, Handle, Refuse, LoseReply, Reply, Connect, Kill, Goto, TypeOK
    <3>3. cmd' = cmd
      BY <2>2 DEF Stat, Handle, Refuse, LoseReply, Reply, Connect, Kill
    <3> QED
      BY <3>1, <3>2, <3>3 DEF Writing, Pending, Saved
  <2>3. ASSUME UNCHANGED vars
        PROVE  /\ Writing' = Writing /\ Pending' \subseteq Pending /\ Saved' = Saved
               /\ cmd' = cmd
    BY <2>3 DEF vars, Writing, Pending, Saved
  <2> QED
    BY <2>1, <2>2, <2>3
<1> QED
  BY <1>1, <1>2, Elsewhere

\* Damage stays.
LEMMA DamageStays ==
  ASSUME [Next]_vars, damaged
  PROVE  damaged'
  BY DEF Next, Terminated, vars, Start, Stat, Create, Write, Handle, Refuse, LoseReply,
         Reply, ReadHome, SaveAPIKey, Connect, Kill

\* A step of Next is one of the four kinds above.
LEMMA StepKinds ==
  ASSUME [Next]_vars
  PROVE  \/ \E p \in Procs : Create(p) \/ ReadHome(p) \/ SaveAPIKey(p) \/ Write(p)
         \/ \E p \in Procs :
              \/ \E c \in {"init", "register", "client"}, name \in {"home", "other"} :
                   Start(p, c, name)
              \/ Stat(p) \/ Handle(p) \/ Refuse(p) \/ LoseReply(p) \/ Reply(p)
              \/ Connect(p) \/ Kill(p)
         \/ UNCHANGED vars
  BY DEF Next, Terminated

LEMMA HomeHolds == Spec => []HomeInv
<1>1. Init => HomeInv
  <2> SUFFICES ASSUME Init PROVE HomeInv
    OBVIOUS
  <2>1. Writing = {} /\ Pending = {} /\ Saved = {}
    BY DEF Init, Writing, Pending, Saved
  <2>2. file.home \in {Missing, Config(FALSE, NoKey), Config(TRUE, NoKey)}
    BY InitFile
  <2>3. file.home \notin {Empty, Garbled}
    <3>1. Config(FALSE, NoKey).is = "config" /\ Config(TRUE, NoKey).is = "config"
      BY ConfigIs DEF Keys
    <3> QED
      BY <2>2, <3>1, Distinct
  <2>4. LooksInv
    BY DEF Init, LooksInv
  <2> QED
    BY <2>1, <2>3, <2>4 DEF HomeInv, FileInv
<1>2. TypeOK /\ HomeInv /\ [Next]_vars => HomeInv'
  <2> SUFFICES ASSUME TypeOK, HomeInv, [Next]_vars PROVE HomeInv'
    OBVIOUS
  <2>1. LooksInv'
    BY LooksStep DEF HomeInv
  <2>2. ASSUME ~damaged' PROVE FileInv'
    <3>1. FileInv /\ LooksInv
      BY <2>2, DamageStays DEF HomeInv
    <3> QED
      BY <2>2, <3>1, StepKinds, CreateStep, ReadStep, SaveStep, WriteStep, OtherStep
  <2> QED
    BY <2>1, <2>2 DEF HomeInv
<1> QED
  BY <1>1, <1>2, TypeCorrect, PTL DEF Spec

\* When no write is in progress the file holds the key of one of the commands that
\* said it was saved (register.go:76-102, init.go:24-49).
THEOREM SavedKeyStays == Spec => []SavedKeyThere
<1>1. TypeOK /\ HomeInv => SavedKeyThere
  <2> SUFFICES ASSUME TypeOK, HomeInv, ~damaged, Saved # {}, \A p \in Procs : pc[p] # "write"
               PROVE  HasKey(file.home) /\ file.home.key \in Saved
    BY DEF SavedKeyThere
  <2>1. Writing = {}
    BY DEF Writing
  <2>2. file.home \notin {Missing, Empty, Garbled} /\ file.home \in Contents
    BY <2>1 DEF HomeInv, FileInv, TypeOK
  <2>3. file.home.is = "config"
    BY <2>2, ContentsAre
  <2> QED
    BY <2>3 DEF HomeInv, FileInv
<1> QED
  BY <1>1, HomeHolds, TypeCorrect, PTL

\* No command takes the host out of the config file, whichever run side by side
\* (register.go:76-102, init.go:24-49).
THEOREM HostStays == Spec => HostKept
<1>1. TypeOK /\ HomeInv /\ [Next]_vars =>
        (HasHost(file.home) /\ ~damaged'
           => \/ HasHost(file'.home)
              \/ \E p \in Procs : pc'[p] = "write" /\ HasHost(draft'[p]))
  <2> SUFFICES ASSUME TypeOK, HomeInv, [Next]_vars, HasHost(file.home), ~damaged'
               PROVE  \/ HasHost(file'.home)
                      \/ \E p \in Procs : pc'[p] = "write" /\ HasHost(draft'[p])
    OBVIOUS
  <2>1. FileInv /\ LooksInv
    BY DamageStays DEF HomeInv
  <2>2. ASSUME NEW p \in Procs, Create(p) PROVE FALSE
    BY <2>1, <2>2, CreateStep
  <2>3. ASSUME NEW p \in Procs, Write(p) PROVE HasHost(file'.home)
    BY <2>1, <2>3, WriteStep
  <2>4. ASSUME NEW p \in Procs, SaveAPIKey(p)
        PROVE  HasHost(file'.home) \/ (pc'[p] = "write" /\ HasHost(draft'[p]))
    BY <2>1, <2>4, SaveStep
  <2>6. ASSUME NEW p \in Procs, ReadHome(p) PROVE UNCHANGED file
    BY <2>6 DEF ReadHome
  <2>5. CASE UNCHANGED file
    BY <2>5
  <2> QED
    BY <2>1, <2>2, <2>3, <2>4, <2>5, <2>6, StepKinds, OtherStep
<1>2. TypeOK /\ HomeInv /\ [Next]_vars
      => [HasHost(file.home) /\ ~damaged'
            => \/ HasHost(file'.home)
               \/ \E p \in Procs : pc'[p] = "write" /\ HasHost(draft'[p])]_vars
  BY <1>1
<1> QED
  BY <1>2, HomeHolds, TypeCorrect, PTL DEF Spec, HostKept
===============================================================================
