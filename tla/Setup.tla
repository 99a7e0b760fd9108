--------------------------------- MODULE Setup ---------------------------------
(***************************************************************************)
(* How a user gets in: the commands init, register and the client itself   *)
(* on one machine, the config file they share, and the registration on the *)
(* server.  Every command is a process of its own, several may run at the  *)
(* same time (two terminals), and each can be killed between two steps.    *)
(*                                                                         *)
(* The API key that registering process p is given is p itself: it is      *)
(* random (crypto/rand, 32 bytes), and a process registers once.  Of a     *)
(* config file only the host and the key matter; os.WriteFile truncates    *)
(* the file and then writes it, and register has read it before: three     *)
(* steps that others may come between.                                     *)
(* Environment variables, which viper would prefer, are left out.          *)
(***************************************************************************)
EXTENDS Integers, FiniteSets

CONSTANTS Procs,     \* the commands that are run
          NoKey,     \* api_key = ""
          MaxFaults  \* bound: processes killed and replies lost

ASSUME ProcsAssumption == IsFiniteSet(Procs) /\ NoKey \notin Procs
ASSUME BoundAssumption == MaxFaults \in Nat

VARIABLES
  cmd,     \* cmd[p]: the command p runs
  config,  \* config[p]: the file initConfig reads, "other" with --config
  pc,      \* control state of each process
  seen,    \* seen[p]: what p has last read of a config file
  draft,   \* draft[p]: the text that p is going to write to the home file
  file,    \* the two files
  users,   \* the users in the database, by key
  damaged, \* history: a write was cut short, or fell on a file init saw missing
  faults   \* counted against the bound

vars == <<cmd, config, pc, seen, draft, file, users, damaged, faults>>

Keys    == Procs \cup {NoKey}
Missing == [is |-> "missing"]
Empty   == [is |-> "empty"]
Garbled == [is |-> "garbled"]
Config(host, key) == [is |-> "config", host |-> host, key |-> key]

Contents == {Missing, Empty, Garbled}
            \cup [is : {"config"}, host : BOOLEAN, key : Keys]

HasHost(f) == f.is = "config" /\ f.host
HasKey(f)  == f.is = "config" /\ f.key # NoKey

\* ~/.chatatui.toml and the file given with --config, as the user left them.
Init ==
  /\ cmd = [p \in Procs |-> "none"]
  /\ config = [p \in Procs |-> "home"]
  /\ pc = [p \in Procs |-> "new"]
  /\ seen = [p \in Procs |-> Empty]
  /\ draft = [p \in Procs |-> Empty]
  /\ \E home \in {Missing, Config(FALSE, NoKey), Config(TRUE, NoKey)},
        other \in {Missing, Config(TRUE, NoKey)} :
       file = [home |-> home, other |-> other]
  /\ users = {}
  /\ damaged = FALSE
  /\ faults = 0

Goto(p, label) == pc' = [pc EXCEPT ![p] = label]
Fault == faults < MaxFaults /\ faults' = faults + 1

-------------------------------------------------------------------------------
(* Every command.                                                          *)

\* What a command does once its config is loaded: its own checks of the settings
\* (root.go, register.go), or its first step.
FirstStep(c, f) ==
  CASE c = "init"     -> "stat"
    [] c = "register" -> IF HasHost(f) THEN "post" ELSE "failed"
    [] c = "client"   -> IF HasHost(f) /\ HasKey(f) THEN "connect" ELSE "failed"

\* initConfig comes before every command: log.Fatal when the file is not there or
\* does not parse.
Start(p, c, name) ==
  /\ pc[p] = "new"
  /\ cmd' = [cmd EXCEPT ![p] = c]
  /\ config' = [config EXCEPT ![p] = name]
  /\ IF file[name] \in {Missing, Garbled}
     THEN Goto(p, "failed") /\ UNCHANGED seen
     ELSE /\ seen' = [seen EXCEPT ![p] = file[name]]
          /\ Goto(p, FirstStep(c, file[name]))
  /\ UNCHANGED <<draft, file, users, damaged, faults>>

\* The user ends a command, or the machine does.
Kill(p) ==
  /\ pc[p] \in {"stat", "create", "write", "post", "reply", "save", "replace",
               "connect"}
  /\ Fault
  /\ Goto(p, "killed")
  /\ damaged' = (damaged \/ pc[p] = "write")
  /\ UNCHANGED <<cmd, config, seen, draft, file, users>>

-------------------------------------------------------------------------------
(* os.WriteFile on the home file.                                          *)

Size(f) == (IF HasHost(f) THEN 1 ELSE 0) + (IF HasKey(f) THEN 2 ELSE 0)

\* A shorter content written over a longer one leaves the other's last lines, and
\* a setting that is there twice does not parse.
Over(old, new) ==
  IF old = Garbled \/ Size(old) > Size(new) THEN Garbled ELSE new

\* The file is opened with O_TRUNC.
Truncate(p) ==
  /\ file' = [file EXCEPT !.home = Empty]
  /\ Goto(p, "write")

Write(p) ==
  /\ pc[p] = "write"
  /\ file' = [file EXCEPT !.home = Over(@, draft[p])]
  /\ Goto(p, IF cmd[p] = "init" THEN "created" ELSE "saved")
  /\ UNCHANGED <<cmd, config, seen, draft, users, damaged, faults>>

-------------------------------------------------------------------------------
(* chatatui init.                                                          *)

\* Mutant: whatever is there.
AbsentOrNot(f) == TRUE

Absent(f) == f = Missing

Stat(p) ==
  /\ pc[p] = "stat"
  /\ seen' = [seen EXCEPT ![p] = file.home]
  /\ Goto(p, IF Absent(file.home) THEN "create" ELSE "failed")
  /\ UNCHANGED <<cmd, config, draft, file, users, damaged, faults>>

\* The default config has a host and no key.  A file that has come since the look
\* is overwritten.
Create(p) ==
  /\ pc[p] = "create"
  /\ draft' = [draft EXCEPT ![p] = Config(TRUE, NoKey)]
  /\ Truncate(p)
  /\ damaged' = (damaged \/ (seen[p] = Missing /\ file.home # Missing))
  /\ UNCHANGED <<cmd, config, seen, users, faults>>

-------------------------------------------------------------------------------
(* chatatui register, and POST /register.                                  *)

\* Mutant: the user is stored before its key has been generated.
HandleBeforeKey(p) ==
  /\ pc[p] = "post"
  /\ users' = users \cup {NoKey}
  /\ Goto(p, "reply")
  /\ UNCHANGED <<cmd, config, seen, draft, file, damaged, faults>>

\* RegisterHandler.Handle commits the user, then answers with the key.
Handle(p) ==
  /\ pc[p] = "post"
  /\ users' = users \cup {p}
  /\ Goto(p, "reply")
  /\ UNCHANGED <<cmd, config, seen, draft, file, damaged, faults>>

\* Mutant: the error of Create is not looked at.
RefuseUnnoticed(p) ==
  /\ pc[p] = "post"
  /\ Fault
  /\ Goto(p, "reply")
  /\ UNCHANGED <<cmd, config, seen, draft, file, users, damaged>>

\* A body it does not accept, no randomness, or a user that cannot be stored.
Refuse(p) ==
  /\ pc[p] = "post"
  /\ Fault
  /\ Goto(p, "failed")
  /\ UNCHANGED <<cmd, config, seen, draft, file, users, damaged>>

\* The server cannot be reached, or its answer is lost: the user may be there.
LoseReply(p) ==
  /\ pc[p] \in {"post", "reply"}
  /\ Fault
  /\ Goto(p, "failed")
  /\ UNCHANGED <<cmd, config, seen, draft, file, users, damaged>>

Reply(p) ==
  /\ pc[p] = "reply"
  /\ Goto(p, "save")
  /\ UNCHANGED <<cmd, config, seen, draft, file, users, damaged, faults>>

\* The text of f with the key put into its api_key line.
WithKey(f, key) == IF f = Garbled THEN f ELSE Config(HasHost(f), key)

\* Mutant: a file without the line is given one.
ReadsFile(f) == f # Missing

HasKeyLine(f) == f \notin {Missing, Empty}

\* saveAPIKey reads the home file again, whatever --config said, and makes the new
\* text of it; without an api_key line to replace the key is only printed.
ReadHome(p) ==
  /\ pc[p] = "save"
  /\ IF HasKeyLine(file.home)
     THEN draft' = [draft EXCEPT ![p] = WithKey(file.home, p)] /\ Goto(p, "replace")
     ELSE Goto(p, "printed") /\ UNCHANGED draft
  /\ UNCHANGED <<cmd, config, seen, file, users, damaged, faults>>

\* The text goes back, whatever others have made of the file since.
SaveAPIKey(p) ==
  /\ pc[p] = "replace"
  /\ Truncate(p)
  /\ UNCHANGED <<cmd, config, seen, draft, users, damaged, faults>>

-------------------------------------------------------------------------------
(* chatatui.                                                               *)

\* APIKeyAuth looks the key up.
Connect(p) ==
  /\ pc[p] = "connect"
  /\ Goto(p, IF seen[p].key \in users THEN "in" ELSE "refused")
  /\ UNCHANGED <<cmd, config, seen, draft, file, users, damaged, faults>>

Ended == {"failed", "killed", "created", "saved", "printed", "in", "refused"}

Terminated == (\A p \in Procs : pc[p] \in Ended) /\ UNCHANGED vars

Next ==
  \/ \E p \in Procs :
       \/ \E c \in {"init", "register", "client"}, name \in {"home", "other"} :
            Start(p, c, name)
       \/ Stat(p) \/ Create(p) \/ Write(p)
       \/ Handle(p) \/ Refuse(p) \/ LoseReply(p) \/ Reply(p)
       \/ ReadHome(p) \/ SaveAPIKey(p)
       \/ Connect(p)
       \/ Kill(p)
  \/ Terminated

Spec == Init /\ [][Next]_vars

-------------------------------------------------------------------------------
(* Properties.                                                             *)

\* Every variable keeps its type.
TypeOK ==
  /\ cmd \in [Procs -> {"none", "init", "register", "client"}]
  /\ config \in [Procs -> {"home", "other"}]
  /\ pc \in [Procs -> Ended \cup {"new", "stat", "create", "write", "post", "reply",
                                  "save", "replace", "connect"}]
  /\ seen \in [Procs -> Contents]
  /\ draft \in [Procs -> Contents]
  /\ file \in [home : Contents, other : Contents]
  /\ users \subseteq Procs
  /\ damaged \in BOOLEAN
  /\ faults \in 0..MaxFaults

\* A key never gets into the config file, nor to a client, before its user is in
\* the database: whoever was killed, refused or lost an answer, the client is
\* not turned away for an unknown key.
KeyRegistered ==
  /\ HasKey(file.home) => file.home.key \in users
  /\ \A p \in Procs : pc[p] # "refused"

\* Whatever commands run side by side, none of them takes the host out of the
\* config file: it is there, or the process that truncated the file is about to
\* write it back.
HostKept ==
  [][HasHost(file.home) /\ ~damaged'
     => \/ HasHost(file'.home)
        \/ \E p \in Procs : pc'[p] = "write" /\ HasHost(draft'[p])]_vars

Saved == {p \in Procs : pc[p] = "saved"}

\* When no write is in progress the file holds the key of one of the commands
\* that said "api_key saved to config": no later command, init or register,
\* loses it without another taking its place.
SavedKeyThere ==
  ~damaged /\ Saved # {} /\ (\A p \in Procs : pc[p] # "write")
    => HasKey(file.home) /\ file.home.key \in Saved
================================================================================
