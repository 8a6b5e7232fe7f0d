-------------------------- MODULE ProfilesWriters ---------------------------
(***************************************************************************)
(* The processes that read and replace profiles.json: launches, ccwrap     *)
(* profile commands, and the request handlers of one long-lived process (a *)
(* session's supervisor or the ui service) that share one Store.           *)
(*                                                                         *)
(* Every edit holds profiles.Lock from its load to its rename; a handler   *)
(* holds the Store's mutex around it.  The new file is written to a        *)
(* temporary file and renamed, or linked when profiles.json did not exist. *)
(* Launches and `profile rm` also read without the lock.  A process may    *)
(* die between any two steps: its lock is released, its temporary file     *)
(* stays.                                                                  *)
(***************************************************************************)
EXTENDS ProfilesFile

CONSTANTS
  Launches, Clis, Handlers,
  Server,         \* the process the handlers run in
  KeysOnStdin,    \* the commands that read their key from standard input
  Asks,           \* the edits handlers and commands may ask for
  InitialFiles,
  MaxEdits,       \* bound: edits per handler
  MaxEditors,     \* bound: actors that ask for an edit
  MaxDeaths,      \* bound: processes that die
  Torn,           \* the content of a file written in part
  Failed,         \* the launch could not read or resolve its profile
  None

Actors == Launches \cup Clis \cup Handlers
Processes == Launches \cup Clis \cup {Server}
Members(p) == IF p = Server THEN Handlers ELSE {p}

ASSUME ActorsAssumption ==
  /\ None \notin Actors
  /\ Server \notin Launches \cup Clis
  /\ KeysOnStdin \subseteq Clis
  /\ Launches \cap Clis = {} /\ Launches \cap Handlers = {} /\ Clis \cap Handlers = {}
ASSUME AsksAssumption == Asks \subseteq Edits
ASSUME InitialFilesAssumption == InitialFiles \subseteq ValidFiles \cup {NoFile}
ASSUME BoundsAssumption == {MaxEdits, MaxEditors, MaxDeaths} \subseteq Nat
ASSUME MarksAssumption ==
  /\ Torn \notin Files \cup {NoFile}
  /\ None \notin Files \cup {Torn}
  /\ {Failed, None} \cap Defaults = {}
  /\ Failed # None

VARIABLES
  file,      \* profiles.json: NoFile, a file, or Torn
  temp,      \* each actor's temporary file: None, Torn or a file
  lock,      \* the holder of profiles.Lock
  mu,        \* the holder of the Store's mutex
  pc,        \* where each actor is
  edit,      \* its edit
  asked,     \* how many edits it asked for
  next,      \* the file it is about to write, or has loaded and not yet changed
  creates,   \* whether WriteFile writes it
  outcome,   \* none, done, refused or failed
  resolved   \* the profile each launch starts with; None before it asks

vars == <<file, temp, lock, mu, pc, edit, asked, next, creates, outcome, resolved>>

Loaded == {"write", "filling", "full"}        \* between load and rename
Locked == Loaded \cup {"locked", "stdin", "clean", "unlock"}

TypeOK ==
  /\ file \in ValidFiles \cup {NoFile}
  /\ temp \in [Actors -> Files \cup {Torn, None}]
  /\ lock \in Actors \cup {None}
  /\ mu \in Handlers \cup {None}
  /\ pc \in [Actors -> {"idle", "peek", "prompt", "asked", "inStore", "leave", "dead"}
                         \cup Locked]
  /\ edit \in [Actors -> Edits]
  /\ asked \in [Actors -> Nat]
  /\ next \in [Actors -> Files \cup {NoFile, None}]
  /\ creates \in [Actors -> BOOLEAN]
  /\ outcome \in [Actors -> {"none", "done", "refused", "failed"}]
  /\ resolved \in [Launches -> Defaults \cup {Failed, None}]

EnsureEdit == [kind |-> "ensure", name |-> Official, url |-> EnvUrl,
               target |-> CHOOSE t \in Targets : TRUE, set |-> FALSE]
MigrateEdit(n) == [EnsureEdit EXCEPT !.kind = "migrate", !.name = n]

Init ==
  /\ file \in InitialFiles
  /\ temp = [a \in Actors |-> None]
  /\ lock = None
  /\ mu = None
  /\ pc = [a \in Actors |-> "idle"]
  /\ edit = [a \in Actors |-> EnsureEdit]
  /\ asked = [a \in Actors |-> 0]
  /\ next = [a \in Actors |-> None]
  /\ creates = [a \in Actors |-> FALSE]
  /\ outcome = [a \in Actors |-> "none"]
  /\ resolved = [l \in Launches |-> None]

Goto(a, l) == pc' = [pc EXCEPT ![a] = l]
Answer(a, o) == outcome' = [outcome EXCEPT ![a] = o]

-----------------------------------------------------------------------------
\* What each kind of actor asks for: a launch makes sure of the official profile
\* and then migrates the environment, a command makes one edit.
MayAsk(a) ==
  CASE a \in Launches /\ asked[a] = 0 -> {EnsureEdit}
    [] a \in Launches /\ asked[a] = 1 -> {MigrateEdit(n) : n \in Names}
    [] a \in Clis /\ asked[a] = 0 ->
         {e \in Asks : e.kind \in {"cliAdd", "edit", "cliRm", "cliDefault"}}
    [] a \in Handlers /\ asked[a] < MaxEdits ->
         {e \in Asks : e.kind \in {"add", "edit", "remove", "setDefault", "modelDefault"}}
    [] OTHER -> {}

Ask(a, e) ==
  /\ pc[a] = "idle"
  /\ Cardinality({b \in Actors : b = a \/ asked[b] > 0}) <= MaxEditors
  /\ a \in Launches => resolved[a] = None
  /\ edit' = [edit EXCEPT ![a] = e]
  /\ asked' = [asked EXCEPT ![a] = @ + 1]
  /\ Goto(a, IF e.kind \in {"cliRm", "migrate"} THEN "peek" ELSE "asked")
  /\ Answer(a, "none")
  /\ UNCHANGED <<file, temp, lock, mu, next, creates, resolved>>

\* `profile rm` and the migration look at the file before they take the lock.
PeekStop(a) ==
  /\ pc[a] = "peek"
  /\ PeekStops(edit[a], file)
  /\ Goto(a, "idle")
  /\ Answer(a, "refused")
  /\ UNCHANGED <<file, temp, lock, mu, edit, asked, next, creates, resolved>>

\* Mutant: the lock is taken before the prompt.
PeekPassLocks(a) ==
  /\ pc[a] = "peek"
  /\ ~PeekStops(edit[a], file)
  /\ lock = None
  /\ lock' = IF edit[a].kind = "migrate" THEN a ELSE lock
  /\ Goto(a, IF edit[a].kind = "migrate" THEN "prompt" ELSE "asked")
  /\ UNCHANGED <<file, temp, mu, edit, asked, next, creates, outcome, resolved>>

\* The migration then asks the user for a name, `profile rm` scans sessions.
PeekPass(a) ==
  /\ pc[a] = "peek"
  /\ ~PeekStops(edit[a], file)
  /\ Goto(a, IF edit[a].kind = "migrate" THEN "prompt" ELSE "asked")
  /\ UNCHANGED <<file, temp, lock, mu, edit, asked, next, creates, outcome, resolved>>

PromptAnswered(a) ==
  /\ pc[a] = "prompt"
  /\ Goto(a, "asked")
  /\ UNCHANGED <<file, temp, lock, mu, edit, asked, next, creates, outcome, resolved>>

PromptAborted(a) ==
  /\ pc[a] = "prompt"
  /\ Goto(a, "idle")
  /\ Answer(a, "failed")
  /\ UNCHANGED <<file, temp, lock, mu, edit, asked, next, creates, resolved>>

LockStore(a) ==
  /\ a \in Handlers
  /\ pc[a] = "asked"
  /\ mu = None
  /\ mu' = a
  /\ Goto(a, "inStore")
  /\ UNCHANGED <<file, temp, lock, edit, asked, next, creates, outcome, resolved>>

AtLock(a) == pc[a] = IF a \in Handlers THEN "inStore" ELSE "asked"
\* Mutant: only the Store's mutex is taken.
LockFileUnlocked(a) ==
  /\ AtLock(a)
  /\ Goto(a, "locked")
  /\ UNCHANGED <<file, temp, lock, mu, edit, asked, next, creates, outcome, resolved>>

LockFile(a) ==
  /\ AtLock(a)
  /\ lock = None
  /\ lock' = a
  /\ Goto(a, "locked")
  /\ UNCHANGED <<file, temp, mu, edit, asked, next, creates, outcome, resolved>>

LockFails(a) ==
  /\ AtLock(a)
  /\ Goto(a, IF a \in Handlers THEN "leave" ELSE "idle")
  /\ Answer(a, "failed")
  /\ UNCHANGED <<file, temp, lock, mu, edit, asked, next, creates, resolved>>

\* add and edit with --auth-key-stdin: the key is read between the checks and
\* the validation, with the lock held.
ReadsKey(a) == a \in KeysOnStdin /\ edit[a].kind \in {"cliAdd", "edit"}

LoadRefused(a) ==
  /\ pc[a] = "locked"
  /\ IF ReadsKey(a) THEN CheckFails(edit[a], file) ELSE Refuses(edit[a], file)
  /\ Goto(a, "unlock")
  /\ Answer(a, "refused")
  /\ UNCHANGED <<file, temp, lock, mu, edit, asked, next, creates, resolved>>

NothingToDo(e, f) == e.kind = "ensure" /\ f # NoFile /\ EnsureResult(f) = f

LoadUnchanged(a) ==
  /\ pc[a] = "locked"
  /\ NothingToDo(edit[a], file)
  /\ Goto(a, "unlock")
  /\ Answer(a, "done")
  /\ UNCHANGED <<file, temp, lock, mu, edit, asked, next, creates, resolved>>

LoadAndChange(a) ==
  /\ pc[a] = "locked"
  /\ ~ReadsKey(a)
  /\ ~Refuses(edit[a], file)
  /\ ~NothingToDo(edit[a], file)
  /\ next' = [next EXCEPT ![a] = Result(edit[a], file)]
  /\ creates' = [creates EXCEPT ![a] = Creates(edit[a], file)]
  /\ Goto(a, "write")
  /\ UNCHANGED <<file, temp, lock, mu, edit, asked, outcome, resolved>>

AwaitKey(a) ==
  /\ pc[a] = "locked"
  /\ ReadsKey(a)
  /\ ~CheckFails(edit[a], file)
  /\ next' = [next EXCEPT ![a] = file]
  /\ Goto(a, "stdin")
  /\ UNCHANGED <<file, temp, lock, mu, edit, asked, creates, outcome, resolved>>

KeyRead(a) ==
  /\ pc[a] = "stdin"
  /\ ~Refuses(edit[a], next[a])
  /\ next' = [next EXCEPT ![a] = Result(edit[a], next[a])]
  /\ creates' = [creates EXCEPT ![a] = Creates(edit[a], next[a])]
  /\ Goto(a, "write")
  /\ UNCHANGED <<file, temp, lock, mu, edit, asked, outcome, resolved>>

KeyRefused(a) ==
  /\ pc[a] = "stdin"
  /\ Refuses(edit[a], next[a])
  /\ Goto(a, "unlock")
  /\ Answer(a, "refused")
  /\ UNCHANGED <<file, temp, lock, mu, edit, asked, next, creates, resolved>>

CreateTemp(a) ==
  /\ pc[a] = "write"
  /\ temp' = [temp EXCEPT ![a] = Torn]
  /\ Goto(a, "filling")
  /\ UNCHANGED <<file, lock, mu, edit, asked, next, creates, outcome, resolved>>

\* Written, synced and closed.
FillTemp(a) ==
  /\ pc[a] = "filling"
  /\ temp' = [temp EXCEPT ![a] = next[a]]
  /\ Goto(a, "full")
  /\ UNCHANGED <<file, lock, mu, edit, asked, next, creates, outcome, resolved>>

\* Mutant: the temporary file stays.
WriteFailsKeepsTemp(a) ==
  /\ pc[a] \in Loaded \cup {"locked", "stdin"}
  /\ Goto(a, "unlock")
  /\ Answer(a, "failed")
  /\ UNCHANGED <<file, temp, lock, mu, edit, asked, next, creates, resolved>>

\* The load, the input, a write or the rename fails; the temporary file is removed.
WriteFails(a) ==
  /\ pc[a] \in Loaded \cup {"locked", "stdin"}
  /\ temp' = [temp EXCEPT ![a] = None]
  /\ Goto(a, "unlock")
  /\ Answer(a, "failed")
  /\ UNCHANGED <<file, lock, mu, edit, asked, next, creates, resolved>>

Rename(a) ==
  /\ pc[a] = "full"
  /\ ~creates[a]
  /\ file' = temp[a]
  /\ temp' = [temp EXCEPT ![a] = None]
  /\ Goto(a, "unlock")
  /\ Answer(a, "done")
  /\ UNCHANGED <<lock, mu, edit, asked, next, creates, resolved>>

\* Link fails when profiles.json has appeared.
Link(a) ==
  /\ pc[a] = "full"
  /\ creates[a]
  /\ file' = IF file = NoFile THEN temp[a] ELSE file
  /\ Answer(a, IF file = NoFile THEN "done" ELSE "failed")
  /\ Goto(a, "clean")
  /\ UNCHANGED <<temp, lock, mu, edit, asked, next, creates, resolved>>

RemoveTemp(a) ==
  /\ pc[a] = "clean"
  /\ temp' = [temp EXCEPT ![a] = None]
  /\ Goto(a, "unlock")
  /\ UNCHANGED <<file, lock, mu, edit, asked, next, creates, outcome, resolved>>

UnlockFile(a) ==
  /\ pc[a] = "unlock"
  /\ lock' = None
  /\ Goto(a, IF a \in Handlers THEN "leave" ELSE "idle")
  /\ next' = [next EXCEPT ![a] = None]
  /\ creates' = [creates EXCEPT ![a] = FALSE]
  /\ UNCHANGED <<file, temp, mu, edit, asked, outcome, resolved>>

LeaveStore(a) ==
  /\ pc[a] = "leave"
  /\ mu' = None
  /\ Goto(a, "idle")
  /\ UNCHANGED <<file, temp, lock, edit, asked, next, creates, outcome, resolved>>

\* The launch's profile when none is asked for by name.
Select(f) ==
  CASE f = NoFile -> InheritEnv
    [] f \notin {NoFile, Torn} /\ f.default \in NamesIn(f) \cup {InheritEnv} -> f.default
    [] OTHER -> Failed

ResolveProfile(l) ==
  /\ l \in Launches
  /\ pc[l] = "idle"
  /\ asked[l] > 0
  /\ resolved[l] = None
  /\ resolved' = [resolved EXCEPT ![l] = Select(file)]
  /\ UNCHANGED <<file, temp, lock, mu, pc, edit, asked, next, creates, outcome>>

\* A process dies: the kernel drops its flock, its mutex goes with it.
Dead(p) == \A a \in Members(p) : pc[a] = "dead"

Crash(p) ==
  /\ Cardinality({q \in Processes : Dead(q)}) < MaxDeaths
  /\ \E a \in Members(p) : pc[a] # "dead"
  /\ pc' = [a \in Actors |-> IF a \in Members(p) THEN "dead" ELSE pc[a]]
  /\ lock' = IF lock \in Members(p) THEN None ELSE lock
  /\ mu' = IF p = Server THEN None ELSE mu
  /\ UNCHANGED <<file, temp, edit, asked, next, creates, outcome, resolved>>

Step(a) ==
  \/ PeekStop(a) \/ PeekPass(a)
  \/ LockStore(a) \/ LockFile(a)
  \/ LoadRefused(a) \/ LoadUnchanged(a) \/ LoadAndChange(a) \/ AwaitKey(a)
  \/ CreateTemp(a) \/ FillTemp(a) \/ Rename(a) \/ Link(a) \/ RemoveTemp(a)
  \/ UnlockFile(a) \/ LeaveStore(a)

Next ==
  \/ \E a \in Actors : \/ \E e \in MayAsk(a) : Ask(a, e)
                       \/ PromptAnswered(a) \/ PromptAborted(a)
                       \/ KeyRead(a) \/ KeyRefused(a)
                       \/ LockFails(a) \/ WriteFails(a)
                       \/ Step(a)
  \/ \E l \in Launches : ResolveProfile(l)
  \/ \E p \in Processes : Crash(p)

Spec == Init /\ [][Next]_vars

\* A process that runs goes on, and nothing need fail; a user may leave the
\* prompt unanswered and the input open, and nothing need be asked.
Fairness == \A a \in Actors : WF_vars(Step(a))
FairSpec == Spec /\ Fairness

-----------------------------------------------------------------------------
Phase(a) ==
  CASE pc[a] = "dead"       -> "dead"
    [] pc[a] # "dead" /\ outcome[a] # "none" -> outcome[a]
    [] pc[a] = "idle" /\ outcome[a] = "none" -> "idle"
    [] OTHER                -> "asked"

Register == INSTANCE ProfilesRegister
  WITH MayRefuse <- PeekStops, phase <- [a \in Actors |-> Phase(a)]

\* However the processes interleave and wherever one dies, every edit is one
\* step on the file as it then is and every refusal is one the file then
\* deserves: no update is silently lost (lock.go:22) and a process that dies has
\* made its edit whole or not at all.
AtomicFile == Register!Spec

\* A launch that asks for no profile by name is never stopped by profiles.json,
\* whatever process died while it wrote the file (write.go:11, seed.go:260).
LaunchResolves == \A l \in Launches : resolved[l] # Failed

\* Neither lock is held by an actor that is not at an edit, nor across the
\* migration's prompt or the session scan of `profile rm` (migrate.go:135,
\* profile_crud.go:530), and only a death leaves a temporary file.
NothingLeftBehind ==
  \A a \in Actors :
    /\ pc[a] \in {"idle", "peek", "prompt", "dead"} => lock # a /\ mu # a
    /\ temp[a] # None => pc[a] \in {"filling", "full", "clean", "dead"}

\* Wherever a process fails or dies, the next finds a file it can read and a lock
\* it can have (write.go:52, lock.go:30).
CrashSafe == LaunchResolves /\ NothingLeftBehind

\* Unless a command's standard input stays open for ever, an edit past its
\* prompt is answered or its process dies, though others wait at a prompt for
\* ever or die with the lock.
EditsAnswered ==
  (\A c \in KeysOnStdin : []<>(pc[c] # "stdin"))
    => \A a \in Actors : pc[a] = "asked" ~> pc[a] \in {"idle", "dead"}

=============================================================================
