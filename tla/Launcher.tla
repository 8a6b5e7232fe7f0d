------------------------------ MODULE Launcher ------------------------------
(***************************************************************************)
(* A launch from its first step that opens something to its end: what it   *)
(* opens and the order it lets go of it, the signals it passes on to       *)
(* Claude Code, the directories other launches leave and who sweeps them,  *)
(* and ccwrap stop.                                                        *)
(*                                                                         *)
(* Source: cmd/ccwrap/launcher.go and sessions.go, internal/discovery,     *)
(* internal/manifest, internal/procmeta, supervisor.Run and Shutdown.      *)
(* This is the launch in question; the others are seen by what they leave  *)
(* on the disk.                                                            *)
(***************************************************************************)
EXTENDS CertAuthority, Sequences, SequencesExt

CONSTANTS
  This,         \* the launch in question
  Pdeathsig,    \* Linux kills Claude Code with its launcher (childSysProcAttr)
  MaxSignals,   \* stop signals there are
  MaxSweeps,    \* runs of ccwrap gc
  MaxMisreads   \* live launches that a scan takes for dead

ASSUME LauncherAssumption ==
  /\ This \in Launches /\ Pdeathsig \in BOOLEAN
  /\ MaxSignals \in Nat /\ MaxSweeps \in Nat /\ MaxMisreads \in Nat
  /\ IsFiniteSet(Launches)

VARIABLES
  step,      \* the step of the launch that comes next
  stack,     \* rollback: what the launch has to let go of, latest last
  up,        \* which processes run
  dir,       \* the sessions' directories: none, bare, or with a manifest
  found,     \* what a sweep that runs has found stale, by who runs it
  sup,       \* none, starting, serving, stopped (by Shutdown), returned (by itself)
  session,   \* none, open, closed (by the launcher) or ending (by the monitor),
             \* which is to say marked, and ended, when it is announced
  reason,    \* why the launch ends (closeReason)
  argFile,   \* the settings file under Claude Code's temp root
  claude,    \* none, running, exited
  relay,     \* [queued, first, graced, killed] of relaySignals
  stop,      \* ccwrap stop: what it said last, and whether its SIGTERM is due
  past       \* what there has been: signals, runs of gc, live launches a scan took
             \* for dead, calls to the supervisor whose answer did not come

launcherVars == <<step, stack, up, dir, found, sup, session, reason, argFile, claude, relay,
                  stop, past>>

Sweepers == {This, "gc"}
Others == Launches \ {This}
Idle == {Nobody}

Steps ==
  {"ResolveClaudeBin", "PreparePaths", "EnsureCA", "StartSupervisor", "AwaitControl",
   "CreateSession", "WriteSessionSettings", "SpawnChild", "ForwardSignals", "Attach", "Wait"}

LauncherTypeOK ==
  /\ step \in Steps \union {"sweep", "compose", "inspect", "snapshot", "resolve", "teardown",
                            "done", "died"}
  /\ stack \in Seq({"dir", "supervisor", "session", "argFile", "kill", "signals"})
  /\ up \in [Launches -> BOOLEAN] /\ dir \in [Launches -> {"none", "bare", "manifest"}]
  /\ found \in [Sweepers -> (SUBSET Launches) \union {Idle}]
  /\ sup \in {"none", "starting", "serving", "stopped", "returned"}
  /\ session \in {"none", "open", "closed", "ending", "ended"}
  /\ claude \in {"none", "running", "exited"}
  /\ reason \in {"launcher rollback", "exited", "stopped", "supervisor exited"}
  /\ argFile \in BOOLEAN
  /\ stop \in [said : {"idle", "asked", "stopped", "guessed", "failed"}, due : BOOLEAN]
  /\ relay \in [queued : 0..MaxSignals + 1, first : {"none", "fresh", "old"},
                graced : BOOLEAN, killed : BOOLEAN]
  /\ past \in [signals : 0..MaxSignals, sweeps : 0..MaxSweeps, misread : SUBSET Launches,
               missed : SUBSET {"create", "close"}]

LauncherInit ==
  /\ step = "sweep" /\ stack = <<>>
  /\ up = [p \in Launches |-> TRUE]
  /\ dir = [p \in Launches |-> "none"]
  /\ found = [w \in Sweepers |-> Idle]
  /\ sup = "none" /\ session = "none" /\ reason = "launcher rollback"
  /\ argFile = FALSE /\ claude = "none"
  /\ relay = [queued |-> 0, first |-> "none", graced |-> FALSE, killed |-> FALSE]
  /\ stop = [said |-> "idle", due |-> FALSE]
  /\ past = [signals |-> 0, sweeps |-> 0, misread |-> {}, missed |-> {}]

(* Sweeps. *)

\* Mutant: a directory without a manifest counts as stale.
StaleOrBare(p) == dir[p] = "bare" \/ (dir[p] = "manifest" /\ ~up[p])

\* The start token tells a process from one that reuses its id.
StaleState(p) == dir[p] = "manifest" /\ ~up[p]

\* A token that cannot be read, or that ps gives where /proc gave the other,
\* says of a process that runs that it does not; so does a status of another
\* session's.
Misreadable(p) == dir[p] = "manifest" /\ up[p]

Scan(w, runs) ==
  /\ found[w] = Idle
  /\ \E wrong \in SUBSET {p \in Launches : Misreadable(p)} :
       /\ Cardinality(past.misread \union wrong) <= MaxMisreads
       /\ found' = [found EXCEPT ![w] = {p \in Launches : StaleState(p)} \union wrong]
       /\ past' = [past EXCEPT !.misread = @ \union wrong, !.sweeps = @ + runs]

RemoveAll(w) ==
  /\ found[w] # Idle
  /\ dir' = [p \in Launches |-> IF p \in found[w] THEN "none" ELSE dir[p]]
  /\ found' = [found EXCEPT ![w] = Idle]

GcScans ==
  /\ past.sweeps < MaxSweeps /\ Scan("gc", 1)
  /\ UNCHANGED <<step, stack, up, dir, sup, session, reason, argFile, claude, relay, stop, caVars>>

GcRemoves ==
  /\ RemoveAll("gc")
  /\ UNCHANGED <<step, stack, up, sup, session, reason, argFile, claude, relay, stop, past, caVars>>

SweepScans ==
  /\ step = "sweep" /\ Scan(This, 0)
  /\ UNCHANGED <<step, stack, up, dir, sup, session, reason, argFile, claude, relay, stop, caVars>>

SweepRemoves ==
  /\ step = "sweep" /\ RemoveAll(This) /\ step' = "compose"
  /\ UNCHANGED <<stack, up, sup, session, reason, argFile, claude, relay, stop, past, caVars>>

(* The steps.  Each leads to the next or to the teardown.                     *)

Goes(s) == step' = s
Fails == Goes("teardown")
Push(c) == stack' = Append(stack, c)

ResolveClaudeBin ==
  /\ step = "ResolveClaudeBin" /\ (Goes("PreparePaths") \/ Fails)
  /\ UNCHANGED <<stack, up, dir, found, sup, session, reason, argFile, claude, relay, stop, past,
                 caVars>>

PreparePaths ==
  /\ step = "PreparePaths"
  /\ \/ Goes("EnsureCA") /\ Push("dir") /\ dir' = [dir EXCEPT ![This] = "bare"]
     \/ Fails /\ UNCHANGED <<stack, dir>>
  /\ UNCHANGED <<up, found, sup, session, reason, argFile, claude, relay, stop, past, caVars>>

EnsuresCA ==
  /\ step = "EnsureCA"
  /\ \/ EnsureCA(This) /\ UNCHANGED step
     \/ at[This] = "ready" /\ Goes("StartSupervisor") /\ UNCHANGED caVars
     \/ at[This] = "failed" /\ Fails /\ UNCHANGED caVars
  /\ UNCHANGED <<stack, up, dir, found, sup, session, reason, argFile, claude, relay, stop, past>>

StartSupervisor ==
  /\ step = "StartSupervisor"
  /\ \/ sup' = "starting" /\ Push("supervisor") /\ Goes("AwaitControl")
     \/ Fails /\ UNCHANGED <<sup, stack>>
  /\ UNCHANGED <<up, dir, found, session, reason, argFile, claude, relay, stop, past, caVars>>

\* Run: it listens in the session's directory and serves; it may also return.
SupervisorServes ==
  /\ up[This] /\ sup = "starting" /\ dir[This] # "none" /\ sup' = "serving"
  /\ UNCHANGED <<step, stack, up, dir, found, session, reason, argFile, claude, relay, stop, past,
                 caVars>>

SupervisorReturns ==
  /\ up[This] /\ sup \in {"starting", "serving"} /\ sup' = "returned"
  /\ UNCHANGED <<step, stack, up, dir, found, session, reason, argFile, claude, relay, stop, past,
                 caVars>>

AwaitControl ==
  /\ step = "AwaitControl"
  /\ \/ sup = "serving" /\ Goes("CreateSession")
     \/ Fails
  /\ UNCHANGED <<stack, up, dir, found, sup, session, reason, argFile, claude, relay, stop, past,
                 caVars>>

Misses(call) == past' = [past EXCEPT !.missed = @ \union {call}]

\* The call is answered and the manifest written, or not; or it fails, be it
\* that the session has been made.
CreateSession ==
  /\ step = "CreateSession"
  /\ \/ /\ sup = "serving" /\ session' = "open" /\ Push("session") /\ UNCHANGED past
        /\ \/ Goes("WriteSessionSettings") /\ dir' = [dir EXCEPT ![This] = "manifest"]
           \/ Fails /\ UNCHANGED dir
     \/ /\ sup = "serving" /\ session' = "open" /\ Misses("create") /\ Fails
        /\ UNCHANGED <<stack, dir>>
     \/ Fails /\ UNCHANGED <<stack, session, dir, past>>
  /\ UNCHANGED <<up, found, sup, reason, argFile, claude, relay, stop, caVars>>

\* A directory that has gone is made again for what is written in it.
Remade(p) == [dir EXCEPT ![p] = IF @ = "none" THEN "bare" ELSE @]

\* The settings go in a file of their own where the user's came in one.
WriteSessionSettings(inFile) ==
  /\ step = "WriteSessionSettings"
  /\ \/ Goes("SpawnChild") /\ dir' = Remade(This) /\ argFile' = inFile /\ Push("argFile")
     \/ Fails /\ dir' \in {dir, Remade(This)} /\ UNCHANGED <<argFile, stack>>
  /\ UNCHANGED <<up, found, sup, session, reason, claude, relay, stop, past, caVars>>

SpawnChild ==
  /\ step = "SpawnChild"
  /\ \/ Goes("ForwardSignals") /\ claude' = "running" /\ Push("kill")
     \/ Fails /\ UNCHANGED <<claude, stack>>
  /\ UNCHANGED <<up, dir, found, sup, session, reason, argFile, relay, stop, past, caVars>>

ForwardSignalsToChild ==
  /\ step = "ForwardSignals" /\ Goes("Attach") /\ Push("signals")
  /\ UNCHANGED <<up, dir, found, sup, session, reason, argFile, claude, relay, stop, past, caVars>>

\* The call goes to the socket in the directory.
Attach ==
  /\ step = "Attach"
  /\ \/ sup = "serving" /\ session = "open" /\ dir[This] = "manifest" /\ Goes("Wait")
     \/ Fails
  /\ UNCHANGED <<stack, up, dir, found, sup, session, reason, argFile, claude, relay, stop, past,
                 caVars>>

\* Mutant: only Claude Code's end is waited for.
WaitForClaude ==
  /\ step = "Wait" /\ claude = "exited"
  /\ reason' = (IF relay.first = "none" THEN "exited" ELSE "stopped") /\ Goes("teardown")
  /\ UNCHANGED <<stack, up, dir, found, sup, session, argFile, claude, relay, stop, past, caVars>>

Wait ==
  /\ step = "Wait" /\ Goes("teardown")
  /\ \/ /\ claude = "exited" /\ UNCHANGED claude
        /\ reason' = IF relay.first = "none" THEN "exited" ELSE "stopped"
     \/ sup = "returned" /\ claude' = "exited" /\ reason' = "supervisor exited"
  /\ UNCHANGED <<stack, up, dir, found, sup, session, argFile, relay, stop, past, caVars>>

(* The teardown: the cleanups, the latest first, then the process ends.       *)

\* The call to close the session is answered when the handler has announced the
\* end, or at once if the monitor was first; or there is no answer within 2 s
\* and the launcher goes on.
ClosesSession ==
  \/ sup = "serving" /\ session \in {"ending", "ended"} /\ UNCHANGED past
  \/ Misses("close")

\* closeSession for the launcher: the session is marked, and announced when the
\* proxy and the bodies have gone (Announces).  An answer nobody waits for any
\* more does not stop it.
HandlesClose ==
  /\ up[This] /\ sup = "serving" /\ session = "open" /\ step = "teardown"
  /\ (stack # <<>> /\ Last(stack) = "session") \/ "close" \in past.missed
  /\ session' = "closed"
  /\ UNCHANGED <<step, stack, up, dir, found, sup, reason, argFile, claude, relay, stop, past,
                 caVars>>

Announces ==
  /\ up[This] /\ sup = "serving" /\ session \in {"closed", "ending"} /\ session' = "ended"
  /\ UNCHANGED <<step, stack, up, dir, found, sup, reason, argFile, claude, relay, stop, past,
                 caVars>>

\* A request that is still forwarded writes its body, and the directory for it,
\* until the session's end closes the store.
Lingers == session \in {"open", "closed", "ending"}

WritesBody ==
  /\ up[This] /\ Lingers /\ dir[This] = "none" /\ dir' = Remade(This)
  /\ UNCHANGED <<step, stack, up, found, sup, session, reason, argFile, claude, relay, stop, past,
                 caVars>>

Cleans(c) ==
  /\ dir' = (IF c = "dir" THEN [dir EXCEPT ![This] = "none"] ELSE dir)
  /\ sup' = (IF c = "supervisor" /\ sup = "serving" THEN "stopped" ELSE sup)
  /\ argFile' = (argFile /\ c # "argFile")
  /\ claude' = (IF c = "kill" THEN "exited" ELSE claude)
  /\ IF c = "session" THEN ClosesSession ELSE UNCHANGED past

\* Mutant: the cleanups run in the order they were pushed.
OldestFirst ==
  /\ step = "teardown" /\ stack # <<>>
  /\ Cleans(Head(stack)) /\ stack' = Tail(stack)
  /\ UNCHANGED <<step, up, found, session, reason, relay, stop, caVars>>

Rollback ==
  /\ step = "teardown" /\ stack # <<>>
  /\ Cleans(Last(stack)) /\ stack' = Front(stack)
  /\ UNCHANGED <<step, up, found, session, reason, relay, stop, caVars>>

\* A supervisor that was still to serve when it was shut down ends with it.
Exit ==
  /\ step = "teardown" /\ stack = <<>> /\ Goes("done")
  /\ up' = [up EXCEPT ![This] = FALSE] /\ Gone(This)
  /\ sup' = (IF sup \in {"starting", "serving"} THEN "stopped" ELSE sup)
  /\ UNCHANGED <<stack, dir, found, session, reason, argFile, claude, relay, stop, past>>

\* The process ends at once.  RemoveAll may have removed the manifest.
Dies ==
  /\ up' = [up EXCEPT ![This] = FALSE] /\ Goes("died") /\ Gone(This)
  /\ claude' = (IF claude = "running" /\ Pdeathsig THEN "exited" ELSE claude)
  /\ \/ UNCHANGED dir
     \/ /\ step = "teardown" /\ stack = <<"dir">> /\ dir[This] = "manifest"
        /\ dir' = [dir EXCEPT ![This] = "bare"]
  /\ UNCHANGED <<stack, found, sup, session, reason, argFile>>

\* SIGKILL, the out-of-memory killer, a panic in a goroutine.
HardKill ==
  /\ up[This] /\ past.signals < MaxSignals /\ past' = [past EXCEPT !.signals = @ + 1]
  /\ Dies /\ UNCHANGED <<relay, stop>>

(* Signals.  The handler is there while "signals" is in the stack; without    *)
(* it a stop signal ends the process.                                         *)

Handles == "signals" \in ToSet(stack)

Interrupts ==
  \/ /\ Handles /\ relay' = [relay EXCEPT !.queued = @ + 1]
     /\ UNCHANGED <<step, stack, up, dir, found, sup, session, reason, argFile, claude, caVars>>
  \/ ~Handles /\ Dies /\ UNCHANGED relay

Signal ==
  /\ up[This] /\ past.signals < MaxSignals /\ past' = [past EXCEPT !.signals = @ + 1]
  /\ Interrupts /\ UNCHANGED stop

\* A signal this long after the first asks for a kill; the same one delivered
\* twice does not.
AsksForKill(r) == r.first = "old"

\* Every signal is passed on; what Claude Code makes of it is its own matter.
RelaySignal ==
  /\ up[This] /\ Handles /\ relay.queued > 0
  /\ claude' = (IF AsksForKill(relay) /\ ~relay.killed THEN "exited" ELSE claude)
  /\ relay' = [relay EXCEPT !.queued = @ - 1, !.killed = @ \/ AsksForKill(relay),
                            !.first = IF @ = "none" THEN "fresh" ELSE @]
  /\ UNCHANGED <<step, stack, up, dir, found, sup, session, reason, argFile, stop, past, caVars>>

\* stopRepeatGap and stopGrace after the first signal.
GapPasses ==
  /\ up[This] /\ Handles /\ relay.first = "fresh" /\ relay' = [relay EXCEPT !.first = "old"]
  /\ UNCHANGED <<step, stack, up, dir, found, sup, session, reason, argFile, claude, stop, past,
                 caVars>>

GraceOver ==
  /\ up[This] /\ Handles /\ relay.first = "old" /\ ~relay.graced
  /\ relay' = [relay EXCEPT !.graced = TRUE, !.killed = TRUE]
  /\ claude' = (IF relay.killed THEN claude ELSE "exited")
  /\ UNCHANGED <<step, stack, up, dir, found, sup, session, reason, argFile, stop, past, caVars>>

ClaudeExits ==
  /\ claude = "running" /\ claude' = "exited"
  /\ UNCHANGED <<step, stack, up, dir, found, sup, session, reason, argFile, relay, stop, past,
                 caVars>>

\* monitorSessions finds the attached Claude Code gone.
MonitorEndsSession ==
  /\ up[This] /\ sup = "serving" /\ session = "open" /\ step \in {"Wait", "teardown"}
  /\ claude = "exited" /\ session' = "ending"
  /\ UNCHANGED <<step, stack, up, dir, found, sup, reason, argFile, claude, relay, stop, past,
                 caVars>>

(* ccwrap stop.  Its probes are answered while the supervisor serves, or time  *)
(* out all the same.                                                          *)

Reachable == up[This] /\ dir[This] = "manifest" /\ sup = "serving"

\* The request is taken, whether or not its answer is received.
RequestStop ==
  /\ stop.said = "idle" /\ Reachable /\ session # "none"
  /\ \E said \in {"asked", "failed"} : stop' = [said |-> said, due |-> TRUE]
  /\ UNCHANGED <<step, stack, up, dir, found, sup, session, reason, argFile, claude, relay, past,
                 caVars>>

\* handleShutdown's SIGTERM to its own process.
HandleShutdown ==
  /\ up[This] /\ stop.due /\ stop' = [stop EXCEPT !.due = FALSE] /\ Interrupts /\ UNCHANGED past

\* It says "stopped" when a probe finds the session gone, and also when a probe
\* of one that is there gets no answer ("guessed"); at its deadline it says that
\* it has asked ("failed").
WaitForSessionStop ==
  /\ stop.said = "asked"
  /\ \E said \in IF Reachable THEN {"guessed", "failed"} ELSE {"stopped"} :
       stop' = [stop EXCEPT !.said = said]
  /\ UNCHANGED <<step, stack, up, dir, found, sup, session, reason, argFile, claude, relay, past,
                 caVars>>

(* Other launches. *)

OtherRuns(p) == p \in Others /\ up[p]

\* At its start, or again after a sweep that was wrong.
OtherPrepares(p) ==
  /\ OtherRuns(p) /\ at[p] \in {"outside", "ready"} /\ dir[p] = "none" /\ dir' = Remade(p)
  /\ UNCHANGED <<step, stack, up, found, sup, session, reason, argFile, claude, relay, stop, past,
                 caVars>>

OtherEnsuresCA(p) ==
  /\ OtherRuns(p) /\ dir[p] = "bare" /\ EnsureCA(p) /\ UNCHANGED launcherVars

OtherWritesManifest(p) ==
  /\ OtherRuns(p) /\ dir[p] # "manifest" /\ at[p] = "ready"
  /\ dir' = [dir EXCEPT ![p] = "manifest"]
  /\ UNCHANGED <<step, stack, up, found, sup, session, reason, argFile, claude, relay, stop, past,
                 caVars>>

\* It returns and cleans up, or dies and leaves what there is.
OtherEnds(p) ==
  /\ OtherRuns(p) /\ up' = [up EXCEPT ![p] = FALSE] /\ Gone(p)
  /\ dir' \in {dir, [dir EXCEPT ![p] = "none"]}
  /\ UNCHANGED <<step, stack, found, sup, session, reason, argFile, claude, relay, stop, past>>

Other == \E p \in Others :
  OtherPrepares(p) \/ OtherEnsuresCA(p) \/ OtherWritesManifest(p) \/ OtherEnds(p)

\* The steps that see no more of the launch than this; CreateSession,
\* WriteSessionSettings and SpawnChild are the other three.
PlainSteps ==
  \/ SweepScans \/ SweepRemoves
  \/ ResolveClaudeBin \/ PreparePaths \/ EnsuresCA \/ StartSupervisor \/ AwaitControl
  \/ ForwardSignalsToChild \/ Attach \/ Wait
  \/ Rollback \/ Exit

Environment ==
  \/ SupervisorServes \/ SupervisorReturns \/ HardKill \/ Signal \/ RelaySignal \/ GapPasses
  \/ GraceOver \/ ClaudeExits \/ MonitorEndsSession \/ HandlesClose \/ Announces \/ WritesBody
  \/ RequestStop \/ HandleShutdown \/ WaitForSessionStop
  \/ GcScans \/ GcRemoves \/ Other
=============================================================================
