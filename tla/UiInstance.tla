------------------------------ MODULE UiInstance ------------------------------
(***************************************************************************)
(* One `ccwrap ui` per user: services that take a lock, listen and write   *)
(* ui.json, and exit when idle; and the commands that find, replace, start *)
(* and stop them, several at once.                                         *)
(*                                                                         *)
(* Sources: internal/uiservice/{instance,server}.go.  A service is alive   *)
(* to a command that reaches its socket; the files' contents are names.    *)
(***************************************************************************)
EXTENDS Naturals, FiniteSets

CONSTANTS
  Callers,   \* commands that call Ensure, or Stop
  Services,  \* `ui serve` processes that may be started
  Want,      \* the version each caller wants, or "stop" for `ui stop`
  MaxMishaps \* bound: services that break down

ASSUME UiInstanceAssumption ==
  /\ Services \intersect Callers = {}
  /\ "free" \notin Services \union Callers /\ "none" \notin Services
  /\ MaxMishaps \in Nat

VARIABLES
  dir,    \* the ui directory: [lock, sock, info], each whose it is
  svc,    \* each service: [pc, version, asked, idle, page]
  call,   \* each command: [pc, at, saw] (where, for what it asks, what it read)
  busy,   \* the hub lists a session
  mishaps \* services killed, unable to bind or to write ui.json, or idled out

uiVars == <<dir, svc, call, busy, mishaps>>

Alive == {"spawned", "locked", "bound", "answering", "serving", "noting",
          "stopping", "closed", "cleared"}
Ended == {"idle", "found", "done", "unstopped", "unstarted"}
Answering == {"answering", "serving", "noting", "stopping"}

UiInstanceTypeOK ==
  /\ dir \in [lock : Services \union Callers \union {"free"},
              sock : Services \union {"none"}, info : Services \union {"none"}]
  /\ svc \in [Services -> [pc : Alive \union {"none", "exited"},
                           version : {Want[c] : c \in Callers} \union {"none"},
                           asked : BOOLEAN, idle : BOOLEAN, page : BOOLEAN]]
  /\ call \in [Callers -> [pc : {"idle", "read", "ask", "shutdown", "probe",
                                 "probing", "start", "found", "done",
                                 "unstopped", "unstarted"},
                           at : {"ensure", "stop", "wait"},
                           saw : Services \union {"none"}]]
  /\ busy \in BOOLEAN /\ mishaps \subseteq Services

UiInstanceInit ==
  /\ dir = [lock |-> "free", sock |-> "none", info |-> "none"]
  /\ svc = [s \in Services |-> [pc |-> "none", version |-> "none",
              asked |-> FALSE, idle |-> FALSE, page |-> FALSE]]
  /\ call = [c \in Callers |-> [pc |-> "idle", at |-> "ensure", saw |-> "none"]]
  /\ busy = FALSE /\ mishaps = {}

\* A service breaks down.
Mishap(s) ==
  /\ s \in mishaps \/ Cardinality(mishaps) < MaxMishaps
  /\ mishaps' = mishaps \union {s}

(* Serve, in its order. *)

Goes(s, from, to) == svc[s].pc = from /\ svc' = [svc EXCEPT ![s].pc = to]

\* The lock is taken without waiting: whoever finds it held exits.
TakeLock(s) ==
  /\ IF dir.lock = "free"
       THEN Goes(s, "spawned", "locked") /\ dir' = [dir EXCEPT !.lock = s]
       ELSE Goes(s, "spawned", "exited") /\ UNCHANGED dir
  /\ UNCHANGED <<call, busy, mishaps>>

\* Remove the socket a dead service left, and listen; or fail and exit.
Bind(s) ==
  /\ \/ Goes(s, "locked", "bound") /\ dir' = [dir EXCEPT !.sock = s]
        /\ UNCHANGED mishaps
     \/ Goes(s, "locked", "exited") /\ dir' = [dir EXCEPT !.sock = "none", !.lock = "free"]
        /\ Mishap(s)
  /\ UNCHANGED <<call, busy>>

StartServing(s) ==
  /\ Goes(s, "bound", "answering")
  /\ UNCHANGED <<dir, call, busy, mishaps>>

\* A failure to write ui.json is only logged.
WriteInfo(s) ==
  /\ Goes(s, "answering", "serving")
  /\ \/ dir' = [dir EXCEPT !.info = s] /\ UNCHANGED mishaps
     \/ UNCHANGED dir /\ Mishap(s)
  /\ UNCHANGED <<call, busy>>

\* watchIdle asks for pages and sessions first, for the last activity then.
NoteAlone(s) ==
  /\ ~svc[s].page /\ ~busy
  /\ Goes(s, "serving", "noting")
  /\ UNCHANGED <<dir, call, busy, mishaps>>

NoteActivity(s) ==
  /\ IF svc[s].idle
       THEN Goes(s, "noting", "stopping") /\ mishaps' = mishaps \union {s}
       ELSE Goes(s, "noting", "serving") /\ UNCHANGED mishaps
  /\ UNCHANGED <<dir, call, busy>>

\* IdleTimeout is long against any call.
TimePasses(s) ==
  /\ \A c \in Callers : call[c].pc \in Ended
  /\ svc[s].pc \in {"serving", "noting"} /\ ~svc[s].page /\ ~busy
  /\ ~svc[s].idle
  /\ svc' = [svc EXCEPT ![s].idle = TRUE]
  /\ UNCHANGED <<dir, call, busy, mishaps>>

\* Mutant: the activity is noted before the check.
TouchAlways(s) ==
  /\ svc[s].pc = "serving" /\ svc[s].idle
  /\ svc' = [svc EXCEPT ![s].idle = FALSE]
  /\ UNCHANGED <<dir, call, busy, mishaps>>

\* It counts as activity that a page or a session is there.
Touch(s) ==
  /\ svc[s].pc = "serving" /\ (svc[s].page \/ busy)
  /\ svc[s].idle
  /\ svc' = [svc EXCEPT ![s].idle = FALSE]
  /\ UNCHANGED <<dir, call, busy, mishaps>>

SessionsComeAndGo ==
  /\ busy' = ~busy
  /\ UNCHANGED <<dir, svc, call, mishaps>>

HearShutdown(s) ==
  /\ svc[s].asked
  /\ Goes(s, "serving", "stopping")
  /\ UNCHANGED <<dir, call, busy, mishaps>>

\* Mutant: the lock is released before the files are cleared.
CloseServersUnlocks(s) ==
  /\ svc[s].pc = "stopping"
  /\ svc' = [svc EXCEPT ![s].pc = "closed", ![s].page = FALSE]
  /\ dir' = [dir EXCEPT !.sock = "none", !.lock = "free"]
  /\ UNCHANGED <<call, busy, mishaps>>

\* Both servers are shut down: streams end, and the listener unlinks its socket.
CloseServers(s) ==
  /\ svc[s].pc = "stopping"
  /\ svc' = [svc EXCEPT ![s].pc = "closed", ![s].page = FALSE]
  /\ dir' = [dir EXCEPT !.sock = "none"]
  /\ UNCHANGED <<call, busy, mishaps>>

ClearFiles(s) ==
  /\ Goes(s, "closed", "cleared")
  /\ dir' = [dir EXCEPT !.info = "none", !.sock = "none"]
  /\ UNCHANGED <<call, busy, mishaps>>

Unlock(s) ==
  /\ Goes(s, "cleared", "exited")
  /\ dir' = [dir EXCEPT !.lock = "free"]
  /\ UNCHANGED <<call, busy, mishaps>>

\* The kernel drops the lock and the listener; the files stay.
Kill(s) ==
  /\ svc[s].pc \in Alive
  /\ svc' = [svc EXCEPT ![s].pc = "exited", ![s].page = FALSE]
  /\ dir' = [dir EXCEPT !.lock = IF @ = s THEN "free" ELSE @,
                        !.sock = IF @ = s THEN "none" ELSE @]
  /\ Mishap(s)
  /\ UNCHANGED <<call, busy>>

\* A request counts as activity before it is handled, a page's stream too.
OpenPage(s) ==
  /\ svc[s].pc \in {"serving", "noting"} /\ ~svc[s].page
  /\ svc' = [svc EXCEPT ![s].page = TRUE, ![s].idle = FALSE]
  /\ UNCHANGED <<dir, call, busy, mishaps>>

ClosePage(s) ==
  /\ svc[s].page
  /\ svc' = [svc EXCEPT ![s].page = FALSE]
  /\ UNCHANGED <<dir, call, busy, mishaps>>

(* Ensure and Stop. *)

Turns(c, from, to) == call[c].pc = from /\ call' = [call EXCEPT ![c].pc = to]

Begin(c) ==
  /\ call[c].pc = "idle"
  /\ call' = [call EXCEPT ![c].pc = "read",
       ![c].at = IF Want[c] = "stop" THEN "stop" ELSE "ensure"]
  /\ UNCHANGED <<dir, svc, busy, mishaps>>

\* What a Running that finds no service means to its caller.
NotRunning(c) ==
  IF call[c].at = "ensure" THEN "start"
  ELSE IF call[c].at = "wait" THEN "read"
  ELSE IF Want[c] = "stop" THEN "done" ELSE "start"

\* Running, its first half: read ui.json.
ReadInfo(c) ==
  /\ call[c].pc = "read"
  /\ call' = [call EXCEPT ![c].saw = dir.info,
       ![c].pc = IF dir.info = "none" THEN NotRunning(c) ELSE "ask"]
  /\ UNCHANGED <<dir, svc, busy, mishaps>>

Reached(c) == dir.sock # "none" /\ svc[dir.sock].pc \in Answering

\* Its second half: the socket must answer with the instance just read.  The
\* first time the version counts, at the wait's end it does not.
Ask(c) ==
  /\ call[c].pc = "ask"
  /\ LET same == Reached(c) /\ dir.sock = call[c].saw
         next == IF ~same THEN NotRunning(c)
                 ELSE IF call[c].at = "stop" THEN "shutdown"
                 ELSE IF call[c].at = "wait" \/ svc[dir.sock].version = Want[c] THEN "found"
                 ELSE "read"
     IN  call' = [call EXCEPT ![c].pc = next,
           ![c].at = IF same /\ next = "read" THEN "stop" ELSE @]
  /\ svc' = IF Reached(c) THEN [svc EXCEPT ![dir.sock].idle = FALSE] ELSE svc
  /\ UNCHANGED <<dir, busy, mishaps>>

\* Mutant: nobody waits for the lock of the service that was asked to stop.
AskShutdownOnly(c) ==
  /\ IF Reached(c)
       THEN /\ Turns(c, "shutdown", IF Want[c] = "stop" THEN "done" ELSE "start")
            /\ svc' = [svc EXCEPT ![dir.sock].asked = TRUE]
       ELSE Turns(c, "shutdown", "unstopped") /\ UNCHANGED svc
  /\ UNCHANGED <<dir, busy, mishaps>>

\* The shutdown goes to whoever listens by now.
AskShutdown(c) ==
  /\ IF Reached(c)
       THEN Turns(c, "shutdown", "probe") /\ svc' = [svc EXCEPT ![dir.sock].asked = TRUE]
       ELSE Turns(c, "shutdown", "unstopped") /\ UNCHANGED svc
  /\ UNCHANGED <<dir, busy, mishaps>>

\* The lock is probed by taking it for a moment.
ProbeTakes(c) ==
  /\ dir.lock = "free"
  /\ Turns(c, "probe", "probing")
  /\ dir' = [dir EXCEPT !.lock = c]
  /\ UNCHANGED <<svc, busy, mishaps>>

ProbeLets(c) ==
  /\ Turns(c, "probing", IF Want[c] = "stop" THEN "done" ELSE "start")
  /\ dir' = [dir EXCEPT !.lock = "free"]
  /\ UNCHANGED <<svc, busy, mishaps>>

\* Two seconds, while a service that stops may take three.
ProbeTimesOut(c) ==
  /\ dir.lock # "free"
  /\ Turns(c, "probe", "unstopped")
  /\ UNCHANGED <<dir, svc, busy, mishaps>>

Start(c) ==
  /\ call[c].pc = "start"
  /\ \E s \in Services :
       /\ svc[s].pc = "none"
       /\ svc' = [svc EXCEPT ![s].pc = "spawned", ![s].version = Want[c]]
  /\ call' = [call EXCEPT ![c].pc = "read", ![c].at = "wait"]
  /\ UNCHANGED <<dir, busy, mishaps>>

\* The wait for a service is long against the steps of the others: it runs
\* out only when no sound service is there or on its way.
WaitTimesOut(c) ==
  /\ call[c].at = "wait"
  /\ Turns(c, "read", "unstarted")
  /\ \A s \in Services : svc[s].pc \in Alive => s \in mishaps
  /\ \A d \in Callers : call[d].pc \notin {"shutdown", "probe", "probing", "start"}
  /\ UNCHANGED <<dir, svc, busy, mishaps>>

ServiceStep(s) ==
  \/ TakeLock(s) \/ Bind(s) \/ StartServing(s) \/ WriteInfo(s)
  \/ NoteAlone(s) \/ NoteActivity(s) \/ Touch(s) \/ HearShutdown(s)
  \/ CloseServers(s) \/ ClearFiles(s) \/ Unlock(s)

UserStep(s) == TimePasses(s) \/ OpenPage(s) \/ ClosePage(s) \/ Kill(s)

CallStep(c) ==
  \/ ReadInfo(c) \/ Ask(c) \/ AskShutdown(c) \/ ProbeTakes(c) \/ ProbeLets(c)
  \/ ProbeTimesOut(c) \/ Start(c) \/ WaitTimesOut(c)

UiInstanceNext ==
  \/ \E s \in Services : ServiceStep(s) \/ UserStep(s)
  \/ \E c \in Callers : Begin(c) \/ CallStep(c)
  \/ SessionsComeAndGo

UiInstanceSpec == UiInstanceInit /\ [][UiInstanceNext]_uiVars

-----------------------------------------------------------------------------
\* Commands that replace and start services at once do not leave each other
\* without one (instance.go:151): Ensure waits in vain only if a service broke
\* down or idled out meanwhile, or another command stopped one and started
\* none: `ui stop`, or an Ensure that gave up.
EnsureFindsOne ==
  \A c \in Callers :
    call[c].pc = "unstarted" =>
      \/ mishaps # {}
      \/ \E d \in Callers : call[d].pc = "unstopped"
      \/ \E d \in Callers : Want[d] = "stop" /\ call[d].pc # "idle"

\* A service with no page, no session and no request in the end exits, and so
\* does whichever replaced it (server.go:238).
IdleExits ==
  (\E s \in Services : svc[s].pc = "serving") ~>
    \/ busy \/ \E s \in Services : svc[s].page
    \/ \A s \in Services : svc[s].pc \in {"none", "exited"}

\* Two services never undo each other's files: while one answers, its socket
\* and its ui.json stay its own, whoever else starts, stops or dies
\* (server.go:112, 120, 175); and the files hold nothing but what their kinds say.
FilesStay ==
  /\ []UiInstanceTypeOK
  /\ [][\A s \in Services :
          svc[s].pc \in Answering /\ svc'[s].pc \in Answering =>
            /\ dir.sock = s => dir'.sock = s
            /\ dir.info = s => dir'.info = s]_uiVars
=============================================================================
