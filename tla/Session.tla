------------------------------- MODULE Session -------------------------------
(***************************************************************************)
(* One ccwrap session: the launcher that creates, attaches and closes it,  *)
(* the posture its proxy handlers capture, and the control API calls that  *)
(* replace the posture while requests are in flight.                       *)
(*                                                                         *)
(* Sources: internal/supervisor/{server,switch,posture,proxy,forward,      *)
(* routeresolve,auth_missing,pathaware}.go, internal/preflight and         *)
(* cmd/ccwrap/launcher.go.  A route is what preflight resolves a profile   *)
(* to; the file a switch reads is abstracted to the outcome of reading it. *)
(***************************************************************************)
EXTENDS Naturals

CONSTANTS
  Routes,       \* what profiles resolve to: [profile, egress, thirdParty, key]
  Toggles,      \* the capture toggles of the live half
  Callers,      \* goroutines that call SwitchProfile
  Handlers,     \* goroutines that serve proxied requests
  NoProfile,    \* the profile name of the zero posture
  NoEgress,     \* the transport key of the zero posture
  AllowAuthPassthrough, \* --allow-auth-passthrough-to-third-party
  EarlyCalls    \* TRUE: a caller may use the control socket before the
                \* launcher's manifest names the session

ZeroRoute == [profile |-> NoProfile, egress |-> NoEgress,
              thirdParty |-> FALSE, key |-> FALSE]

ASSUME SessionAssumption ==
  /\ AllowAuthPassthrough \in BOOLEAN
  /\ EarlyCalls \in BOOLEAN
  /\ \A r \in Routes : r.thirdParty \in BOOLEAN /\ r.key \in BOOLEAN
  /\ "none" \notin Callers

AnyRoute == Routes \union {ZeroRoute}
Egresses == {r.egress : r \in AnyRoute}
Live == [Toggles -> BOOLEAN]
Posture == [r : AnyRoute, l : Live]
ZeroPosture == [r |-> ZeroRoute, l |-> [t \in Toggles |-> FALSE]]

\* The zero posture carries no bootstrap at all ("").
AuthBootstrap(r) ==
  IF r = ZeroRoute THEN ""
  ELSE IF ~r.thirdParty THEN "not_needed"
  ELSE IF r.key THEN "placeholder_active"
  ELSE IF AllowAuthPassthrough THEN "not_needed" ELSE "missing"

FirstPartyPassthrough(r) == ~r.thirdParty /\ ~r.key

NeedsRelaunch(current, candidate) ==
  /\ AuthBootstrap(current) = "placeholder_active"
  /\ FirstPartyPassthrough(candidate)

VARIABLES
  state,        \* sess.public.State, "none" before the session is installed
  active,       \* sess.active: the posture [r, l] handlers load
  public,       \* the posture fields of sess.public, [route, live]
  switchMu,     \* the caller that holds sess.switchMu, or "none"
  sw,           \* each SwitchProfile call: [pc, cur, new, drain]
  trace,        \* the profile the last "route"/"switched" trace names
  caches,       \* egress keys with a cached upstream transport
  req,          \* each proxied request: [pc, kind, ap, sent]
  launch,       \* LaunchContext: the posture resolved at launch
  launcher,     \* the last launch step that completed
  claude,       \* the Claude Code process
  closer,       \* each closeSession call: [pc, first]
  proxyClosed,  \* the session proxy no longer accepts connections
  bodiesGone,   \* the body directory has been removed
  closedEvents  \* how often session_closed was broadcast

posture == <<active, public>>
switching == <<switchMu, sw, trace>>
launching == <<launch, launcher, claude>>
closing == <<closer, proxyClosed, bodiesGone, closedEvents>>
vars == <<state, posture, switching, caches, req, launching, closing>>

Kinds == {"messages", "auxiliary", "other"}
Closers == {"launcher", "monitor"}

IdleCall == [pc |-> "idle", cur |-> ZeroRoute, new |-> ZeroRoute, drain |-> FALSE]
\* What a forwarded request carries: the route whose upstream it goes to (the
\* zero route stands for Anthropic's public host), whether ccwrap's own
\* credential replaced the client's, and the transport's egress key.
NotSent == [base |-> ZeroRoute, own |-> FALSE, egress |-> NoEgress]
IdleRequest ==
  [pc |-> "idle", kind |-> "messages", ap |-> ZeroPosture, sent |-> NotSent]

Shown(p) == [route |-> p.r, live |-> p.l]

SwitchCalls ==
  [pc : {"idle", "waiting", "locked", "resolved", "published", "drained"},
   cur : AnyRoute, new : AnyRoute, drain : BOOLEAN]
Sent == [base : AnyRoute, own : BOOLEAN, egress : Egresses]
Requests == [pc : {"idle", "arrived", "captured", "routed", "sent"},
             kind : Kinds, ap : Posture, sent : Sent]
CloseCalls ==
  [pc : {"idle", "called", "marked", "closed", "removed", "done"}, first : BOOLEAN]

TypeOK ==
  /\ state \in {"none", "created", "launching", "attached", "active", "ended"}
  /\ active \in Posture
  /\ public \in [route : AnyRoute, live : Live]
  /\ switchMu \in Callers \union {"none"}
  /\ sw \in [Callers -> SwitchCalls]
  /\ trace \in {r.profile : r \in AnyRoute}
  /\ caches \subseteq Egresses
  /\ req \in [Handlers -> Requests]
  /\ launch \in [r : Routes, l : Live]
  /\ launcher \in {"starting", "creating", "created", "spawned", "attached", "gone"}
  /\ claude \in {"none", "running", "exited"}
  /\ closer \in [Closers -> CloseCalls]
  /\ proxyClosed \in BOOLEAN
  /\ bodiesGone \in BOOLEAN
  /\ closedEvents \in Nat

Init ==
  /\ state = "none"
  /\ active = ZeroPosture
  /\ public = Shown(ZeroPosture)
  /\ switchMu = "none"
  /\ sw = [s \in Callers |-> IdleCall]
  /\ trace = NoProfile
  /\ caches = {}
  /\ req = [q \in Handlers |-> IdleRequest]
  /\ launch \in [r : Routes, l : Live]
  /\ launcher = "starting"
  /\ claude = "none"
  /\ closer = [c \in Closers |-> [pc |-> "idle", first |-> FALSE]]
  /\ proxyClosed = FALSE
  /\ bodiesGone = FALSE
  /\ closedEvents = 0

\* The process that runs every goroutine of the session is alive.
Up == launcher # "gone"

\* A caller finds the session (getSession) once CreateSession has installed it,
\* or only once the launcher has written the manifest that names it.
Known ==
  /\ launcher \notin {"starting", "gone"}
  /\ EarlyCalls \/ launcher # "creating"

-----------------------------------------------------------------------------
(* The launcher. *)

CreateSession ==
  /\ launcher = "starting"
  /\ launcher' = "creating"
  /\ state' = "created"
  /\ UNCHANGED <<posture, switching, caches, req, launch, claude, closing>>

\* The second critical section of createSession: the launch posture replaces
\* whatever is there, both halves.
LaunchPublish ==
  /\ launcher = "creating"
  /\ launcher' = "created"
  /\ active' = launch
  /\ public' = Shown(launch)
  /\ state' = IF state = "created" THEN "launching" ELSE state
  /\ trace' = launch.r.profile
  /\ UNCHANGED <<switchMu, sw, caches, req, launch, claude, closing>>

SpawnChild ==
  /\ launcher = "created"
  /\ closer["launcher"].pc = "idle"
  /\ launcher' = "spawned"
  /\ claude' = "running"
  /\ UNCHANGED <<state, posture, switching, caches, req, launch, closing>>

\* attachSession sets the state whatever it was: a request may have made the
\* session active already.
Attach ==
  /\ launcher = "spawned"
  /\ closer["launcher"].pc = "idle"
  /\ launcher' = "attached"
  /\ state' = "attached"
  /\ UNCHANGED <<posture, switching, caches, req, launch, claude, closing>>

ClaudeExits ==
  /\ Up
  /\ claude = "running"
  /\ claude' = "exited"
  /\ UNCHANGED <<state, posture, switching, caches, req, launch, launcher, closing>>

-----------------------------------------------------------------------------
(* SwitchProfile, one action per stretch between its lock operations. *)

SwitchCall(s) ==
  /\ Known
  /\ sw[s].pc = "idle"
  /\ sw' = [sw EXCEPT ![s].pc = "waiting"]
  /\ UNCHANGED <<state, posture, switchMu, trace, caches, req, launching, closing>>

\* Mutant: the switch does not take sess.switchMu.
SwitchLockWithoutMutex(s) ==
  /\ Up
  /\ sw[s].pc = "waiting"
  /\ switchMu' = s
  /\ sw' = [sw EXCEPT ![s].pc = "locked", ![s].cur = active.r]
  /\ UNCHANGED <<state, posture, trace, caches, req, launching, closing>>

\* The current posture is captured once, under the switch mutex.
SwitchLock(s) ==
  /\ Up
  /\ sw[s].pc = "waiting"
  /\ switchMu = "none"
  /\ switchMu' = s
  /\ sw' = [sw EXCEPT ![s].pc = "locked", ![s].cur = active.r]
  /\ UNCHANGED <<state, posture, trace, caches, req, launching, closing>>

\* Every path that leaves the route alone: profiles.json malformed or absent,
\* an unknown name, a profile that does not resolve.
SwitchReject(s) ==
  /\ Up
  /\ sw[s].pc = "locked"
  /\ switchMu' = "none"
  /\ sw' = [sw EXCEPT ![s] = IdleCall]
  /\ UNCHANGED <<state, posture, trace, caches, req, launching, closing>>

\* Mutant: the refusal returns without unlocking.
SwitchRefuseKeepsMutex(s) ==
  /\ Up
  /\ sw[s].pc = "locked"
  /\ \E r \in Routes : NeedsRelaunch(sw[s].cur, r)
  /\ sw' = [sw EXCEPT ![s] = IdleCall]
  /\ UNCHANGED <<state, posture, switchMu, trace, caches, req, launching, closing>>

SwitchRefuse(s) ==
  /\ Up
  /\ sw[s].pc = "locked"
  /\ \E r \in Routes : NeedsRelaunch(sw[s].cur, r)
  /\ switchMu' = "none"
  /\ sw' = [sw EXCEPT ![s] = IdleCall]
  /\ UNCHANGED <<state, posture, trace, caches, req, launching, closing>>

SwitchResolve(s, r) ==
  /\ Up
  /\ sw[s].pc = "locked"
  /\ ~NeedsRelaunch(sw[s].cur, r)
  /\ sw' = [sw EXCEPT ![s].pc = "resolved", ![s].new = r]
  /\ UNCHANGED <<state, posture, switchMu, trace, caches, req, launching, closing>>

\* Mutant: the switch publishes the launch toggles with the new route.
SwitchPublishResetsToggles(s) ==
  /\ Up
  /\ sw[s].pc = "resolved"
  /\ active' = [r |-> sw[s].new, l |-> launch.l]
  /\ public' = Shown(active')
  /\ sw' = [sw EXCEPT ![s].pc = "published",
                      ![s].drain = active.r.egress # sw[s].new.egress]
  /\ UNCHANGED <<state, switchMu, trace, caches, req, launching, closing>>

\* One critical section of sess.mu: the live half is read under the lock and
\* carried, so a toggle that ran since SwitchLock is kept.
SwitchPublish(s) ==
  /\ Up
  /\ sw[s].pc = "resolved"
  /\ active' = [active EXCEPT !.r = sw[s].new]
  /\ public' = Shown(active')
  /\ sw' = [sw EXCEPT ![s].pc = "published",
                      ![s].drain = active.r.egress # sw[s].new.egress]
  /\ UNCHANGED <<state, switchMu, trace, caches, req, launching, closing>>

SwitchDrain(s) ==
  /\ Up
  /\ sw[s].pc = "published"
  /\ caches' = IF sw[s].drain THEN caches \intersect {sw[s].new.egress} ELSE caches
  /\ sw' = [sw EXCEPT ![s].pc = "drained"]
  /\ UNCHANGED <<state, posture, switchMu, trace, req, launching, closing>>

SwitchReport(s) ==
  /\ Up
  /\ sw[s].pc = "drained"
  /\ trace' = sw[s].new.profile
  /\ switchMu' = "none"
  /\ sw' = [sw EXCEPT ![s] = IdleCall]
  /\ UNCHANGED <<state, posture, caches, req, launching, closing>>

\* SetCaptureBodies and SetCaptureTelemetry: a call that changes nothing
\* stores nothing.
SetCapture(t, on) ==
  /\ Known
  /\ active.l[t] # on
  /\ active' = [active EXCEPT !.l[t] = on]
  /\ public' = [public EXCEPT !.live[t] = on]
  /\ UNCHANGED <<state, switching, caches, req, launching, closing>>

-----------------------------------------------------------------------------
(* Proxied requests: mitmHandler and handleForwardProxyRequest. *)

\* markSessionActive runs first.  The proxy listens from CreateSession on.
RequestArrive(q, kind) ==
  /\ Up
  /\ state # "none"
  /\ ~proxyClosed
  /\ req[q].pc = "idle"
  /\ req' = [req EXCEPT ![q].pc = "arrived", ![q].kind = kind]
  /\ state' = IF state \in {"attached", "launching"} THEN "active" ELSE state
  /\ UNCHANGED <<posture, switching, caches, launching, closing>>

RequestCapture(q) ==
  /\ Up
  /\ req[q].pc = "arrived"
  /\ req' = [req EXCEPT ![q].pc = "captured", ![q].ap = active]
  /\ UNCHANGED <<state, posture, switching, caches, launching, closing>>

\* The request reads the posture only through what it captured.
Captured(q) == req[q].ap.r
ToAPI(q) == req[q].kind # "other"

\* handleThirdPartySyntheticOrBlock: a gateway never sees these paths.
Synthetic(q) == req[q].kind = "auxiliary" /\ Captured(q).thirdParty
AuthMissing(q) == ToAPI(q) /\ AuthBootstrap(Captured(q)) = "missing"

RequestAnswerLocally(q) ==
  /\ Up
  /\ req[q].pc = "captured"
  /\ Synthetic(q) \/ state = "ended" \/ AuthMissing(q)
  /\ req' = [req EXCEPT ![q] = IdleRequest]
  /\ UNCHANGED <<state, posture, switching, caches, launching, closing>>

\* resolveUpstream reads the session's state under its own lock; the rest of
\* the request no longer looks at it.
RequestRoute(q) ==
  /\ Up
  /\ req[q].pc = "captured"
  /\ ~Synthetic(q)
  /\ state # "ended"
  /\ ~AuthMissing(q)
  /\ req' = [req EXCEPT ![q].pc = "routed",
                        ![q].sent.base = IF ToAPI(q) THEN Captured(q) ELSE ZeroRoute]
  /\ UNCHANGED <<state, posture, switching, caches, launching, closing>>

\* Mutant: the transport is chosen from the posture in force.
RequestSendNow(q) ==
  /\ Up
  /\ req[q].pc = "routed"
  /\ caches' = caches \union {active.r.egress}
  /\ req' = [req EXCEPT ![q].pc = "sent",
                        ![q].sent.egress = active.r.egress,
                        ![q].sent.own = ToAPI(q) /\ Captured(q).key]
  /\ UNCHANGED <<state, posture, switching, launching, closing>>

\* forwardToUpstream: get or create the transport of the captured egress, and
\* replace the client's credential when the route carries one.
RequestSend(q) ==
  /\ Up
  /\ req[q].pc = "routed"
  /\ caches' = caches \union {Captured(q).egress}
  /\ req' = [req EXCEPT ![q].pc = "sent",
                        ![q].sent.egress = Captured(q).egress,
                        ![q].sent.own = ToAPI(q) /\ Captured(q).key]
  /\ UNCHANGED <<state, posture, switching, launching, closing>>

RequestRecord(q) ==
  /\ Up
  /\ req[q].pc = "sent"
  /\ req' = [req EXCEPT ![q] = IdleRequest]
  /\ UNCHANGED <<state, posture, switching, caches, launching, closing>>

-----------------------------------------------------------------------------
(* closeSession, run by the launcher's rollback and by the lifecycle        *)
(* monitor, possibly at the same time.                                      *)

Call(c) == closer' = [closer EXCEPT ![c].pc = "called"]

\* Wait returns once Claude has exited.
LauncherReturns ==
  /\ launcher = "attached"
  /\ claude = "exited"
  /\ closer["launcher"].pc = "idle"
  /\ Call("launcher")
  /\ UNCHANGED <<state, posture, switching, caches, req, launching,
                 proxyClosed, bodiesGone, closedEvents>>

\* A launch step after CreateSession fails: the rollback kills the child.
LauncherFails ==
  /\ launcher \in {"created", "spawned"}
  /\ closer["launcher"].pc = "idle"
  /\ Call("launcher")
  /\ claude' = IF claude = "running" THEN "exited" ELSE claude
  /\ UNCHANGED <<state, posture, switching, caches, req, launch, launcher,
                 proxyClosed, bodiesGone, closedEvents>>

\* updateSessionLifecycle reads the session, looks for the process, and calls
\* closeSession later; ClaudePID is set by Attach.
MonitorSeesExit ==
  /\ launcher = "attached"
  /\ claude = "exited"
  /\ state # "ended"
  /\ closer["monitor"].pc = "idle"
  /\ Call("monitor")
  /\ UNCHANGED <<state, posture, switching, caches, req, launching,
                 proxyClosed, bodiesGone, closedEvents>>

\* Mutant: only a session Claude was attached to is marked ended.
CloseMarkAttached(c) ==
  /\ Up
  /\ closer[c].pc = "called"
  /\ closer' = [closer EXCEPT ![c] = [pc |-> "marked", first |-> state # "ended"]]
  /\ state' = IF state \in {"attached", "active"} THEN "ended" ELSE state
  /\ UNCHANGED <<posture, switching, caches, req, launching,
                 proxyClosed, bodiesGone, closedEvents>>

CloseMark(c) ==
  /\ Up
  /\ closer[c].pc = "called"
  /\ closer' = [closer EXCEPT ![c] = [pc |-> "marked", first |-> state # "ended"]]
  /\ state' = "ended"
  /\ UNCHANGED <<posture, switching, caches, req, launching,
                 proxyClosed, bodiesGone, closedEvents>>

\* sync.Once: the first call closes, a second one waits for it.
CloseProxy(c) ==
  /\ Up
  /\ closer[c].pc = "marked"
  /\ closer' = [closer EXCEPT ![c].pc = "closed"]
  /\ proxyClosed' = TRUE
  /\ UNCHANGED <<state, posture, switching, caches, req, launching,
                 bodiesGone, closedEvents>>

\* Mutant: the body directory is removed by the call that finds the session
\* ended already.
CloseBodiesSecond(c) ==
  /\ Up
  /\ closer[c].pc = "closed"
  /\ closer' = [closer EXCEPT ![c].pc = "removed"]
  /\ bodiesGone' = (bodiesGone \/ ~closer[c].first)
  /\ UNCHANGED <<state, posture, switching, caches, req, launching,
                 proxyClosed, closedEvents>>

CloseBodies(c) ==
  /\ Up
  /\ closer[c].pc = "closed"
  /\ closer' = [closer EXCEPT ![c].pc = "removed"]
  /\ bodiesGone' = (bodiesGone \/ closer[c].first)
  /\ UNCHANGED <<state, posture, switching, caches, req, launching,
                 proxyClosed, closedEvents>>

CloseAnnounce(c) ==
  /\ Up
  /\ closer[c].pc = "removed"
  /\ closer' = [closer EXCEPT ![c].pc = "done"]
  /\ closedEvents' = IF closer[c].first THEN closedEvents + 1 ELSE closedEvents
  /\ UNCHANGED <<state, posture, switching, caches, req, launching,
                 proxyClosed, bodiesGone>>

\* The launcher's process ends with its rollback, whatever the monitor is at.
LauncherExits ==
  /\ launcher \in {"created", "spawned", "attached"}
  /\ closer["launcher"].pc = "done"
  /\ launcher' = "gone"
  /\ UNCHANGED <<state, posture, switching, caches, req, launch, claude, closing>>

-----------------------------------------------------------------------------
LauncherStep ==
  \/ CreateSession \/ LaunchPublish \/ SpawnChild \/ Attach
  \/ LauncherReturns \/ LauncherExits

SwitchStep(s) ==
  \/ SwitchReject(s) \/ SwitchRefuse(s)
  \/ \E r \in Routes : SwitchResolve(s, r)
  \/ SwitchPublish(s) \/ SwitchDrain(s) \/ SwitchReport(s)

RequestStep(q) ==
  \/ RequestCapture(q) \/ RequestAnswerLocally(q) \/ RequestRoute(q)
  \/ RequestSend(q) \/ RequestRecord(q)

CloseStep(c) ==
  CloseMark(c) \/ CloseProxy(c) \/ CloseBodies(c) \/ CloseAnnounce(c)

Next ==
  \/ LauncherStep
  \/ LauncherFails
  \/ ClaudeExits
  \/ MonitorSeesExit
  \/ \E s \in Callers : SwitchCall(s) \/ SwitchLock(s) \/ SwitchStep(s)
  \/ \E t \in Toggles, on \in BOOLEAN : SetCapture(t, on)
  \/ \E q \in Handlers :
       (\E kind \in Kinds : RequestArrive(q, kind)) \/ RequestStep(q)
  \/ \E c \in Closers : CloseStep(c)

\* The process ends: nothing of the session runs any more.
Finished == launcher = "gone" /\ UNCHANGED vars

Spec == Init /\ [][Next \/ Finished]_vars

(* A goroutine that can go on does (weak fairness); Go hands a mutex to a   *)
(* waiter that starves, so a waiting switch is served if the mutex is free  *)
(* again and again (strong fairness).  Nothing makes a caller call, a       *)
(* request arrive, or Claude exit; RequestRecord waits for an upstream.     *)
Fairness ==
  /\ WF_vars(LauncherStep)
  /\ WF_vars(MonitorSeesExit)
  /\ \A s \in Callers : SF_vars(SwitchLock(s)) /\ WF_vars(SwitchStep(s))
  /\ \A c \in Closers : WF_vars(CloseStep(c))

FairSpec == Spec /\ Fairness

-----------------------------------------------------------------------------
(* Properties. *)

\* Whatever the launch, the switches and the toggles interleave to, the
\* posture handlers load and the one the API shows are one register: no
\* switch loses a toggle, no toggle brings back a route, and no reader sees
\* half of a change (posture.go withResolved and withCapture*, deriveInto).
Register == INSTANCE RouteRegister
              WITH route <- active.r, toggles <- active.l, shown <- public,
                   launched <- launcher \notin {"starting", "creating"}
RegisterSpec == Register!Spec

\* After the launch a route that gives Claude a placeholder is never replaced
\* by one that forwards Claude's own credential, although the check reads the
\* route several steps before the publish (SwitchProfile, ClassifyTransition).
RelaunchGate ==
  [][launcher # "creating" => ~(active'.r # active.r /\ NeedsRelaunch(active.r, active'.r))]_vars

\* The switch trace is a chain: each switch reports as its origin the profile
\* the previous report named, so the timeline has no gap and no fork
\* (previousProfileName is hoisted long before the trace is recorded).
TimelineIsChain ==
  [][\A s \in Callers :
       sw[s].pc = "drained" /\ sw'[s].pc = "idle" => sw[s].cur.profile = trace]_vars

\* Draining after a switch never drops the transport of the route in force
\* (drainSupersededTransports with the key of a switch that another overtook).
DrainSparesLiveRoute ==
  [][active.r.egress \in caches => active.r.egress \in caches']_vars

\* Switches that interleave, in any number, come to the same as one after the
\* other: the relaunch gate, the timeline and the transports all agree.
SwitchesInOrder == RelaunchGate /\ TimelineIsChain /\ DrainSparesLiveRoute

\* A forwarded request goes to the upstream of one route, with the credential
\* of that route, over the egress of that route, and that route was in force
\* when its handler captured the posture, however many switches happened since
\* (mitmHandler, handleForwardProxyRequest, forwardToUpstream).  Without the
\* explicit opt-in a third-party gateway never receives a request with the
\* credential Claude Code put on it, not even around a switch between a gateway
\* with a key and one without (maybeRefuseAuthMissing).
NoTornRequest ==
  \A q \in Handlers : req[q].pc = "sent" =>
    LET sent == req[q].sent IN
      /\ \/ req[q].kind = "other" /\ ~sent.own
         \/ \E r \in AnyRoute : sent = [base |-> r, own |-> r.key, egress |-> r.egress]
      /\ sent.base.thirdParty /\ ~AllowAuthPassthrough => sent.own

\* The value given to Claude as a placeholder "must never be forwarded
\* upstream" (internal/preflight/preflight.go ChildAuthBootstrap): when Claude
\* was started with one, every request to the model API carries ccwrap's key.
PlaceholderNeverForwarded ==
  AuthBootstrap(launch.r) = "placeholder_active" /\ claude = "running" =>
    \A q \in Handlers : req[q].pc = "sent" /\ ToAPI(q) => req[q].sent.own

\* session_closed is the last thing a session does, and is said once, by the
\* one call of two closers that found the session open: neither announces
\* before the proxy is closed and the body directory is gone (closeSession).
ClosedAnnouncedLast ==
  /\ closedEvents <= 1
  /\ closedEvents = 1 => state = "ended" /\ proxyClosed /\ bodiesGone
  /\ state = "ended" => \E c \in Closers : closer[c].first
                          /\ \A d \in Closers : closer[d].first => d = c

\* A session ends once: one of the launcher and the monitor announces it, after
\* everything of it is gone, and nothing brings it back, although attachSession,
\* the launch publish and every request also write the state.
EndsOnce ==
  [][ClosedAnnouncedLast' /\ (state = "ended" => state' = "ended")]_vars

\* A switch call returns: no path of SwitchProfile keeps the session's switch
\* mutex, so callers that queue on it are all served.
SwitchReturns ==
  \A s \in Callers : sw[s].pc # "idle" ~> (sw[s].pc = "idle" \/ ~Up)

\* When Claude Code is gone the session ends, whichever of the launcher and
\* the monitor notices, and also when Claude exits before Attach.
EndedAfterExit == claude = "exited" ~> state = "ended"
=============================================================================
