---------------------------- MODULE SessionProofs ----------------------------
(* Theorems about Session for every set of routes, toggles, callers and      *)
(* handlers, with their proofs.                                              *)
EXTENDS Session, TLAPS

\* The idle values of the model are of the types TypeOK gives them.
LEMMA IdleTypes ==
  /\ ZeroPosture \in Posture
  /\ ZeroRoute \in AnyRoute
  /\ IdleCall \in SwitchCalls
  /\ NotSent \in Sent
  /\ IdleRequest \in Requests
<1>1. ZeroRoute \in AnyRoute
  BY DEF AnyRoute
<1>2. ZeroPosture \in Posture
  BY <1>1 DEF ZeroPosture, Posture, Live
<1>3. IdleCall \in SwitchCalls
  BY <1>1 DEF IdleCall, SwitchCalls
<1>4. NoEgress \in Egresses
  BY <1>1 DEF Egresses, ZeroRoute
<1>5. NotSent \in Sent
  BY <1>1, <1>4 DEF NotSent, Sent
<1>6. IdleRequest \in Requests
  BY <1>2, <1>5 DEF IdleRequest, Requests, Kinds
<1> QED BY <1>1, <1>2, <1>3, <1>5, <1>6

\* What a handler captured is a posture whose route has Boolean fields.
LEMMA RouteTypes ==
  ASSUME NEW r \in AnyRoute
  PROVE  r.key \in BOOLEAN /\ r.thirdParty \in BOOLEAN /\ r.egress \in Egresses
<1>1. r.key \in BOOLEAN /\ r.thirdParty \in BOOLEAN
  <2>1. CASE r \in Routes
    BY <2>1, SessionAssumption DEF SessionAssumption
  <2>2. CASE r = ZeroRoute
    <3>1. r.key = FALSE /\ r.thirdParty = FALSE
      BY <2>2 DEF ZeroRoute
    <3> QED BY <3>1
  <2> QED BY <2>1, <2>2 DEF AnyRoute
<1>2. r.egress \in Egresses
  BY DEF Egresses
<1> QED BY <1>1, <1>2

\* Filling in what a request carries keeps it in its type.
LEMMA SentTypes ==
  ASSUME NEW q \in Handlers, TypeOK
  PROVE  /\ req[q].sent \in Sent
         /\ \A base \in AnyRoute : [req[q].sent EXCEPT !.base = base] \in Sent
         /\ \A e \in Egresses, own \in BOOLEAN :
              [req[q].sent EXCEPT !.egress = e, !.own = own] \in Sent
<1>1. req[q].sent \in Sent
  BY DEF TypeOK, Requests
<1>2. ASSUME NEW x \in Sent, NEW base \in AnyRoute PROVE [x EXCEPT !.base = base] \in Sent
  BY DEF Sent
<1>3. ASSUME NEW x \in Sent, NEW e \in Egresses, NEW own \in BOOLEAN
      PROVE  [x EXCEPT !.egress = e, !.own = own] \in Sent
  BY DEF Sent
<1> QED BY <1>1, <1>2, <1>3

\* The fields of a session are never confused: every step of every goroutine
\* keeps each variable of the model in its type.
THEOREM TypeCorrect == Spec => []TypeOK
<1>1. Init => TypeOK
  <2> SUFFICES ASSUME Init PROVE TypeOK
    OBVIOUS
  <2>1. public \in [route : AnyRoute, live : Live]
    BY IdleTypes DEF Init, Shown, Posture
  <2>2. trace \in {r.profile : r \in AnyRoute}
    BY IdleTypes DEF Init, ZeroRoute
  <2>3. closer \in [Closers -> CloseCalls]
    BY DEF Init, CloseCalls
  <2>4. sw \in [Callers -> SwitchCalls] /\ req \in [Handlers -> Requests]
    BY IdleTypes DEF Init
  <2>5. active \in Posture /\ caches \subseteq Egresses /\ switchMu = "none"
    BY IdleTypes DEF Init
  <2>6. /\ state \in {"none", "created", "launching", "attached", "active", "ended"}
        /\ launcher \in {"starting", "creating", "created", "spawned", "attached", "gone"}
        /\ claude \in {"none", "running", "exited"}
        /\ launch \in [r : Routes, l : Live]
        /\ closedEvents \in Nat
    BY DEF Init
  <2>7. proxyClosed \in BOOLEAN /\ bodiesGone \in BOOLEAN
    BY DEF Init
  <2> QED BY <2>1, <2>2, <2>3, <2>4, <2>5, <2>6, <2>7 DEF TypeOK
<1>2. TypeOK /\ [Next \/ Finished]_vars => TypeOK'
  <2> SUFFICES ASSUME TypeOK, [Next \/ Finished]_vars PROVE TypeOK'
    OBVIOUS
  <2> USE DEF TypeOK, posture, switching, launching, closing
  <2>1. CASE CreateSession BY <2>1 DEF CreateSession
  <2>2. CASE LaunchPublish
    BY <2>2 DEF LaunchPublish, Shown, Posture, AnyRoute
  <2>3. CASE SpawnChild BY <2>3 DEF SpawnChild
  <2>4. CASE Attach BY <2>4 DEF Attach
  <2>5. CASE ClaudeExits BY <2>5 DEF ClaudeExits
  <2>6. CASE LauncherReturns BY <2>6 DEF LauncherReturns, Call, CloseCalls, Closers
  <2>7. CASE LauncherFails BY <2>7 DEF LauncherFails, Call, CloseCalls, Closers
  <2>8. CASE LauncherExits BY <2>8 DEF LauncherExits
  <2>9. CASE MonitorSeesExit BY <2>9 DEF MonitorSeesExit, Call, CloseCalls, Closers
  <2>10. ASSUME NEW s \in Callers, SwitchCall(s) PROVE TypeOK'
    BY <2>10 DEF SwitchCall, SwitchCalls
  <2>11. ASSUME NEW s \in Callers, SwitchLock(s) PROVE TypeOK'
    <3>1. active.r \in AnyRoute
      BY DEF Posture
    <3>2. sw' \in [Callers -> SwitchCalls]
      BY <2>11, <3>1 DEF SwitchLock, SwitchCalls
    <3> QED BY <2>11, <3>2 DEF SwitchLock
  <2>12. ASSUME NEW s \in Callers, SwitchReject(s) PROVE TypeOK'
    BY <2>12, IdleTypes DEF SwitchReject
  <2>13. ASSUME NEW s \in Callers, SwitchRefuse(s) PROVE TypeOK'
    BY <2>13, IdleTypes DEF SwitchRefuse
  <2>14. ASSUME NEW s \in Callers, NEW r \in Routes, SwitchResolve(s, r) PROVE TypeOK'
    <3>1. r \in AnyRoute
      BY DEF AnyRoute
    <3>2. sw' \in [Callers -> SwitchCalls]
      BY <2>14, <3>1 DEF SwitchResolve, SwitchCalls
    <3> QED BY <2>14, <3>2 DEF SwitchResolve
  <2>15. ASSUME NEW s \in Callers, SwitchPublish(s) PROVE TypeOK'
    <3>1. active' \in Posture /\ public' \in [route : AnyRoute, live : Live]
      BY <2>15 DEF SwitchPublish, Posture, Shown, SwitchCalls
    <3>2. sw' \in [Callers -> SwitchCalls]
      <4> DEFINE d == active.r.egress # sw[s].new.egress
      <4>1. d \in BOOLEAN
        OBVIOUS
      <4>2. sw' = [sw EXCEPT ![s].pc = "published", ![s].drain = d]
        BY <2>15 DEF SwitchPublish
      <4> HIDE DEF d
      <4> QED BY <4>1, <4>2 DEF SwitchCalls
    <3> QED BY <2>15, <3>1, <3>2 DEF SwitchPublish
  <2>16. ASSUME NEW s \in Callers, SwitchDrain(s) PROVE TypeOK'
    BY <2>16 DEF SwitchDrain, SwitchCalls
  <2>17. ASSUME NEW s \in Callers, SwitchReport(s) PROVE TypeOK'
    <3>1. trace' \in {r.profile : r \in AnyRoute}
      BY <2>17 DEF SwitchReport, SwitchCalls
    <3> QED BY <2>17, <3>1, IdleTypes DEF SwitchReport
  <2>18. ASSUME NEW t \in Toggles, NEW on \in BOOLEAN, SetCapture(t, on) PROVE TypeOK'
    BY <2>18 DEF SetCapture, Posture, Live
  <2>19. ASSUME NEW q \in Handlers, NEW kind \in Kinds, RequestArrive(q, kind)
         PROVE TypeOK'
    BY <2>19 DEF RequestArrive, Requests
  <2>20. ASSUME NEW q \in Handlers, RequestCapture(q) PROVE TypeOK'
    BY <2>20 DEF RequestCapture, Requests
  <2>21. ASSUME NEW q \in Handlers, RequestAnswerLocally(q) PROVE TypeOK'
    BY <2>21, IdleTypes DEF RequestAnswerLocally
  <2>22. ASSUME NEW q \in Handlers, RequestRoute(q) PROVE TypeOK'
    <3>1. Captured(q) \in AnyRoute
      BY DEF Captured, Posture, Requests
    <3> DEFINE base == IF ToAPI(q) THEN Captured(q) ELSE ZeroRoute
               sent == [req[q].sent EXCEPT !.base = base]
    <3>2. base \in AnyRoute
      BY <3>1, IdleTypes
    <3>3. req' = [req EXCEPT ![q] = [req[q] EXCEPT !.pc = "routed", !.sent = sent]]
      BY <2>22 DEF RequestRoute, Requests, Sent
    <3> HIDE DEF base
    <3>4. sent \in Sent
      BY <3>2, SentTypes
    <3> HIDE DEF sent
    <3>5. req' \in [Handlers -> Requests]
      BY <3>3, <3>4 DEF Requests
    <3> QED BY <2>22, <3>5 DEF RequestRoute
  <2>23. ASSUME NEW q \in Handlers, RequestSend(q) PROVE TypeOK'
    <3>1. Captured(q) \in AnyRoute
      BY DEF Captured, Posture, Requests
    <3>2. Captured(q).egress \in Egresses /\ Captured(q).key \in BOOLEAN
      BY <3>1, RouteTypes
    <3>3. req' \in [Handlers -> Requests]
      <4> DEFINE own == ToAPI(q) /\ Captured(q).key
                 e == Captured(q).egress
                 sent == [req[q].sent EXCEPT !.egress = e, !.own = own]
      <4>1. own \in BOOLEAN /\ e \in Egresses
        BY <3>2
      <4>2. req' = [req EXCEPT ![q] = [req[q] EXCEPT !.pc = "sent", !.sent = sent]]
        BY <2>23 DEF RequestSend, Requests, Sent
      <4> HIDE DEF own, e
      <4>3. sent \in Sent
        BY <4>1, SentTypes
      <4> HIDE DEF sent
      <4> QED BY <4>2, <4>3 DEF Requests
    <3> QED BY <2>23, <3>2, <3>3 DEF RequestSend
  <2>24. ASSUME NEW q \in Handlers, RequestRecord(q) PROVE TypeOK'
    BY <2>24, IdleTypes DEF RequestRecord
  <2>25. ASSUME NEW c \in Closers, CloseMark(c) PROVE TypeOK'
    BY <2>25 DEF CloseMark, CloseCalls, Closers
  <2>26. ASSUME NEW c \in Closers, CloseProxy(c) PROVE TypeOK'
    BY <2>26 DEF CloseProxy, CloseCalls, Closers
  <2>27. ASSUME NEW c \in Closers, CloseBodies(c) PROVE TypeOK'
    BY <2>27 DEF CloseBodies, CloseCalls, Closers
  <2>28. ASSUME NEW c \in Closers, CloseAnnounce(c) PROVE TypeOK'
    <3>1. closer' \in [Closers -> CloseCalls]
      BY <2>28 DEF CloseAnnounce, CloseCalls
    <3>2. closedEvents' \in Nat
      BY <2>28 DEF CloseAnnounce
    <3> QED BY <2>28, <3>1, <3>2 DEF CloseAnnounce
  <2>29. CASE UNCHANGED vars BY <2>29 DEF vars
  <2> QED
    BY <2>1, <2>2, <2>3, <2>4, <2>5, <2>6, <2>7, <2>8, <2>9, <2>10, <2>11, <2>12,
       <2>13, <2>14, <2>15, <2>16, <2>17, <2>18, <2>19, <2>20, <2>21, <2>22, <2>23,
       <2>24, <2>25, <2>26, <2>27, <2>28, <2>29
    DEF Next, Finished, LauncherStep, SwitchStep, RequestStep, CloseStep
<1> QED BY <1>1, <1>2, PTL DEF Spec

-----------------------------------------------------------------------------
\* The steps that touch the posture or a switch call, and everything else.
LEMMA StepKinds ==
  ASSUME [Next \/ Finished]_vars
  PROVE  \/ LaunchPublish
         \/ \E s \in Callers : SwitchCall(s) \/ SwitchLock(s) \/ SwitchStep(s)
         \/ \E t \in Toggles, on \in BOOLEAN : SetCapture(t, on)
         \/ /\ UNCHANGED <<active, public, switchMu, sw, trace>>
            /\ caches \subseteq caches'
            /\ launcher \in {"starting", "creating"} <=>
                 launcher' \in {"starting", "creating"}
<1> USE DEF posture, switching, launching, closing
<1>1. ASSUME NEW q \in Handlers, NEW kind \in Kinds, RequestArrive(q, kind)
      PROVE  UNCHANGED <<active, public, switchMu, sw, trace, caches, launcher>>
  BY <1>1 DEF RequestArrive
<1>2. ASSUME NEW q \in Handlers, RequestStep(q)
      PROVE  UNCHANGED <<active, public, switchMu, sw, trace, launcher>>
             /\ caches \subseteq caches'
  BY <1>2 DEF RequestStep, RequestCapture, RequestAnswerLocally, RequestRoute,
              RequestSend, RequestRecord
<1>3. ASSUME NEW c \in Closers, CloseStep(c)
      PROVE  UNCHANGED <<active, public, switchMu, sw, trace, caches, launcher>>
  BY <1>3 DEF CloseStep, CloseMark, CloseProxy, CloseBodies, CloseAnnounce
<1>4. ASSUME LauncherFails \/ ClaudeExits \/ MonitorSeesExit \/ UNCHANGED vars
      PROVE  UNCHANGED <<active, public, switchMu, sw, trace, caches, launcher>>
  BY <1>4 DEF LauncherFails, ClaudeExits, MonitorSeesExit, vars
<1>5. ASSUME LauncherStep, ~LaunchPublish
      PROVE  /\ UNCHANGED <<active, public, switchMu, sw, trace, caches>>
             /\ launcher \in {"starting", "creating"} <=>
                  launcher' \in {"starting", "creating"}
  BY <1>5 DEF LauncherStep, CreateSession, SpawnChild, Attach, LauncherReturns,
              LauncherExits
<1> QED BY <1>1, <1>2, <1>3, <1>4, <1>5 DEF Next, Finished

Holding == {"locked", "resolved", "published", "drained"}

\* What the switch mutex and sess.mu keep: the API's view is the posture, the
\* mutex belongs to the one call that is past its Lock, and what such a call
\* is about to publish is a route a profile resolved to.
SwitchInv ==
  /\ public = Shown(active)
  /\ \A s \in Callers : sw[s].pc \in Holding <=> switchMu = s
  /\ \A s \in Callers : sw[s].pc \in {"resolved", "published", "drained"} => sw[s].new \in Routes

\* Every step keeps the type and the switch invariant: the holder of switchMu
\* is the one caller inside the critical section.
LEMMA SwitchInvInductive ==
  ASSUME TypeOK, SwitchInv, [Next \/ Finished]_vars
  PROVE  SwitchInv'
<1> USE DEF SwitchInv, TypeOK, Holding, posture, switching, launching, closing
<1>1. CASE LaunchPublish BY <1>1 DEF LaunchPublish
<1>2. ASSUME NEW s \in Callers, SwitchCall(s) PROVE SwitchInv'
  BY <1>2 DEF SwitchCall, SwitchCalls
<1>3. ASSUME NEW s \in Callers, SwitchLock(s) PROVE SwitchInv'
  BY <1>3, SessionAssumption DEF SwitchLock, SwitchCalls, SessionAssumption
<1>4. ASSUME NEW s \in Callers, SwitchReject(s) PROVE SwitchInv'
  BY <1>4, SessionAssumption DEF SwitchReject, SwitchCalls, SessionAssumption, IdleCall
<1>5. ASSUME NEW s \in Callers, SwitchRefuse(s) PROVE SwitchInv'
  BY <1>5, SessionAssumption DEF SwitchRefuse, SwitchCalls, SessionAssumption, IdleCall
<1>6. ASSUME NEW s \in Callers, NEW r \in Routes, SwitchResolve(s, r) PROVE SwitchInv'
  BY <1>6 DEF SwitchResolve, SwitchCalls
<1>7. ASSUME NEW s \in Callers, SwitchPublish(s) PROVE SwitchInv'
  <2>1. public' = Shown(active')
    BY <1>7 DEF SwitchPublish, Shown
  <2>2. \A u \in Callers : /\ sw'[u].pc \in Holding <=> sw[u].pc \in Holding
                           /\ sw'[u].new = sw[u].new
    BY <1>7 DEF SwitchPublish, SwitchCalls
  <2>3. \A u \in Callers : sw'[u].pc \in {"resolved", "published", "drained"} =>
                             sw[u].pc \in {"resolved", "published", "drained"}
    BY <1>7 DEF SwitchPublish, SwitchCalls
  <2> QED BY <1>7, <2>1, <2>2, <2>3 DEF SwitchPublish
<1>8. ASSUME NEW s \in Callers, SwitchDrain(s) PROVE SwitchInv'
  BY <1>8 DEF SwitchDrain, SwitchCalls
<1>9. ASSUME NEW s \in Callers, SwitchReport(s) PROVE SwitchInv'
  BY <1>9, SessionAssumption DEF SwitchReport, SwitchCalls, SessionAssumption, IdleCall
<1>10. ASSUME NEW t \in Toggles, NEW on \in BOOLEAN, SetCapture(t, on) PROVE SwitchInv'
  BY <1>10 DEF SetCapture, Shown, Posture, Live
<1>11. CASE UNCHANGED <<active, public, switchMu, sw, trace>>
  BY <1>11 DEF Shown
<1> QED BY <1>1, <1>2, <1>3, <1>4, <1>5, <1>6, <1>7, <1>8, <1>9, <1>10, <1>11,
           StepKinds DEF SwitchStep

\* So both hold in every state of the session.
LEMMA SwitchInvInvariant == Spec => [](TypeOK /\ SwitchInv)
<1>1. Init => SwitchInv
  BY SessionAssumption DEF Init, SwitchInv, Holding, IdleCall, SessionAssumption
<1>2. TypeOK /\ SwitchInv /\ [Next \/ Finished]_vars => SwitchInv'
  BY SwitchInvInductive
<1>3. Spec => []TypeOK
  BY TypeCorrect
<1> QED BY <1>1, <1>2, <1>3, PTL DEF Spec

-----------------------------------------------------------------------------
\* A step of the session is a step of the register or leaves it alone.
LEMMA RegisterStep ==
  ASSUME TypeOK, SwitchInv, [Next \/ Finished]_vars
  PROVE  [Register!Next]_(Register!vars)
<1> USE DEF Register!vars, posture, switching, launching, closing
<1>1. CASE LaunchPublish
  <2>1. launch.r \in Routes /\ launch.l \in Live
    BY DEF TypeOK
  <2>2. Register!Launch(launch.r, launch.l)
    BY <1>1 DEF LaunchPublish, Register!Launch, Shown, Register!Shown
  <2> QED BY <2>1, <2>2 DEF Register!Next, Live, Register!Live
<1>2. ASSUME NEW s \in Callers, SwitchPublish(s) PROVE \E r \in Routes : Register!Switch(r)
  <2>1. sw[s].new \in Routes
    BY <1>2 DEF SwitchPublish, SwitchInv
  <2>2. Register!Switch(sw[s].new)
    BY <1>2 DEF SwitchPublish, Register!Switch, Shown, Register!Shown, TypeOK, Posture
  <2> QED BY <2>1, <2>2
<1>3. ASSUME NEW s \in Callers,
             SwitchCall(s) \/ SwitchLock(s) \/ (SwitchStep(s) /\ ~SwitchPublish(s))
      PROVE  UNCHANGED <<active, public, launcher>>
  BY <1>3 DEF SwitchCall, SwitchLock, SwitchStep, SwitchReject, SwitchRefuse,
              SwitchResolve, SwitchDrain, SwitchReport
<1>4. ASSUME NEW t \in Toggles, NEW on \in BOOLEAN, SetCapture(t, on)
      PROVE  Register!Toggle(t, on)
  BY <1>4 DEF SetCapture, Register!Toggle, Shown, Register!Shown, SwitchInv,
              TypeOK, Posture, Live
<1>5. CASE /\ UNCHANGED <<active, public>>
           /\ launcher \in {"starting", "creating"} <=> launcher' \in {"starting", "creating"}
  BY <1>5
<1> QED
  <2>1. CASE \E s \in Callers : SwitchCall(s) \/ SwitchLock(s) \/ SwitchStep(s)
    BY <2>1, <1>2, <1>3, <1>5 DEF Register!Next
  <2>2. CASE \E t \in Toggles, on \in BOOLEAN : SetCapture(t, on)
    BY <2>2, <1>4 DEF Register!Next
  <2> QED BY <2>1, <2>2, <1>1, <1>5, StepKinds

\* Whatever the goroutines do, the posture is the register RouteRegister
\* describes: switches and toggles commute and no reader sees half a change
\* (switch.go, SetCapture*, deriveInto).
THEOREM ImplementsRegister == Spec => RegisterSpec
<1>1. Init => Register!Init
  BY DEF Init, Register!Init, ZeroPosture, Shown, Register!Shown
<1>2. TypeOK /\ SwitchInv /\ [Next \/ Finished]_vars => [Register!Next]_(Register!vars)
  BY RegisterStep
<1>3. Spec => [](TypeOK /\ SwitchInv)
  BY SwitchInvInvariant
<1> QED BY <1>1, <1>2, <1>3, PTL DEF Spec, RegisterSpec, Register!Spec

-----------------------------------------------------------------------------
\* With callers that learn the session from its manifest: what a switch read
\* under the mutex is still so when it publishes and when it reports.  Without
\* the mutex, or with a launch publish between Lock and publish, it is not.
GateInv ==
  /\ \A s \in Callers : sw[s].pc # "idle" => launcher \notin {"starting", "creating"}
  /\ \A s \in Callers : sw[s].pc \in {"locked", "resolved"} => sw[s].cur = active.r
  /\ \A s \in Callers : sw[s].pc = "resolved" => ~NeedsRelaunch(sw[s].cur, sw[s].new)
  /\ \A s \in Callers : sw[s].pc \in {"published", "drained"} => active.r = sw[s].new
  /\ \A s \in Callers : sw[s].pc \in Holding => trace = sw[s].cur.profile
  /\ switchMu = "none" => trace = active.r.profile

\* A step keeps GateInv; one step per action that the invariant can notice.
LEMMA GateInvInductive ==
  ASSUME ~EarlyCalls, TypeOK, SwitchInv, GateInv, [Next \/ Finished]_vars
  PROVE  GateInv'
<1> USE DEF GateInv, TypeOK, Holding, posture, switching, launching, closing
<1>1. CASE LaunchPublish
  <2>1. \A s \in Callers : sw[s].pc = "idle"
    BY <1>1 DEF LaunchPublish, SwitchCalls
  <2> QED BY <1>1, <2>1, SessionAssumption DEF LaunchPublish, SwitchInv, SessionAssumption
<1>2. ASSUME NEW s \in Callers, SwitchCall(s) PROVE GateInv'
  BY <1>2 DEF SwitchCall, SwitchCalls, Known
<1>3. ASSUME NEW s \in Callers, SwitchLock(s) PROVE GateInv'
  <2>1. \A u \in Callers : sw[u].pc \notin Holding
    BY <1>3, SessionAssumption DEF SwitchLock, SwitchInv, SessionAssumption
  <2>2. /\ sw'[s].pc = "locked" /\ sw'[s].cur = active.r
        /\ \A u \in Callers \ {s} : sw'[u] = sw[u]
    BY <1>3 DEF SwitchLock, SwitchCalls
  <2> QED BY <1>3, <2>1, <2>2, SessionAssumption DEF SwitchLock, SessionAssumption
<1>4. ASSUME NEW s \in Callers, SwitchReject(s) \/ SwitchRefuse(s) PROVE GateInv'
  <2>1. trace = active.r.profile
    <3>1. sw[s].pc = "locked"
      BY <1>4 DEF SwitchReject, SwitchRefuse
    <3> QED BY <3>1
  <2>2. sw'[s] = IdleCall /\ \A u \in Callers \ {s} : sw'[u] = sw[u]
    BY <1>4 DEF SwitchReject, SwitchRefuse
  <2> QED BY <1>4, <2>1, <2>2 DEF SwitchReject, SwitchRefuse, IdleCall
<1>5. ASSUME NEW s \in Callers, NEW r \in Routes, SwitchResolve(s, r) PROVE GateInv'
  BY <1>5, SessionAssumption DEF SwitchResolve, SwitchCalls, SwitchInv, SessionAssumption
<1>6. ASSUME NEW s \in Callers, SwitchPublish(s) PROVE GateInv'
  <2>1. \A u \in Callers \ {s} : sw[u].pc \notin Holding
    BY <1>6 DEF SwitchPublish, SwitchInv
  <2>2. /\ sw'[s].pc = "published" /\ sw'[s].new = sw[s].new /\ sw'[s].cur = sw[s].cur
        /\ \A u \in Callers \ {s} : sw'[u] = sw[u]
    BY <1>6 DEF SwitchPublish, SwitchCalls
  <2>3. active'.r = sw[s].new
    BY <1>6 DEF SwitchPublish, Posture
  <2>4. switchMu' # "none"
    BY <1>6, SessionAssumption DEF SwitchPublish, SwitchInv, SessionAssumption
  <2>5. trace' = sw'[s].cur.profile
    BY <1>6, <2>2 DEF SwitchPublish
  <2> QED BY <1>6, <2>1, <2>2, <2>3, <2>4, <2>5 DEF SwitchPublish
<1>7. ASSUME NEW s \in Callers, SwitchDrain(s) PROVE GateInv'
  BY <1>7 DEF SwitchDrain, SwitchCalls
<1>8. ASSUME NEW s \in Callers, SwitchReport(s) PROVE GateInv'
  <2>1. \A u \in Callers \ {s} : sw[u].pc \notin Holding
    BY <1>8 DEF SwitchReport, SwitchInv
  <2>2. sw'[s] = IdleCall /\ \A u \in Callers \ {s} : sw'[u] = sw[u]
    BY <1>8 DEF SwitchReport
  <2> QED BY <1>8, <2>1, <2>2 DEF SwitchReport, IdleCall
<1>9. ASSUME NEW t \in Toggles, NEW on \in BOOLEAN, SetCapture(t, on) PROVE GateInv'
  <2>1. active'.r = active.r
    BY <1>9 DEF SetCapture, Posture
  <2> QED BY <1>9, <2>1 DEF SetCapture
<1>10. ASSUME UNCHANGED <<active, public, switchMu, sw, trace>>,
              launcher \notin {"starting", "creating"} =>
                launcher' \notin {"starting", "creating"}
       PROVE  GateInv'
  BY <1>10 DEF NeedsRelaunch
<1> QED BY <1>1, <1>2, <1>3, <1>4, <1>5, <1>6, <1>7, <1>8, <1>9, <1>10, StepKinds
        DEF SwitchStep

\* The gate invariant holds in every state when no call is early.
LEMMA GateInvInvariant ==
  ASSUME ~EarlyCalls PROVE Spec => [](TypeOK /\ SwitchInv /\ GateInv)
<1>1. Init => GateInv
  BY SessionAssumption DEF Init, GateInv, Holding, IdleCall, SessionAssumption,
     ZeroPosture, ZeroRoute
<1>2. TypeOK /\ SwitchInv /\ GateInv /\ [Next \/ Finished]_vars => GateInv'
  BY GateInvInductive
<1>3. Spec => [](TypeOK /\ SwitchInv)
  BY SwitchInvInvariant
<1> QED BY <1>1, <1>2, <1>3, PTL DEF Spec

\* Under any number of switch calls and toggles a live route that gave Claude a
\* placeholder is never replaced by Claude's own login (ClassifyTransition).
THEOREM RelaunchGateHolds == ASSUME ~EarlyCalls PROVE Spec => RelaunchGate
<1>1. ASSUME TypeOK, SwitchInv, GateInv, [Next \/ Finished]_vars, launcher # "creating"
      PROVE  ~(active'.r # active.r /\ NeedsRelaunch(active.r, active'.r))
  <2> USE DEF TypeOK, posture, switching, launching, closing
  <2>1. ASSUME NEW s \in Callers, SwitchPublish(s)
        PROVE  ~NeedsRelaunch(active.r, active'.r)
    <3>1. active'.r = sw[s].new /\ active.r = sw[s].cur
      BY <1>1, <2>1 DEF SwitchPublish, GateInv, Posture
    <3> QED BY <1>1, <2>1, <3>1 DEF SwitchPublish, GateInv
  <2>2. ASSUME NEW s \in Callers,
               SwitchCall(s) \/ SwitchLock(s) \/ (SwitchStep(s) /\ ~SwitchPublish(s))
        PROVE  active' = active
    BY <2>2 DEF SwitchCall, SwitchLock, SwitchStep, SwitchReject, SwitchRefuse,
                SwitchResolve, SwitchDrain, SwitchReport
  <2>3. ASSUME NEW t \in Toggles, NEW on \in BOOLEAN, SetCapture(t, on)
        PROVE  active'.r = active.r
    BY <1>1, <2>3 DEF SetCapture, Posture
  <2>4. ~LaunchPublish
    BY <1>1 DEF LaunchPublish
  <2> QED BY <1>1, <2>1, <2>2, <2>3, <2>4, StepKinds
<1>2. Spec => [](TypeOK /\ SwitchInv /\ GateInv)
  BY GateInvInvariant
<1> QED BY <1>1, <1>2, PTL DEF Spec, RelaunchGate

\* The switch timeline is a chain for any number of callers: a call reports
\* the origin the report before it named (recordTrace in SwitchProfile).
THEOREM TimelineIsChainHolds == ASSUME ~EarlyCalls PROVE Spec => TimelineIsChain
<1>1. ASSUME GateInv
      PROVE  \A s \in Callers :
               sw[s].pc = "drained" /\ sw'[s].pc = "idle" => sw[s].cur.profile = trace
  BY <1>1 DEF GateInv, Holding
<1>2. Spec => [](TypeOK /\ SwitchInv /\ GateInv)
  BY GateInvInvariant
<1> QED BY <1>1, <1>2, PTL DEF TimelineIsChain

\* A drain keeps the transport of the route in force, for any number of
\* callers and egresses (drainSupersededTransports).
THEOREM DrainSparesLiveRouteHolds ==
  ASSUME ~EarlyCalls PROVE Spec => DrainSparesLiveRoute
<1>1. ASSUME TypeOK, SwitchInv, GateInv, [Next \/ Finished]_vars,
             active.r.egress \in caches
      PROVE  active.r.egress \in caches'
  <2> USE DEF posture, switching, launching, closing
  <2>1. ASSUME NEW s \in Callers, SwitchDrain(s) PROVE active.r.egress \in caches'
    BY <2>1, <1>1 DEF SwitchDrain, GateInv
  <2>2. ASSUME NEW s \in Callers,
               SwitchCall(s) \/ SwitchLock(s) \/ (SwitchStep(s) /\ ~SwitchDrain(s))
        PROVE  caches' = caches
    BY <2>2 DEF SwitchCall, SwitchLock, SwitchStep, SwitchReject, SwitchRefuse,
                SwitchResolve, SwitchPublish, SwitchReport
  <2>3. ASSUME NEW t \in Toggles, NEW on \in BOOLEAN, SetCapture(t, on)
        PROVE  caches' = caches
    BY <2>3 DEF SetCapture
  <2>4. LaunchPublish => caches' = caches
    BY DEF LaunchPublish
  <2> QED BY <1>1, <2>1, <2>2, <2>3, <2>4, StepKinds
<1>2. Spec => [](TypeOK /\ SwitchInv /\ GateInv)
  BY GateInvInvariant
<1> QED BY <1>1, <1>2, PTL DEF Spec, DrainSparesLiveRoute

\* What the three say of interleaved switches, together (SwitchProfile).
THEOREM SwitchesInOrderHolds == ASSUME ~EarlyCalls PROVE Spec => SwitchesInOrder
BY RelaunchGateHolds, TimelineIsChainHolds, DrainSparesLiveRouteHolds DEF SwitchesInOrder
-----------------------------------------------------------------------------
\* Who touches requests: their own handlers.
LEMMA RequestKinds ==
  ASSUME [Next \/ Finished]_vars
  PROVE  \/ \E q \in Handlers, kind \in Kinds : RequestArrive(q, kind)
         \/ \E q \in Handlers : RequestStep(q)
         \/ req' = req
<1> USE DEF posture, switching, launching, closing
<1>1. CASE LauncherStep
  BY <1>1 DEF LauncherStep, CreateSession, LaunchPublish, SpawnChild, Attach,
              LauncherReturns, LauncherExits
<1>2. CASE LauncherFails \/ ClaudeExits \/ MonitorSeesExit \/ UNCHANGED vars
  BY <1>2 DEF LauncherFails, ClaudeExits, MonitorSeesExit, vars
<1>3. ASSUME NEW s \in Callers, SwitchCall(s) \/ SwitchLock(s) \/ SwitchStep(s)
      PROVE  req' = req
  BY <1>3 DEF SwitchCall, SwitchLock, SwitchStep, SwitchReject, SwitchRefuse,
              SwitchResolve, SwitchPublish, SwitchDrain, SwitchReport
<1>4. ASSUME NEW t \in Toggles, NEW on \in BOOLEAN, SetCapture(t, on) PROVE req' = req
  BY <1>4 DEF SetCapture
<1>5. ASSUME NEW c \in Closers, CloseStep(c) PROVE req' = req
  BY <1>5 DEF CloseStep, CloseMark, CloseProxy, CloseBodies, CloseAnnounce
<1> QED BY <1>1, <1>2, <1>3, <1>4, <1>5 DEF Next, Finished

\* What a request carries comes from the one posture it captured, and a route
\* without the key it needs gets no further than its capture.
ReqInv ==
  \A q \in Handlers :
    /\ req[q].pc \in {"routed", "sent"} =>
         /\ ~AuthMissing(q)
         /\ req[q].sent.base = IF ToAPI(q) THEN Captured(q) ELSE ZeroRoute
    /\ req[q].pc = "sent" =>
         /\ req[q].sent.own = (ToAPI(q) /\ Captured(q).key)
         /\ req[q].sent.egress = Captured(q).egress

\* No step of a switch, a toggle, the launcher or a closer reaches what a
\* request captured; its own steps build on it.
LEMMA ReqInvInductive ==
  ASSUME TypeOK, ReqInv, [Next \/ Finished]_vars
  PROVE  ReqInv'
<1> USE DEF ReqInv, AuthMissing, ToAPI, Captured
<1>0. \A q \in Handlers : req[q] \in Requests /\ req[q].sent \in Sent
  BY SentTypes DEF TypeOK
<1>00. req \in [Handlers -> Requests]
  BY DEF TypeOK
<1>1. ASSUME NEW q \in Handlers, NEW kind \in Kinds, RequestArrive(q, kind) PROVE ReqInv'
  BY <1>1, <1>00 DEF RequestArrive, Requests
<1>2. ASSUME NEW q \in Handlers, RequestCapture(q) PROVE ReqInv'
  BY <1>2, <1>00 DEF RequestCapture, Requests
<1>3. ASSUME NEW q \in Handlers, RequestAnswerLocally(q) PROVE ReqInv'
  BY <1>3, <1>00 DEF RequestAnswerLocally, Requests, IdleRequest
<1>4. ASSUME NEW q \in Handlers, RequestRoute(q) PROVE ReqInv'
  <2> DEFINE b == IF ToAPI(q) THEN Captured(q) ELSE ZeroRoute
  <2>1. req' = [req EXCEPT ![q].pc = "routed", ![q].sent.base = b] /\ ~AuthMissing(q)
    BY <1>4 DEF RequestRoute
  <2> HIDE DEF b
  <2>2. /\ req'[q].pc = "routed" /\ req'[q].kind = req[q].kind
        /\ req'[q].ap = req[q].ap /\ req'[q].sent.base = b
    BY <2>1, <1>0, <1>00 DEF Requests, Sent
  <2>3. \A p \in Handlers \ {q} : req'[p] = req[p]
    BY <2>1, <1>00
  <2>4. ~AuthMissing(q)' /\ b = IF ToAPI(q)' THEN Captured(q)' ELSE ZeroRoute
    BY <2>1, <2>2 DEF b
  <2> QED BY <2>2, <2>3, <2>4
<1>5. ASSUME NEW q \in Handlers, RequestSend(q) PROVE ReqInv'
  <2> DEFINE own == ToAPI(q) /\ Captured(q).key
             e == Captured(q).egress
  <2>1. /\ req' = [req EXCEPT ![q].pc = "sent", ![q].sent.egress = e, ![q].sent.own = own]
        /\ req[q].pc = "routed"
    BY <1>5 DEF RequestSend
  <2> HIDE DEF own, e
  <2>2. /\ req'[q].pc = "sent" /\ req'[q].kind = req[q].kind
        /\ req'[q].ap = req[q].ap /\ req'[q].sent.base = req[q].sent.base
        /\ req'[q].sent.own = own /\ req'[q].sent.egress = e
    BY <2>1, <1>0, <1>00 DEF Requests, Sent
  <2>3. \A p \in Handlers \ {q} : req'[p] = req[p]
    BY <2>1, <1>00
  <2>4. /\ ~AuthMissing(q)'
        /\ req'[q].sent.base = IF ToAPI(q)' THEN Captured(q)' ELSE ZeroRoute
    BY <2>1, <2>2
  <2>5. own = (ToAPI(q)' /\ Captured(q)'.key) /\ e = Captured(q)'.egress
    BY <2>2 DEF own, e
  <2> QED BY <2>2, <2>3, <2>4, <2>5
<1>6. ASSUME NEW q \in Handlers, RequestRecord(q) PROVE ReqInv'
  BY <1>6, <1>00 DEF RequestRecord, Requests, IdleRequest
<1>7. CASE req' = req
  BY <1>7
<1> QED BY <1>1, <1>2, <1>3, <1>4, <1>5, <1>6, <1>7, RequestKinds DEF RequestStep

\* A forwarded request goes to the upstream of one route, with that route's
\* credential over its egress, whatever the switches do meanwhile; a gateway
\* gets Claude's own credential only by opt-in.
THEOREM NoTornRequestHolds == Spec => []NoTornRequest
<1>1. Init => ReqInv
  BY DEF Init, ReqInv, IdleRequest
<1>2. TypeOK /\ ReqInv /\ [Next \/ Finished]_vars => ReqInv'
  BY ReqInvInductive
<1>3. TypeOK /\ ReqInv => NoTornRequest
  <2> SUFFICES ASSUME TypeOK, ReqInv, NEW q \in Handlers, req[q].pc = "sent"
      PROVE /\ \/ req[q].kind = "other" /\ ~req[q].sent.own
               \/ \E r \in AnyRoute :
                    req[q].sent = [base |-> r, own |-> r.key, egress |-> r.egress]
            /\ req[q].sent.base.thirdParty /\ ~AllowAuthPassthrough => req[q].sent.own
    BY DEF NoTornRequest
  <2> DEFINE r == Captured(q)
  <2>1. r \in AnyRoute /\ r.key \in BOOLEAN /\ r.thirdParty \in BOOLEAN
    BY RouteTypes DEF TypeOK, Requests, Posture, Captured
  <2>2. /\ req[q].sent.base = IF ToAPI(q) THEN r ELSE ZeroRoute
        /\ req[q].sent.own = (ToAPI(q) /\ r.key)
        /\ req[q].sent.egress = r.egress
        /\ ~AuthMissing(q)
    BY DEF ReqInv
  <2> HIDE DEF r
  <2>3. CASE ToAPI(q)
    <3>1. req[q].sent.base = r /\ req[q].sent.own = r.key
      <4>1. (ToAPI(q) /\ r.key) = r.key
        BY <2>3, <2>1
      <4>2. req[q].sent.own = (ToAPI(q) /\ r.key)
        BY <2>2
      <4> QED BY <4>1, <4>2, <2>2, <2>3
    <3>2. req[q].sent = [base |-> r, own |-> r.key, egress |-> r.egress]
      BY <3>1, <2>2, SentTypes DEF Sent
    <3>3. r.thirdParty /\ ~AllowAuthPassthrough => r.key
      <4>1. AuthBootstrap(r) # "missing"
        BY <2>2, <2>3 DEF AuthMissing, r
      <4>2. r = ZeroRoute => ~r.thirdParty
        BY DEF ZeroRoute
      <4> QED BY <4>1, <4>2, <2>1 DEF AuthBootstrap
    <3> QED BY <2>1, <3>1, <3>2, <3>3
  <2>4. CASE ~ToAPI(q)
    <3>1. req[q].kind = "other" /\ ~req[q].sent.own
      <4>1. (ToAPI(q) /\ r.key) = FALSE
        BY <2>4
      <4> QED BY <4>1, <2>2, <2>4 DEF ToAPI
    <3>2. req[q].sent.base.thirdParty = FALSE
      BY <2>2, <2>4 DEF ZeroRoute
    <3> QED BY <3>1, <3>2
  <2> QED BY <2>3, <2>4
<1>4. Spec => []TypeOK
  BY TypeCorrect
<1> QED BY <1>1, <1>2, <1>3, <1>4, PTL DEF Spec

-----------------------------------------------------------------------------
\* Who brings the end: the launcher's and the monitor's steps; the others
\* leave the closers alone and an ended session ended.
LEMMA EndKinds ==
  ASSUME [Next \/ Finished]_vars
  PROVE  \/ CreateSession \/ LaunchPublish \/ SpawnChild \/ Attach
         \/ LauncherReturns \/ LauncherExits \/ LauncherFails \/ MonitorSeesExit
         \/ \E c \in Closers : CloseStep(c)
         \/ /\ UNCHANGED <<closer, proxyClosed, bodiesGone, closedEvents, launcher>>
            /\ state' = "ended" <=> state = "ended"
<1> USE DEF posture, switching, launching, closing
<1>1. CASE ClaudeExits \/ UNCHANGED vars
  BY <1>1 DEF ClaudeExits, vars
<1>2. ASSUME NEW s \in Callers, SwitchCall(s) \/ SwitchLock(s) \/ SwitchStep(s)
      PROVE  UNCHANGED <<closer, proxyClosed, bodiesGone, closedEvents, launcher, state>>
  BY <1>2 DEF SwitchCall, SwitchLock, SwitchStep, SwitchReject, SwitchRefuse,
              SwitchResolve, SwitchPublish, SwitchDrain, SwitchReport
<1>3. ASSUME NEW t \in Toggles, NEW on \in BOOLEAN, SetCapture(t, on)
      PROVE  UNCHANGED <<closer, proxyClosed, bodiesGone, closedEvents, launcher, state>>
  BY <1>3 DEF SetCapture
<1>4. ASSUME NEW q \in Handlers, NEW kind \in Kinds, RequestArrive(q, kind)
      PROVE  /\ UNCHANGED <<closer, proxyClosed, bodiesGone, closedEvents, launcher>>
             /\ state' = "ended" <=> state = "ended"
  BY <1>4 DEF RequestArrive
<1>5. ASSUME NEW q \in Handlers, RequestStep(q)
      PROVE  UNCHANGED <<closer, proxyClosed, bodiesGone, closedEvents, launcher, state>>
  BY <1>5 DEF RequestStep, RequestCapture, RequestAnswerLocally, RequestRoute,
              RequestSend, RequestRecord
<1> QED BY <1>1, <1>2, <1>3, <1>4, <1>5 DEF Next, Finished, LauncherStep

\* How far each closer is.  Only the call that found the session open is
\* "first"; it announces after the proxy's and the bodies' end.  The monitor
\* starts only on a session that was attached.
EndInv ==
  /\ launcher \in {"starting", "creating"} => closer["launcher"].pc = "idle"
  /\ launcher \in {"starting", "creating", "created", "spawned"} => closer["monitor"].pc = "idle"
  /\ \A c \in Closers : closer[c].first => closer[c].pc \in {"marked", "closed", "removed", "done"}
  /\ state = "ended" <=> \E c \in Closers : closer[c].first
  /\ \A c, d \in Closers : closer[c].first /\ closer[d].first => c = d
  /\ \A c \in Closers : closer[c].pc \in {"closed", "removed", "done"} => proxyClosed
  /\ \A c \in Closers : closer[c].first /\ closer[c].pc \in {"removed", "done"} => bodiesGone
  /\ closedEvents = IF \E c \in Closers : closer[c].first /\ closer[c].pc = "done" THEN 1 ELSE 0

\* Every step keeps the account of the closers, and none revives a session.
LEMMA EndInvInductive ==
  ASSUME TypeOK, EndInv, [Next \/ Finished]_vars
  PROVE  EndInv' /\ (state = "ended" => state' = "ended")
<1> DEFINE P == EndInv' /\ (state = "ended" => state' = "ended")
<1> USE DEF EndInv, posture, switching, launching, closing, Closers
<1>0. closer \in [Closers -> CloseCalls] /\ closedEvents \in Nat
  BY DEF TypeOK
<1>1. CASE CreateSession BY <1>1 DEF CreateSession
<1>2. CASE LaunchPublish BY <1>2 DEF LaunchPublish
<1>3. CASE SpawnChild BY <1>3 DEF SpawnChild
<1>4. CASE Attach BY <1>4 DEF Attach
<1>5. CASE LauncherReturns BY <1>5, <1>0 DEF LauncherReturns, Call, CloseCalls
<1>6. CASE LauncherExits BY <1>6 DEF LauncherExits
<1>7. CASE LauncherFails BY <1>7, <1>0 DEF LauncherFails, Call, CloseCalls
<1>8. CASE MonitorSeesExit BY <1>8, <1>0 DEF MonitorSeesExit, Call, CloseCalls
<1>9. ASSUME NEW c \in Closers, CloseMark(c) PROVE P
  BY <1>9, <1>0 DEF CloseMark, CloseCalls, Up
<1>10. ASSUME NEW c \in Closers, CloseProxy(c) PROVE P
  BY <1>10, <1>0 DEF CloseProxy, CloseCalls, Up
<1>11. ASSUME NEW c \in Closers, CloseBodies(c) PROVE P
  BY <1>11, <1>0 DEF CloseBodies, CloseCalls, Up
<1>12. ASSUME NEW c \in Closers, CloseAnnounce(c) PROVE P
  BY <1>12, <1>0 DEF CloseAnnounce, CloseCalls, Up
<1>13. CASE /\ UNCHANGED <<closer, proxyClosed, bodiesGone, closedEvents, launcher>>
            /\ state' = "ended" <=> state = "ended"
  BY <1>13
<1> QED BY <1>1, <1>2, <1>3, <1>4, <1>5, <1>6, <1>7, <1>8, <1>9, <1>10, <1>11, <1>12,
           <1>13, EndKinds DEF CloseStep

\* One of the launcher and the monitor announces the end, after everything of
\* the session is gone, and nothing brings the session back.
THEOREM EndsOnceHolds == Spec => EndsOnce
<1>1. Init => EndInv
  BY DEF Init, EndInv, Closers
<1>2. TypeOK /\ EndInv /\ [Next \/ Finished]_vars => EndInv'
  BY EndInvInductive
<1>3. TypeOK /\ EndInv /\ [Next \/ Finished]_vars => (state = "ended" => state' = "ended")
  BY EndInvInductive
<1>4. TypeOK /\ EndInv => ClosedAnnouncedLast
  BY DEF EndInv, ClosedAnnouncedLast
<1>5. Spec => []TypeOK
  BY TypeCorrect
<1>6. (TypeOK /\ EndInv)' => ClosedAnnouncedLast'
  BY <1>4, PTL
<1>7. TypeOK /\ TypeOK' /\ EndInv /\ [Next \/ Finished]_vars
        => [ClosedAnnouncedLast' /\ (state = "ended" => state' = "ended")]_vars
  BY <1>2, <1>3, <1>6
<1> QED BY <1>1, <1>2, <1>5, <1>7, PTL DEF Spec, EndsOnce

=============================================================================
