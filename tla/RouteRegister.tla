--------------------------- MODULE RouteRegister ---------------------------
(***************************************************************************)
(* What a session promises about its routing posture, whatever goroutines  *)
(* the supervisor runs: one register with a route half and a toggle half,  *)
(* shown to readers whole.  The launch sets both halves; a profile switch  *)
(* replaces the route and no toggle; a capture toggle replaces that toggle *)
(* and no route.                                                           *)
(***************************************************************************)
CONSTANTS
  Routes,     \* the routes a profile can resolve to
  ZeroRoute,  \* the route of a session whose launch posture is not published
  Toggles     \* the capture toggles

VARIABLES
  route,      \* where requests that start now go
  toggles,    \* what requests that start now capture
  shown,      \* the whole posture, as the control API shows it
  launched    \* the launch set both halves, once

vars == <<route, toggles, shown, launched>>

Live == [Toggles -> BOOLEAN]

Shown(r, l) == [route |-> r, live |-> l]

Init ==
  /\ route = ZeroRoute
  /\ toggles = [t \in Toggles |-> FALSE]
  /\ shown = Shown(route, toggles)
  /\ launched = FALSE

Launch(r, l) ==
  /\ ~launched
  /\ launched' = TRUE
  /\ route' = r
  /\ toggles' = l
  /\ shown' = Shown(r, l)

Switch(r) ==
  /\ route' = r
  /\ toggles' = toggles
  /\ shown' = Shown(r, toggles)
  /\ UNCHANGED launched

Toggle(t, on) ==
  /\ toggles' = [toggles EXCEPT ![t] = on]
  /\ route' = route
  /\ shown' = Shown(route, toggles')
  /\ UNCHANGED launched

Next ==
  \/ \E r \in Routes, l \in Live : Launch(r, l)
  \/ \E r \in Routes : Switch(r)
  \/ \E t \in Toggles, on \in BOOLEAN : Toggle(t, on)

Spec == Init /\ [][Next]_vars
=============================================================================
