------------------------------- MODULE MCIssues -------------------------------
(***************************************************************************)
(* Issues with one route per way a route change settles an issue: a        *)
(* gateway whose base URL is wrong and which aliases no model here, the    *)
(* same profile after its base URL and one alias were edited, and a        *)
(* gateway with no key.  Anthropic itself would settle what the last does. *)
(***************************************************************************)
EXTENDS Issues, TLC

CONSTANTS opus, haiku, q1, q2

Route(profile, upstream, auth, missing, badBase, unmaps) ==
  [profile |-> profile, upstream |-> upstream, auth |-> auth,
   missing |-> missing, badBase |-> badBase, unmaps |-> unmaps]

BadGateway == Route("gw", "gw/v1", "key", FALSE, "v1", {opus, haiku})
FixedGateway == Route("gw", "gw", "key", FALSE, "no", {haiku})
Keyless == Route("bare", "bare", "none", TRUE, "no", {})

MCRoutes == {BadGateway, FixedGateway, Keyless}

HandlerSymmetry == Permutations({q1, q2})
=============================================================================
