------------------------------ MODULE MCSession ------------------------------
(* Instances of Session for TLC. *)
EXTENDS Session, TLC

CONSTANTS Gateway, Keyless, FirstParty, Direct, Proxied

\* One route per authentication contract, over two egresses: a gateway with a
\* key, a gateway whose key is missing, and Anthropic with Claude's own login.
MCRoutes ==
  { [profile |-> Gateway, egress |-> Direct, thirdParty |-> TRUE, key |-> TRUE],
    [profile |-> Keyless, egress |-> Proxied, thirdParty |-> TRUE, key |-> FALSE],
    [profile |-> FirstParty, egress |-> Direct, thirdParty |-> FALSE, key |-> FALSE] }

CallerSymmetry == Permutations(Callers)

TwoRoutes == {r \in MCRoutes : r.profile # Keyless}

Switching == {s \in Callers : sw[s].pc # "idle"}
Serving == {q \in Handlers : req[q].pc # "idle"}
Ending == claude = "exited" \/ \E c \in Closers : closer[c].pc # "idle"

\* With the toggles two callers switch between two routes, and the session ends
\* meanwhile.  Without them they switch between all three, or one does while a
\* request is served; and a request is served while the session ends.  A caller
\* that knows the session before its launch is published only toggles.
Fits ==
  /\ IF \A t \in Toggles : launch.l[t]
     THEN /\ Serving = {} /\ launch.r.profile # Keyless
          /\ \A s \in Callers : sw[s].new.profile # Keyless
     ELSE /\ \A t \in Toggles : ~active.l[t]
          /\ Serving # {} => \A s, r \in Switching : s = r
          /\ Ending => Switching = {}
  /\ launcher \in {"starting", "creating"} => Switching = {}

MCInit == Init /\ Fits
MCSpec == MCInit /\ [][(Next /\ Fits') \/ Finished]_vars /\ Fairness
=============================================================================
