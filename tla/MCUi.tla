--------------------------------- MODULE MCUi ---------------------------------
(***************************************************************************)
(* Small instances of the service and of its hub, of which a behaviour     *)
(* moves one.  The service: two commands that want a version each, with no *)
(* service, while pages and sessions come and go; or, with neither, an     *)
(* older one that both commands replace, or one does beside `ui stop`.     *)
(* The hub: one session that runs, and a page that reads the list itself   *)
(* while all goes well, or one that does not while something goes wrong.   *)
(***************************************************************************)
EXTENDS UiInstance, UiHub, TLC

CONSTANTS a, b, c, s1, s2, s3

VARIABLES
  who, \* the commands that are given, none where the hub moves
  old  \* an older service serves at the start

vars == <<uiVars, hubVars, who, old>>

MCWant == (a :> "v1") @@ (b :> "v2") @@ (c :> "stop")

\* A service of an older version serves.
Older ==
  /\ dir = [lock |-> s1, sock |-> s1, info |-> s1]
  /\ svc = [s \in Services |-> [pc |-> IF s = s1 THEN "serving" ELSE "none", version |-> "none",
              asked |-> FALSE, idle |-> FALSE, page |-> FALSE]]
  /\ call = [d \in Callers |-> [pc |-> "idle", at |-> "ensure", saw |-> "none"]]
  /\ busy = FALSE /\ mishaps = {}

Runs ==
  /\ \A s \in Sessions : real[s] = "running"
  /\ \/ trouble = 0 /\ page.get = "read"
     \/ trouble = MaxTrouble /\ page.get = "due"

Still == (\A s \in Sessions : real[s] = "gone") /\ trouble = 0 /\ page.get = "read"

Init ==
  /\ UiHubInit
  /\ \/ Runs /\ UiInstanceInit /\ who = {} /\ old = FALSE
     \/ Still /\ UiInstanceInit /\ who = {a, b} /\ old = FALSE
     \/ Still /\ Older /\ who \in {{a, b}, {a, c}} /\ old = TRUE

\* Only the commands given run, and services are numbered as they are started.
Plays ==
  /\ \A d \in Callers \ who : call'[d].pc = "idle"
  /\ old => ~busy' /\ \A s \in Services : ~svc'[s].page
  /\ svc'[s2].pc # "none" => svc'[s1].pc # "none"
  /\ svc'[s3].pc # "none" => svc'[s2].pc # "none"

OfService(A) == who # {} /\ A /\ Plays /\ UNCHANGED <<hubVars, who, old>>
OfHub(A) == who = {} /\ A /\ UNCHANGED <<uiVars, who, old>>

Spec == Init /\ [][OfService(UiInstanceNext) \/ OfHub(UiHubNext)]_vars

\* Every process goes on, time passes for an idle service and an ended session,
\* and the browser connects again; what goes wrong need not.
Fairness ==
  /\ \A s \in Services : WF_vars(OfService(ServiceStep(s))) /\ WF_vars(OfService(TimePasses(s)))
  /\ \A d \in Callers : WF_vars(OfService(CallStep(d))) /\ SF_vars(OfService(WaitTimesOut(d)))
  /\ \A r \in Refreshes : WF_vars(OfHub(RefreshStep(r)))
  /\ \A s \in Sessions : WF_vars(OfHub(Age(s)))
  /\ \A s \in Sessions, f \in Names :
       WF_vars(OfHub(\/ Opens(s, f) \/ Relay(s, f) \/ FollowEnds(s, f)
                     \/ (follower[s][f].cancelled \/ ~Answers(s)) /\ StreamEnds(s, f)))
  /\ WF_vars(OfHub(Connect)) /\ WF_vars(OfHub(Deliver)) /\ WF_vars(OfHub(ReadAnswer))

FairSpec == Spec /\ Fairness
=============================================================================
