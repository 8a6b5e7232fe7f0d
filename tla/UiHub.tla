-------------------------------- MODULE UiHub --------------------------------
(***************************************************************************)
(* The hub of `ccwrap ui`: refreshes that list the sessions, followers     *)
(* that relay their event streams, and the page that shows what it is      *)
(* told over a bounded queue and what it reads itself.                     *)
(*                                                                         *)
(* Sources: internal/uiservice/sessions.go and web/js/{main,api}.js; a     *)
(* session is its state, and its supervisor what answers for it.           *)
(***************************************************************************)
EXTENDS Naturals, Sequences, FiniteSets

CONSTANTS
  Sessions,
  QueueCap,   \* events a page's queue holds (256 in the code)
  MaxTrouble  \* bound: missed probes, cut streams and reconnects together

ASSUME UiHubAssumption ==
  QueueCap \in Nat \ {0} /\ MaxTrouble \in Nat /\ IsFiniteSet(Sessions)

VARIABLES
  real,     \* each session: "running", "ended" (answers still), "gone"
  trouble,  \* how much has gone wrong
  missed,   \* sessions a refresh did not reach though they were there
  turn,     \* which refresh holds refreshMu, or "none"
  refresh,  \* each refresh: [pc, found, sums, changed]
  list,     \* h.sessions: "none" where a session is not listed
  aged,     \* sessions whose end is EndedRetention ago
  follows,  \* h.follows: the follower of each session, 0 if none
  follower, \* followers of each session: [pc, cancelled, pipe]
  page      \* the page: [pc, queue, view, get, answer, lost, late]

hubVars == <<real, trouble, missed, turn, refresh, list, aged, follows, follower, page>>
world == <<real, trouble, missed>>
relays == <<follows, follower>>

Refreshes == {"poll", "request"}
Names == 1..2
States == {"running", "ended"}
NoList == [s \in Sessions |-> "none"]
Lists == [Sessions -> States \union {"none"}]
NoRefresh == [pc |-> "idle", found |-> {}, sums |-> NoList, changed |-> FALSE]
NoFollower == [pc |-> "none", cancelled |-> FALSE, pipe |-> <<>>]
NoPage == [pc |-> "away", queue |-> <<>>, view |-> NoList, get |-> "due",
           answer |-> NoList, lost |-> FALSE, late |-> FALSE]

\* What the service sends: the whole list, or one session's state.
Whole(l) == [typ |-> "list", list |-> l]
One(s, state) == [typ |-> "state", list |-> [NoList EXCEPT ![s] = state]]
Events == [typ : {"list", "state"}, list : Lists]

UiHubTypeOK ==
  /\ real \in [Sessions -> {"running", "ended", "gone"}]
  /\ trouble \in 0..MaxTrouble /\ missed \subseteq Sessions /\ aged \subseteq Sessions
  /\ turn \in Refreshes \union {"none"}
  /\ refresh \in [Refreshes -> [pc : {"idle", "ask", "tell"}, found : SUBSET Sessions,
                                sums : [Sessions -> States \union {"none", "silent"}],
                                changed : BOOLEAN]]
  /\ list \in Lists
  /\ follows \in [Sessions -> Names \union {0}]
  /\ follower \in [Sessions -> [Names -> [pc : {"none", "opening", "relaying", "ending"},
                                          cancelled : BOOLEAN, pipe : Seq(States)]]]
  /\ page \in [pc : {"away", "open"}, queue : Seq(Events), view : Lists, answer : Lists,
               get : {"due", "asked", "answered", "read"}, lost : BOOLEAN, late : BOOLEAN]
  /\ Len(page.queue) <= QueueCap

UiHubInit ==
  /\ real \in [Sessions -> {"running", "gone"}]
  /\ trouble \in 0..MaxTrouble /\ missed = {} /\ turn = "none" /\ aged = {}
  /\ refresh = [r \in Refreshes |-> NoRefresh]
  /\ list = NoList
  /\ follows = [s \in Sessions |-> 0]
  /\ follower = [s \in Sessions |-> [f \in Names |-> NoFollower]]
  /\ page \in {[NoPage EXCEPT !.get = "read"], NoPage}

Troubled(n) == trouble + n <= MaxTrouble /\ trouble' = trouble + n

(* The sessions, and the streams they write to. *)

Answers(s) == real[s] \in {"running", "ended"}

Hears(f, state) == IF f.pc = "relaying" THEN [f EXCEPT !.pipe = Append(@, state)] ELSE f
Sent(s, state) ==
  follower' = [follower EXCEPT ![s] = [f \in Names |-> Hears(follower[s][f], state)]]

\* An update of anything but the state; one is on its way at a time.
Updates(s) ==
  /\ real[s] = "running"
  /\ \A f \in Names : follower[s][f].pipe = <<>>
  /\ Sent(s, "running")
  /\ UNCHANGED <<world, turn, refresh, list, aged, follows, page>>

Ends(s) ==
  /\ real[s] = "running"
  /\ real' = [real EXCEPT ![s] = "ended"]
  /\ Sent(s, "ended")
  /\ UNCHANGED <<trouble, missed, turn, refresh, list, aged, follows, page>>

\* The supervisor exits, or is killed without a word.
Leaves(s) ==
  /\ Answers(s)
  /\ real' = [real EXCEPT ![s] = "gone"]
  /\ UNCHANGED <<trouble, missed, turn, refresh, list, aged, relays, page>>

(* refresh.  A GET of the page refreshes as the poll does. *)

\* Under refreshMu, liveSessions: a session whose socket is too slow for the
\* probe is not found.
Scan(r) ==
  /\ refresh[r].pc = "idle" /\ turn = "none"
  /\ r = "request" => page.pc = "open" /\ page.get = "due"
  /\ turn' = r
  /\ page' = IF r = "request" THEN [page EXCEPT !.get = "asked"] ELSE page
  /\ \E slow \in SUBSET {s \in Sessions : Answers(s)} :
       /\ Troubled(Cardinality(slow))
       /\ missed' = missed \union slow
       /\ refresh' = [refresh EXCEPT ![r].pc = "ask",
                        ![r].found = {s \in Sessions \ slow : Answers(s)}]
  /\ UNCHANGED <<real, list, aged, relays>>

\* Each for itself, bounded in time.
Summarize(r, s) ==
  /\ refresh[r].pc = "ask"
  /\ s \in refresh[r].found /\ refresh[r].sums[s] = "none"
  /\ \/ /\ Answers(s)
        /\ refresh' = [refresh EXCEPT ![r].sums[s] = real[s]]
        /\ UNCHANGED <<trouble, missed>>
     \/ /\ refresh' = [refresh EXCEPT ![r].sums[s] = "silent"]
        /\ IF Answers(s) THEN Troubled(1) /\ missed' = missed \union {s}
                         ELSE UNCHANGED <<trouble, missed>>
  /\ UNCHANGED <<real, turn, list, aged, relays, page>>

\* One that does not answer keeps its entry, one that went away is listed as
\* ended, and one that has been ended for long is not listed.
Listed(r, s) ==
  LET sum == refresh[r].sums[s]
      state == IF sum \in States THEN sum
               ELSE IF sum = "silent" \/ list[s] = "none" THEN list[s]
               ELSE "ended"
  IN  IF state = "ended" /\ s \in aged THEN "none" ELSE state

Idle(s) == {f \in Names : follower[s][f].pc = "none"}

\* Under h.mu: the list, new followers, and the end of those whose session went.
Commit(r) ==
  LET found == refresh[r].found
      new == {s \in found : refresh[r].sums[s] \in States /\ follows[s] = 0}
      gone == {s \in Sessions \ found : follows[s] # 0}
  IN  /\ refresh[r].pc = "ask"
      /\ \A s \in found : refresh[r].sums[s] # "none"
      /\ \A s \in new : Idle(s) # {}
      /\ list' = [s \in Sessions |-> Listed(r, s)]
      /\ aged' = {s \in aged : list'[s] # "running"}
      /\ follows' = [s \in Sessions |->
           IF s \in new THEN CHOOSE f \in Idle(s) : TRUE
           ELSE IF s \in gone THEN 0 ELSE follows[s]]
      /\ follower' = [s \in Sessions |-> [f \in Names |->
           IF s \in new /\ f = follows'[s] THEN [NoFollower EXCEPT !.pc = "opening"]
           ELSE IF s \in gone /\ f = follows[s] THEN [follower[s][f] EXCEPT !.cancelled = TRUE]
           ELSE follower[s][f]]]
      /\ refresh' = [refresh EXCEPT ![r] = [NoRefresh EXCEPT !.pc = "tell",
                                                       !.changed = list' # list]]
      /\ UNCHANGED <<world, turn, page>>

\* publish: a full queue loses the event, and nobody is told.
Queued(p, e) ==
  IF p.pc = "away" THEN p
  ELSE IF Len(p.queue) < QueueCap THEN [p EXCEPT !.queue = Append(@, e)]
  ELSE [p EXCEPT !.lost = TRUE]

\* sessions.changed, still in the refresh's turn, and the answer to a GET.
Tell(r) ==
  /\ refresh[r].pc = "tell"
  /\ LET told == IF refresh[r].changed THEN Queued(page, Whole(list)) ELSE page
     IN  page' = IF r = "request" /\ told.get = "asked"
                 THEN [told EXCEPT !.get = "answered", !.answer = list] ELSE told
  /\ turn' = "none"
  /\ refresh' = [refresh EXCEPT ![r] = NoRefresh]
  /\ UNCHANGED <<world, list, aged, relays>>

Age(s) ==
  /\ list[s] = "ended" /\ s \notin aged
  /\ aged' = aged \union {s}
  /\ UNCHANGED <<world, turn, refresh, list, relays, page>>

(* follow. *)

Becomes(s, f, to) == follower' = [follower EXCEPT ![s][f] = to]

Opens(s, f) ==
  /\ follower[s][f].pc = "opening"
  /\ Becomes(s, f, [follower[s][f] EXCEPT
       !.pc = IF Answers(s) /\ ~follower[s][f].cancelled THEN "relaying" ELSE "ending"])
  /\ UNCHANGED <<world, turn, refresh, list, aged, follows, page>>

\* What the scanner has buffered is relayed even after a cancel.
Relay(s, f) ==
  /\ follower[s][f].pc = "relaying" /\ follower[s][f].pipe # <<>>
  /\ Becomes(s, f, [follower[s][f] EXCEPT !.pipe = Tail(@)])
  /\ page' = Queued(page, One(s, Head(follower[s][f].pipe)))
  /\ UNCHANGED <<world, turn, refresh, list, aged, follows>>

\* The session is gone, the follower cancelled, or the stream was cut.
StreamEnds(s, f) ==
  /\ follower[s][f].pc = "relaying"
  /\ \/ follower[s][f].cancelled /\ UNCHANGED trouble
     \/ ~Answers(s) /\ follower[s][f].pipe = <<>> /\ UNCHANGED trouble
     \/ Troubled(1)
  /\ Becomes(s, f, [follower[s][f] EXCEPT !.pc = "ending", !.pipe = <<>>])
  /\ UNCHANGED <<real, missed, turn, refresh, list, aged, follows, page>>

\* Mutant: a follower's end leaves its entry.
FollowEndsOnly(s, f) ==
  /\ follower[s][f].pc = "ending"
  /\ Becomes(s, f, NoFollower)
  /\ UNCHANGED <<world, follows, turn, refresh, list, aged, page>>

\* Its successor's entry is not its own.
FollowEnds(s, f) ==
  /\ follower[s][f].pc = "ending"
  /\ Becomes(s, f, NoFollower)
  /\ follows' = [follows EXCEPT ![s] = IF @ = f THEN 0 ELSE @]
  /\ UNCHANGED <<world, turn, refresh, list, aged, page>>

(* The page. *)

\* handleEvents registers the queue and takes the list in one section, and
\* hello tells the list before anything of the queue.
Connect ==
  /\ page.pc = "away"
  /\ page' = [page EXCEPT !.pc = "open", !.view = list, !.lost = FALSE, !.late = FALSE]
  /\ UNCHANGED <<world, turn, refresh, list, aged, relays>>

\* Mutant: a session's state adds an entry where there is none.
DeliverUpsert ==
  /\ page.queue # <<>>
  /\ LET e == Head(page.queue)
     IN  page' = [page EXCEPT !.queue = Tail(@),
           !.view = IF e.typ = "list" THEN e.list
                    ELSE [s \in Sessions |-> IF e.list[s] # "none" THEN e.list[s] ELSE @[s]],
           !.late = IF e.typ = "list" THEN FALSE ELSE @]
  /\ UNCHANGED <<world, turn, refresh, list, aged, relays>>

\* main.js: a whole list replaces, a session's state patches its entry.
Deliver ==
  /\ page.queue # <<>>
  /\ LET e == Head(page.queue)
     IN  page' = [page EXCEPT !.queue = Tail(@),
           !.view = IF e.typ = "list" THEN e.list
                    ELSE [s \in Sessions |-> IF @[s] # "none" /\ e.list[s] # "none"
                                             THEN e.list[s] ELSE @[s]],
           !.late = IF e.typ = "list" THEN FALSE ELSE @]
  /\ UNCHANGED <<world, turn, refresh, list, aged, relays>>

\* loadLists' answer may have been overtaken by the stream.
ReadAnswer ==
  /\ page.get = "answered"
  /\ page' = [page EXCEPT !.get = "read", !.view = page.answer,
                          !.late = page.answer # list]
  /\ UNCHANGED <<world, turn, refresh, list, aged, relays>>

\* The connection breaks, or a write to it takes too long; the browser
\* connects again.
Break ==
  /\ page.pc = "open"
  /\ Troubled(1)
  /\ page' = [page EXCEPT !.pc = "away", !.queue = <<>>]
  /\ UNCHANGED <<real, missed, turn, refresh, list, aged, relays>>

RefreshStep(r) ==
  Scan(r) \/ (\E s \in Sessions : Summarize(r, s)) \/ Commit(r) \/ Tell(r)

PageStep == Connect \/ Deliver \/ ReadAnswer

FollowStep(s, f) == Opens(s, f) \/ Relay(s, f) \/ StreamEnds(s, f) \/ FollowEnds(s, f)

UiHubNext ==
  \/ \E s \in Sessions : Updates(s) \/ Ends(s) \/ Leaves(s) \/ Age(s)
  \/ \E s \in Sessions, f \in Names : FollowStep(s, f)
  \/ \E r \in Refreshes : RefreshStep(r)
  \/ PageStep \/ Break

UiHubSpec == UiHubInit /\ [][UiHubNext]_hubVars

\* One stream of a session is relayed at a time: a page hears nothing twice,
\* although streams end, sessions vanish from a scan and are followed anew
\* (sessions.go:303).
OneRelay ==
  \A s \in Sessions, f \in Names :
    follower[s][f].pc \in {"opening", "relaying"} /\ ~follower[s][f].cancelled =>
      follows[s] = f

\* A running session is followed again when its stream broke, or when a scan
\* had missed it (sessions.go:229, 303); by one follower that counts at a time.
SessionsAreFollowed ==
  /\ []OneRelay
  /\ \A s \in Sessions :
       real[s] = "running" ~>
         \/ real[s] # "running"
         \/ \E f \in Names : follower[s][f].pc = "relaying" /\ follows[s] = f

\* A session that is over does not come back to the list as running, though
\* refreshes overlap, unless a refresh had failed to reach it (sessions.go:181).
ListGoesForward ==
  [][\A s \in Sessions :
       list[s] = "ended" /\ real[s] # "running" /\ s \notin missed =>
         list'[s] # "running"]_hubVars

\* The list goes forward, and a page in the end shows it, although relayed
\* states overtake lists and lists relayed states: what a late patch spoils,
\* the removal of the ended session mends.  Not so if its queue lost an event,
\* or its own GET was overtaken (sessions.go:355, main.js:310).
ListConverges ==
  /\ []UiHubTypeOK
  /\ ListGoesForward
  /\ <>[](page.pc = "open" /\ ~page.lost /\ ~page.late => page.view = list)
=============================================================================
