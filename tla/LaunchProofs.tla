---------------------------- MODULE LaunchProofs ----------------------------
(* Theorems about a launch for every set of launches, every situation it may *)
(* start from and whatever the user makes of the files, with their proofs.   *)
EXTENDS Launch, SequenceTheorems, TLAPS

-----------------------------------------------------------------------------
(* The root certificate. *)

Inside(p) == at[p] \in {"locked", "making", "keyed", "rooted"}

\* Whoever is inside EnsureCA has the lock, and so finds the files as it left
\* them; a root that is ready is the files' own.
CAInv ==
  /\ CATypeOK
  /\ key = Nobody => cert = Nobody
  /\ cert # Nobody => cert = key
  /\ \A p \in Launches :
       /\ Inside(p) <=> lock = p
       /\ at[p] = "making" => key = Nobody
       /\ at[p] = "keyed" => key = p /\ cert = Nobody
       /\ at[p] = "rooted" => root[p] # Nobody /\ cert = root[p]
       /\ at[p] = "ready" => root[p] # Nobody /\ cert = root[p] /\ bundle = root[p]

\* Nobody is inside EnsureCA at the start.
LEMMA CAStarts == CAInit => CAInv
  BY CAAssumption DEF CAInit, CAInv, CATypeOK, Inside

\* A step of EnsureCA, of a launch that any other may interrupt.
LEMMA CASteps ==
  ASSUME NEW p \in Launches, CAInv, EnsureCA(p)
  PROVE  CAInv'
<1> USE CAAssumption DEF CAInv, CATypeOK, Inside, Goto, Loads
<1>1. CASE AcquireLock(p)
  BY <1>1 DEF AcquireLock
<1>2. CASE LoadCA(p)
  BY <1>2 DEF LoadCA
<1>3. CASE MakeCA(p)
  BY <1>3 DEF MakeCA
<1>4. CASE WriteKey(p)
  BY <1>4 DEF WriteKey
<1>5. CASE WriteCert(p)
  BY <1>5 DEF WriteCert
<1>6. CASE WriteBundle(p)
  BY <1>6 DEF WriteBundle
<1>7. CASE EnsureCAFails(p)
  BY <1>7 DEF EnsureCAFails
<1> QED BY <1>1, <1>2, <1>3, <1>4, <1>5, <1>6, <1>7 DEF EnsureCA

\* A process that ends lets go of the lock, and leaves the files.
LEMMA CAGone ==
  ASSUME NEW p \in Launches, CAInv, Gone(p)
  PROVE  CAInv'
  BY CAAssumption DEF CAInv, CATypeOK, Inside, Goto, Gone

\* Neither touches another launch's place.
LEMMA CAElsewhere ==
  ASSUME CATypeOK, NEW p \in Launches, EnsureCA(p) \/ Gone(p)
  PROVE  \A q \in Launches \ {p} : at'[q] = at[q]
<1>1. \E s : Goto(p, s)
  BY DEF EnsureCA, AcquireLock, LoadCA, MakeCA, WriteKey, WriteCert, WriteBundle, EnsureCAFails,
         Gone
<1> QED BY <1>1 DEF Goto, CATypeOK

-------------------------------------------------------------------------
(* What a launch holds. *)

\* The cleanups, in the order they are pushed.
Pushed == <<"dir", "supervisor", "session", "argFile", "kill", "signals">>

Early ==
  {"sweep", "compose", "inspect", "snapshot", "resolve", "ResolveClaudeBin", "PreparePaths"}
Before == Early \union {"EnsureCA", "StartSupervisor", "AwaitControl", "CreateSession"}

\* The stack is the first cleanups, as many as the step says.
OrderInv == Len(stack) <= 6 /\ \A i \in 1..Len(stack) : stack[i] = Pushed[i]

\* How many cleanups there are to run.
Height == Len(stack)

HeightInv ==
  /\ step \in Early \union {"done"} => Height = 0
  /\ step \in {"EnsureCA", "StartSupervisor"} => Height = 1
  /\ step \in {"AwaitControl", "CreateSession"} => Height = 2
  /\ step = "WriteSessionSettings" => Height = 3
  /\ step = "SpawnChild" => Height = 4
  /\ step = "ForwardSignals" => Height = 5
  /\ step \in {"Attach", "Wait"} => Height = 6

StackInv == OrderInv /\ Height \in 0..6 /\ HeightInv

\* Whether a call got no answer, a scan took p for dead, ccwrap stop was run, and
\* it saw the session gone: each of them for good.
Lost == past.missed # {}
Misread(p) == p \in past.misread
Asked == stop.said # "idle"
SaidStopped == stop.said = "stopped"

\* The launch has its directory as long as it is to remove it.
UpInv == up[This] <=> step \notin {"done", "died"}

DirInv ==
  /\ step # "died" /\ Height = 0 => dir[This] = "none" \/ Lingers
  /\ step # "died" /\ Height # 0 => dir[This] # "none" \/ Misread(This)
  /\ up[This] /\ (Height >= 5 \/ step \in {"WriteSessionSettings", "SpawnChild"})
       => dir[This] = "manifest" \/ Misread(This)

\* What a sweep found stale stays so until it is removed, for a process that
\* ended does not come back; or it was wrong.
StaleInv ==
  \A w \in Sweepers : found[w] # Idle => \A p \in found[w] : ~up[p] \/ Misread(p)

OthersInv ==
  \A p \in Others : up[p] /\ at[p] # "outside" => dir[p] # "none" \/ Misread(p)

\* A session that is not announced to end has the launch still to close it, but
\* for a call without an answer, a supervisor that returned or a launcher that
\* died.
SupInv ==
  /\ step \in Before \ {"AwaitControl", "CreateSession"} => sup = "none"
  /\ step \in Before => session = "none"
  /\ session # "none" => sup \in {"serving", "stopped", "returned"}
  /\ session # "none" /\ sup = "serving" /\ step # "died" => Height >= 2
  /\ session \in {"open", "closed"} /\ sup = "serving" /\ step # "died"
       => Height >= 3 \/ Lost
  /\ sup = "stopped" => session \notin {"open", "closed"} \/ Lost
  /\ sup = "stopped" /\ step # "died" => Height <= 1
  /\ step \in {"WriteSessionSettings", "SpawnChild"} => sup \in {"serving", "returned"}
  /\ step = "done" => sup # "serving"
  /\ Asked => session # "none"

\* The same of the settings file and of Claude Code; and ccwrap stop sees the
\* end of a session only after that.
EndInv ==
  /\ argFile => Height >= 4 \/ step = "died"
  /\ claude = "running" => Height >= 5 \/ step = "died"
  /\ claude = "running" /\ step = "died" => ~Pdeathsig
  /\ SaidStopped /\ (claude = "running" \/ step \in {"WriteSessionSettings", "SpawnChild"})
       => sup = "returned" \/ (step = "died" /\ ~Pdeathsig) \/ Misread(This)

FlagsOK ==
  /\ step \in Steps \union {"sweep", "compose", "inspect", "snapshot", "resolve", "teardown",
                            "done", "died"}
  /\ sup \in {"none", "starting", "serving", "stopped", "returned"}
  /\ session \in {"none", "open", "closed", "ending", "ended"}
  /\ claude \in {"none", "running", "exited"}
  /\ reason \in {"launcher rollback", "exited", "stopped", "supervisor exited"}
PlacesOK ==
  /\ up \in [Launches -> BOOLEAN] /\ dir \in [Launches -> {"none", "bare", "manifest"}]
  /\ found \in [Sweepers -> (SUBSET Launches) \union {Idle}]
RelayType ==
  [queued : 0..MaxSignals + 1, first : {"none", "fresh", "old"}, graced : BOOLEAN, killed : BOOLEAN]
PastType ==
  [signals : 0..MaxSignals, sweeps : 0..MaxSweeps, misread : SUBSET Launches,
   missed : SUBSET {"create", "close"}]
StopType == [said : {"idle", "asked", "stopped", "guessed", "failed"}, due : BOOLEAN]

\* As many signals wait as there have been: the user's and ccwrap stop's.
QueueInv ==
  /\ stop.due => Asked
  /\ relay.queued <= past.signals + (IF Asked /\ ~stop.due THEN 1 ELSE 0)

Cleanups == {"dir", "supervisor", "session", "argFile", "kill", "signals"}

\* LauncherTypeOK in parts.
TypesOK ==
  /\ FlagsOK /\ PlacesOK /\ argFile \in BOOLEAN
  /\ stack \in Seq(Cleanups) /\ relay \in RelayType /\ past \in PastType /\ stop \in StopType

LauncherInv ==
  /\ TypesOK /\ CAInv /\ StackInv /\ UpInv /\ DirInv /\ StaleInv /\ OthersInv
  /\ SupInv /\ EndInv /\ QueueInv

\* A stack that stays has its order and height.
LEMMA SameStack ==
  ASSUME StackInv, UNCHANGED stack
  PROVE  OrderInv' /\ Height' = Height
  BY DEF StackInv, OrderInv, Height

\* The cleanups by their place.
LEMMA PushedValues ==
  /\ Pushed[1] = "dir" /\ Pushed[2] = "supervisor" /\ Pushed[3] = "session"
  /\ Pushed[4] = "argFile" /\ Pushed[5] = "kill" /\ Pushed[6] = "signals"
  BY DEF Pushed

\* A push of the next cleanup keeps the stack's order.
LEMMA Pushes ==
  ASSUME StackInv, stack \in Seq(Cleanups), NEW n \in 0..5, Height = n,
         NEW c \in Cleanups, c = Pushed[n + 1], Push(c)
  PROVE  stack' \in Seq(Cleanups) /\ OrderInv' /\ Height' = n + 1
<1>1. /\ n \in Nat /\ n + 1 <= 6 /\ stack' = Append(stack, c) /\ Len(stack) = n
      /\ \A i \in 1..n : stack[i] = Pushed[i]
  BY DEF StackInv, OrderInv, Push, Height
<1>2. /\ stack' \in Seq(Cleanups) /\ Len(stack') = n + 1
      /\ \A i \in 1..n : stack'[i] = stack[i]
      /\ stack'[n + 1] = c
  BY <1>1
<1>3. \A i \in 1..(n + 1) : i = n + 1 \/ i \in 1..n
  BY <1>1
<1>4. \A i \in 1..Len(stack') : stack'[i] = Pushed[i]
  BY <1>1, <1>2, <1>3
<1> QED BY <1>1, <1>2, <1>4 DEF OrderInv, Height

\* What is left of a sequence without its last element.
LEMMA FrontFacts ==
  ASSUME NEW S, NEW s \in Seq(S), s # <<>>
  PROVE  /\ Len(s) \in Nat \ {0}
         /\ Front(s) \in Seq(S) /\ Len(Front(s)) = Len(s) - 1
         /\ \A i \in 1..(Len(s) - 1) : Front(s)[i] = s[i]
<1> DEFINE L == Len(s)
           t == SubSeq(s, 1, L - 1)
<1>1. L \in Nat \ {0} /\ \A i \in 1..L : s[i] \in S
  BY EmptySeq, ElementOfSeq
<1> HIDE DEF L
<1>2. 1 \in Int /\ L - 1 \in Int /\ \A i \in 1..(L - 1) : s[i] \in S
  BY <1>1
<1>3. /\ t \in Seq(S) /\ Len(t) = IF 1 <= L - 1 THEN (L - 1) - 1 + 1 ELSE 0
      /\ \A i \in 1..((L - 1) - 1 + 1) : t[i] = s[1 + i - 1]
  BY <1>2, SubSeqProperties
<1> HIDE DEF t
<1>4. Len(t) = L - 1
  BY <1>1, <1>3
<1>5. \A i \in 1..(L - 1) : t[i] = s[i]
  BY <1>1, <1>3
<1>6. Front(s) = t
  BY DEF Front, t, L
<1> QED BY <1>1, <1>3, <1>4, <1>5, <1>6 DEF L

\* A cleanup that is run is the last that was pushed.
LEMMA Pops ==
  ASSUME StackInv, stack \in Seq(Cleanups), stack # <<>>, stack' = Front(stack)
  PROVE  /\ stack' \in Seq(Cleanups) /\ OrderInv'
         /\ Height \in 1..6 /\ Height' = Height - 1
         /\ Last(stack) = Pushed[Height]
<1> DEFINE L == Len(stack)
<1>1. /\ L \in Nat \ {0} /\ stack' \in Seq(Cleanups) /\ Len(stack') = L - 1
      /\ \A i \in 1..(L - 1) : stack'[i] = stack[i]
  BY FrontFacts
<1>2. L <= 6 /\ \A i \in 1..L : stack[i] = Pushed[i]
  BY DEF StackInv, OrderInv
<1>3. Last(stack) = stack[L]
  BY DEF Last
<1>4. Height = L /\ Height' = Len(stack')
  BY DEF Height
<1> HIDE DEF L
<1>5. L \in 1..6 /\ Last(stack) = Pushed[L]
  BY <1>1, <1>2, <1>3
<1>6. \A i \in 1..(L - 1) : stack'[i] = Pushed[i]
  BY <1>1, <1>2
<1>7. OrderInv'
  <2>1. 1..Len(stack') = 1..(L - 1) /\ Len(stack') <= 6
    BY <1>1, <1>2
  <2> QED BY <1>6, <2>1 DEF OrderInv
<1> QED BY <1>1, <1>4, <1>5, <1>7

\* What a step of the whole is to the launcher: of the launch's own steps only
\* the errors before its first cleanup are not steps of Launcher.
EarlyStep ==
  /\ step \in {"compose", "inspect", "snapshot", "resolve"} /\ Unopened
  /\ \/ step' \in {"inspect", "snapshot", "resolve", "ResolveClaudeBin"} /\ UNCHANGED <<up, caVars>>
     \/ Returns

LauncherStep ==
  \/ EarlyStep \/ PlainSteps \/ Environment
  \/ CreateSession \/ (\E inFile \in BOOLEAN : WriteSessionSettings(inFile)) \/ SpawnChild

\* Every step of the whole is one of those, or leaves the launcher alone.
LEMMA StepKinds ==
  ASSUME [Next]_vars
  PROVE  LauncherStep \/ UNCHANGED <<launcherVars, caVars>>
<1>1. CASE LaunchStep
  <2>1. CASE ResolveLaunchProfile \/ InspectLaunch \/ Snapshots \/ RunWithInspection
    BY <2>1 DEF ResolveLaunchProfile, InspectLaunch, Snapshots, RunWithInspection, Continues,
                Goes, Returns, EarlyStep, LauncherStep
  <2>2. CASE WritesSessionSettings
    BY <2>2 DEF WritesSessionSettings, LauncherStep
  <2> QED BY <1>1, <2>1, <2>2 DEF LaunchStep, LauncherStep
<1>2. CASE \/ UserEdits \/ SwitchProfile("inherit-env")
           \/ \E p \in disk.profiles : SwitchProfile(p.name)
  BY <1>2 DEF UserEdits, SwitchProfile
<1>3. CASE UNCHANGED vars
  BY <1>3 DEF vars
<1> QED BY <1>1, <1>2, <1>3 DEF Next, LauncherStep

\* A sweep removes nothing of a process that runs, unless it was wrong.
LEMMA RemovesStale ==
  ASSUME StaleInv, NEW w \in Sweepers, RemoveAll(w)
  PROVE  \A p \in Launches : up[p] => dir'[p] = dir[p] \/ Misread(p)
<1>1. \A p \in found[w] : ~up[p] \/ Misread(p)
  BY DEF StaleInv, RemoveAll
<1> QED BY <1>1 DEF RemoveAll

\* What a step adds to what there has been.
PastKind ==
  \/ UNCHANGED past
  \/ \E call \in {"create", "close"} : Misses(call)
  \/ \E wrong \in SUBSET Launches, runs \in {0, 1} :
       /\ runs = 0 \/ past.sweeps < MaxSweeps
       /\ past' = [past EXCEPT !.misread = @ \union wrong, !.sweeps = @ + runs]
  \/ /\ HardKill \/ Signal
     /\ past.signals < MaxSignals /\ past' = [past EXCEPT !.signals = @ + 1]

\* Every step adds one thing at most.
LEMMA PastSteps ==
  ASSUME LauncherStep
  PROVE  PastKind
<1>1. CASE \/ EarlyStep \/ SweepRemoves \/ ResolveClaudeBin \/ PreparePaths \/ EnsuresCA
           \/ StartSupervisor \/ AwaitControl \/ SpawnChild \/ ForwardSignalsToChild \/ Attach
           \/ Exit \/ (\E inFile \in BOOLEAN : WriteSessionSettings(inFile))
  <2>1. UNCHANGED past
    BY <1>1 DEF EarlyStep, Unopened, SweepRemoves, ResolveClaudeBin, PreparePaths, EnsuresCA,
                StartSupervisor, AwaitControl, SpawnChild, ForwardSignalsToChild, Attach, Exit,
                WriteSessionSettings
  <2> QED BY <2>1 DEF PastKind
<1>2. CASE \/ SupervisorServes \/ SupervisorReturns \/ RelaySignal \/ GapPasses \/ GraceOver
           \/ ClaudeExits \/ MonitorEndsSession \/ HandlesClose \/ Announces \/ WritesBody
           \/ RequestStop \/ HandleShutdown \/ WaitForSessionStop \/ GcRemoves
  <2>1. UNCHANGED past
    BY <1>2 DEF SupervisorServes, SupervisorReturns, RelaySignal, GapPasses, GraceOver, ClaudeExits,
                MonitorEndsSession, HandlesClose, Announces, WritesBody, RequestStop,
                HandleShutdown, WaitForSessionStop, GcRemoves
  <2> QED BY <2>1 DEF PastKind
<1>3. CASE Other
  <2>1. UNCHANGED past
    BY <1>3 DEF Other, OtherPrepares, OtherEnsuresCA, OtherWritesManifest, OtherEnds, launcherVars
  <2> QED BY <2>1 DEF PastKind
<1>4. CASE CreateSession
  <2>1. UNCHANGED past \/ Misses("create")
    BY <1>4 DEF CreateSession
  <2> QED BY <2>1 DEF PastKind
<1>5. CASE Rollback
  <2>1. UNCHANGED past \/ Misses("close")
    BY <1>5 DEF Rollback, Cleans, ClosesSession
  <2> QED BY <2>1 DEF PastKind
<1>6. CASE SweepScans
  <2>1. PICK wrong \in SUBSET Launches :
          past' = [past EXCEPT !.misread = @ \union wrong, !.sweeps = @ + 0]
    BY <1>6 DEF SweepScans, Scan
  <2> QED BY <2>1 DEF PastKind
<1>7. CASE GcScans
  <2>1. PICK wrong \in SUBSET Launches :
          past' = [past EXCEPT !.misread = @ \union wrong, !.sweeps = @ + 1]
    BY <1>7 DEF GcScans, Scan
  <2>2. past.sweeps < MaxSweeps
    BY <1>7 DEF GcScans
  <2> QED BY <2>1, <2>2 DEF PastKind
<1>8. CASE HardKill \/ Signal
  BY <1>8 DEF HardKill, Signal, PastKind
<1>9. CASE Wait
  BY <1>9, Zenon DEF Wait, PastKind
<1> QED
  BY <1>1, <1>2, <1>3, <1>4, <1>5, <1>6, <1>7, <1>8, <1>9 DEF LauncherStep, PlainSteps, Environment

\* So it keeps its type, what is in it stays, and only a signal counts as one.
LEMMA PastGrows ==
  ASSUME LauncherStep, past \in PastType
  PROVE  /\ past' \in PastType
         /\ Lost => Lost'
         /\ \A p \in Launches : Misread(p) => Misread(p)'
         /\ HardKill \/ Signal \/ past'.signals = past.signals
<1>1. PastKind
  BY PastSteps
<1>2. CASE UNCHANGED past
  BY <1>2 DEF Lost, Misread
<1>3. CASE \E call \in {"create", "close"} : Misses(call)
  <2>1. PICK call \in {"create", "close"} : past' = [past EXCEPT !.missed = @ \union {call}]
    BY <1>3 DEF Misses
  <2> QED BY <2>1 DEF PastType, Lost, Misread
<1>4. CASE \E wrong \in SUBSET Launches, runs \in {0, 1} :
             /\ runs = 0 \/ past.sweeps < MaxSweeps
             /\ past' = [past EXCEPT !.misread = @ \union wrong, !.sweeps = @ + runs]
  <2>1. PICK wrong \in SUBSET Launches, runs \in {0, 1} :
          /\ runs = 0 \/ past.sweeps < MaxSweeps
          /\ past' = [past EXCEPT !.misread = @ \union wrong, !.sweeps = @ + runs]
    BY <1>4
  <2>2. past.sweeps + runs \in 0..MaxSweeps
    BY <2>1, LauncherAssumption DEF PastType
  <2> QED BY <2>1, <2>2 DEF PastType, Lost, Misread
<1>5. CASE /\ HardKill \/ Signal
           /\ past.signals < MaxSignals /\ past' = [past EXCEPT !.signals = @ + 1]
  <2>1. past.signals + 1 \in 0..MaxSignals
    BY <1>5, LauncherAssumption DEF PastType
  <2> QED BY <1>5, <2>1 DEF PastType, Lost, Misread
<1> QED BY <1>1, <1>2, <1>3, <1>4, <1>5 DEF PastKind

\* ccwrap stop is run on a session there is, and says that it is gone when it
\* sees that.
LEMMA StopSteps ==
  ASSUME LauncherStep, stop \in StopType
  PROVE  /\ stop' \in StopType
         /\ Asked' => Asked \/ session # "none"
         /\ SaidStopped' => SaidStopped \/ WaitForSessionStop
         /\ \/ UNCHANGED stop
            \/ RequestStop \/ HandleShutdown \/ WaitForSessionStop
<1>1. UNCHANGED stop \/ RequestStop \/ HandleShutdown \/ WaitForSessionStop
  <2>1. CASE \/ EarlyStep \/ SweepScans \/ SweepRemoves \/ ResolveClaudeBin \/ PreparePaths
             \/ EnsuresCA \/ StartSupervisor \/ AwaitControl \/ CreateSession \/ SpawnChild
             \/ ForwardSignalsToChild \/ Attach \/ Rollback \/ Exit
             \/ (\E inFile \in BOOLEAN : WriteSessionSettings(inFile))
    BY <2>1 DEF EarlyStep, Unopened, SweepScans, SweepRemoves, ResolveClaudeBin, PreparePaths,
                EnsuresCA, StartSupervisor, AwaitControl, CreateSession, SpawnChild,
                ForwardSignalsToChild, Attach, Rollback, Exit, WriteSessionSettings
  <2>2. CASE \/ SupervisorServes \/ SupervisorReturns \/ HardKill \/ Signal \/ RelaySignal
             \/ GapPasses \/ GraceOver \/ ClaudeExits \/ MonitorEndsSession \/ HandlesClose
             \/ Announces \/ WritesBody \/ GcScans \/ GcRemoves \/ Other
    BY <2>2 DEF SupervisorServes, SupervisorReturns, HardKill, Signal, RelaySignal, GapPasses,
                GraceOver, ClaudeExits, MonitorEndsSession, HandlesClose, Announces, WritesBody,
                GcScans, GcRemoves, Other, OtherPrepares, OtherEnsuresCA, OtherWritesManifest,
                OtherEnds, launcherVars
  <2>3. CASE Wait
    BY <2>3, Zenon DEF Wait
  <2> QED BY <2>1, <2>2, <2>3 DEF LauncherStep, PlainSteps, Environment
<1>2. CASE UNCHANGED stop
  BY <1>2 DEF Asked, SaidStopped
<1>3. CASE RequestStop
  <2>1. PICK said \in {"asked", "failed"} : stop' = [said |-> said, due |-> TRUE]
    BY <1>3 DEF RequestStop
  <2>2. session # "none"
    BY <1>3 DEF RequestStop
  <2>3. stop' \in StopType /\ ~SaidStopped'
    BY <2>1 DEF StopType, SaidStopped
  <2> QED BY <1>3, <2>2, <2>3
<1>4. CASE HandleShutdown
  BY <1>4 DEF HandleShutdown, StopType, Asked, SaidStopped
<1>5. CASE WaitForSessionStop
  BY <1>5 DEF WaitForSessionStop, StopType, Asked, SaidStopped
<1> QED BY <1>1, <1>2, <1>3, <1>4, <1>5

\* A step pushes the cleanup that comes next in the order, runs the last one,
\* or leaves the stack; and the step that comes next says how many there are.
LEMMA StackSteps ==
  ASSUME LauncherStep, StackInv, stack \in Seq(Cleanups)
  PROVE  StackInv' /\ stack' \in Seq(Cleanups)
<1> USE SameStack
<1>1. CASE \/ EarlyStep \/ SweepScans \/ SweepRemoves \/ ResolveClaudeBin \/ EnsuresCA
           \/ AwaitControl
  BY <1>1 DEF EarlyStep, Unopened, Returns, SweepScans, SweepRemoves, ResolveClaudeBin, Fails,
     EnsuresCA, AwaitControl, StackInv, HeightInv, Early, Goes
<1>2. CASE Attach \/ Wait \/ SupervisorServes \/ SupervisorReturns \/ HardKill \/ Signal
  BY <1>2 DEF Attach, Fails, Wait, SupervisorServes, SupervisorReturns, HardKill, Dies, Signal,
     Interrupts, StackInv, HeightInv, Early, Goes
<1>3. CASE \/ RelaySignal \/ GapPasses \/ GraceOver \/ ClaudeExits \/ MonitorEndsSession
           \/ HandlesClose \/ Announces \/ WritesBody \/ RequestStop
  BY <1>3 DEF RelaySignal, GapPasses, GraceOver, ClaudeExits, MonitorEndsSession, HandlesClose,
     Announces, WritesBody, RequestStop, StackInv, HeightInv, Early
<1>4. CASE HandleShutdown \/ WaitForSessionStop
  BY <1>4 DEF HandleShutdown, Interrupts, Dies, Goes, WaitForSessionStop, StackInv, HeightInv, Early
<1>13. CASE GcScans \/ GcRemoves \/ Other
  <2>1. UNCHANGED <<step, stack>>
    BY <1>13 DEF GcScans, GcRemoves, Other, OtherPrepares, OtherEnsuresCA, OtherWritesManifest,
                 OtherEnds, launcherVars
  <2> QED BY <2>1 DEF StackInv, HeightInv
<1>5. CASE PreparePaths
  <2>1. Height = 0
    BY <1>5 DEF PreparePaths, Fails, StackInv, HeightInv, Early
  <2>2. Push("dir") => stack' \in Seq(Cleanups) /\ OrderInv' /\ Height' = 1
    BY <2>1, Pushes, PushedValues DEF Cleanups
  <2> QED
    BY <1>5, <2>1, <2>2, SameStack
       DEF PreparePaths, Fails, Goes, StackInv, HeightInv, Early
<1>6. CASE StartSupervisor
  <2>1. Height = 1
    BY <1>6 DEF StartSupervisor, Fails, StackInv, HeightInv, Early
  <2>2. Push("supervisor") => stack' \in Seq(Cleanups) /\ OrderInv' /\ Height' = 2
    BY <2>1, Pushes, PushedValues DEF Cleanups
  <2> QED
    BY <1>6, <2>1, <2>2, SameStack
       DEF StartSupervisor, Fails, Goes, StackInv, HeightInv, Early
<1>7. CASE CreateSession
  <2>1. Height = 2
    BY <1>7 DEF CreateSession, Fails, StackInv, HeightInv, Early
  <2>2. Push("session") => stack' \in Seq(Cleanups) /\ OrderInv' /\ Height' = 3
    BY <2>1, Pushes, PushedValues DEF Cleanups
  <2> QED
    BY <1>7, <2>1, <2>2, SameStack
       DEF CreateSession, Fails, Goes, StackInv, HeightInv, Early
<1>8. CASE SpawnChild
  <2>1. Height = 4
    BY <1>8 DEF SpawnChild, Fails, StackInv, HeightInv, Early
  <2>2. Push("kill") => stack' \in Seq(Cleanups) /\ OrderInv' /\ Height' = 5
    BY <2>1, Pushes, PushedValues DEF Cleanups
  <2> QED
    BY <1>8, <2>1, <2>2, SameStack
       DEF SpawnChild, Fails, Goes, StackInv, HeightInv, Early
<1>9. CASE ForwardSignalsToChild
  <2>1. Height = 5
    BY <1>9 DEF ForwardSignalsToChild, StackInv, HeightInv, Early
  <2>2. Push("signals") => stack' \in Seq(Cleanups) /\ OrderInv' /\ Height' = 6
    BY <2>1, Pushes, PushedValues DEF Cleanups
  <2> QED
    BY <1>9, <2>1, <2>2, SameStack
       DEF ForwardSignalsToChild, Goes, StackInv, HeightInv, Early
<1>10. CASE Rollback
  <2>1. /\ stack' \in Seq(Cleanups) /\ OrderInv' /\ Height \in 1..6 /\ Height' = Height - 1
        /\ step' = "teardown"
    BY <1>10, Pops DEF Rollback
  <2> QED BY <2>1 DEF StackInv, HeightInv, Early
<1>11. CASE Exit
  <2>1. Height = 0 /\ UNCHANGED stack
    BY <1>11 DEF Exit, Height
  <2> QED BY <1>11, <2>1, SameStack DEF Exit, Goes, StackInv, HeightInv, Early
<1>12. CASE \E inFile \in BOOLEAN : WriteSessionSettings(inFile)
  <2>1. Height = 3
    BY <1>12 DEF WriteSessionSettings, Fails, StackInv, HeightInv, Early
  <2>2. Push("argFile") => stack' \in Seq(Cleanups) /\ OrderInv' /\ Height' = 4
    BY <2>1, Pushes, PushedValues DEF Cleanups
  <2> QED
    BY <1>12, <2>1, <2>2, SameStack
       DEF WriteSessionSettings, Fails, Goes, StackInv, HeightInv, Early
<1> QED
  BY <1>1, <1>2, <1>3, <1>4, <1>5, <1>6, <1>7, <1>8, <1>9, <1>10, <1>11, <1>12, <1>13
     DEF LauncherStep, PlainSteps, Environment

\* The process runs until its launch is done or has died.
LEMMA UpSteps ==
  ASSUME LauncherStep, UpInv, up \in [Launches -> BOOLEAN]
  PROVE  UpInv'
<1> USE LauncherAssumption DEF UpInv, Others, OtherRuns
<1>1. CASE \/ EarlyStep \/ SweepScans \/ SweepRemoves \/ ResolveClaudeBin \/ PreparePaths
           \/ EnsuresCA \/ StartSupervisor
  BY <1>1 DEF EarlyStep, Unopened, Returns, SweepScans, SweepRemoves, ResolveClaudeBin, Fails,
     PreparePaths, EnsuresCA, StartSupervisor, Goes
<1>2. CASE \/ AwaitControl \/ CreateSession \/ SpawnChild \/ ForwardSignalsToChild \/ Attach
           \/ Wait \/ Rollback
  BY <1>2 DEF AwaitControl, Fails, CreateSession, SpawnChild, ForwardSignalsToChild, Attach, Wait,
     Rollback, Goes
<1>3. CASE \/ Exit \/ (\E inFile \in BOOLEAN : WriteSessionSettings(inFile)) \/ SupervisorServes
           \/ SupervisorReturns \/ HardKill \/ Signal \/ RelaySignal
  BY <1>3 DEF Exit, WriteSessionSettings, Fails, SupervisorServes, SupervisorReturns, HardKill,
     Dies, Signal, Interrupts, RelaySignal, Goes
<1>4. CASE \/ GapPasses \/ GraceOver \/ ClaudeExits \/ MonitorEndsSession \/ HandlesClose
           \/ Announces \/ WritesBody \/ RequestStop \/ HandleShutdown \/ WaitForSessionStop
  BY <1>4 DEF GapPasses, GraceOver, ClaudeExits, MonitorEndsSession, HandlesClose, Announces,
     WritesBody, RequestStop, HandleShutdown, Interrupts, Dies, WaitForSessionStop, Goes
<1>5. CASE GcScans \/ GcRemoves \/ Other
  BY <1>5 DEF GcScans, GcRemoves, Other, OtherPrepares, OtherEnsuresCA, OtherWritesManifest,
     OtherEnds, launcherVars
<1> QED
  BY <1>1, <1>2, <1>3, <1>4, <1>5
     DEF LauncherStep, PlainSteps, Environment

\* A process that has ended does not run again.
LEMMA UpFalls ==
  ASSUME LauncherStep, up \in [Launches -> BOOLEAN]
  PROVE  \A p \in Launches : up'[p] => up[p]
<1>1. \/ UNCHANGED up
      \/ \E p \in Launches : up' = [up EXCEPT ![p] = FALSE]
  <2>1. CASE \/ SweepScans \/ SweepRemoves \/ ResolveClaudeBin \/ PreparePaths \/ EnsuresCA
             \/ StartSupervisor \/ AwaitControl \/ CreateSession \/ SpawnChild
             \/ ForwardSignalsToChild \/ Attach \/ Rollback
             \/ (\E inFile \in BOOLEAN : WriteSessionSettings(inFile))
    BY <2>1 DEF SweepScans, SweepRemoves, ResolveClaudeBin, PreparePaths, EnsuresCA,
                StartSupervisor, AwaitControl, CreateSession, SpawnChild, ForwardSignalsToChild,
                Attach, Rollback, WriteSessionSettings
  <2>2. CASE \/ SupervisorServes \/ SupervisorReturns \/ RelaySignal \/ GapPasses \/ GraceOver
             \/ ClaudeExits \/ MonitorEndsSession \/ HandlesClose \/ Announces \/ WritesBody
             \/ RequestStop \/ WaitForSessionStop \/ GcScans \/ GcRemoves
    BY <2>2 DEF SupervisorServes, SupervisorReturns, RelaySignal, GapPasses, GraceOver,
                ClaudeExits, MonitorEndsSession, HandlesClose, Announces, WritesBody, RequestStop,
                WaitForSessionStop, GcScans, GcRemoves
  <2>3. CASE Wait
    BY <2>3, Zenon DEF Wait
  <2>4. CASE EarlyStep
    BY <2>4, LauncherAssumption DEF EarlyStep, Returns
  <2>5. CASE Exit \/ HardKill \/ Signal \/ HandleShutdown
    BY <2>5, LauncherAssumption DEF Exit, HardKill, Signal, HandleShutdown, Interrupts, Dies
  <2>6. CASE Other
    BY <2>6 DEF Other, Others, OtherPrepares, OtherEnsuresCA, OtherWritesManifest, OtherEnds,
                launcherVars
  <2> QED BY <2>1, <2>2, <2>3, <2>4, <2>5, <2>6 DEF LauncherStep, PlainSteps, Environment
<1> QED BY <1>1

\* A step that leaves the launch's directory and what it is there for alone.
DirQuiet ==
  /\ Height' = Height /\ dir'[This] = dir[This]
  /\ step # "died" /\ (step' \in {"WriteSessionSettings", "SpawnChild"} => step' = step)
  /\ Lingers => Lingers' \/ Height # 0

\* The launch's directory is there from its first cleanup's push to its run,
\* and no sweep takes it unless it is wrong.
LEMMA DirSteps ==
  ASSUME LauncherStep, StackInv, HeightInv', UpInv, UpInv', DirInv, StaleInv, SupInv,
         Height' \in 0..6, stack \in Seq(Cleanups), up \in [Launches -> BOOLEAN],
         dir \in [Launches -> {"none", "bare", "manifest"}], past \in PastType
  PROVE  DirInv'
<1> USE LauncherAssumption, SameStack DEF StackInv
<1>a. (Misread(This) => Misread(This)') /\ (up'[This] => up[This])
  BY PastGrows, UpFalls
<1>b. CASE step' = "died"
  BY <1>b DEF DirInv, UpInv
<1>c. CASE DirQuiet
  BY <1>a, <1>c DEF DirInv, DirQuiet
<1>d. UNCHANGED session => Lingers' = Lingers
  BY DEF Lingers
<1>e. step = "died" => step' = "died"
  <2>1. step = "died" => ~up[This]
    BY DEF UpInv
  <2>2. step' # "died" /\ ~up'[This] => step' = "done"
    BY DEF UpInv
  <2>3. step = "died" => step' # "done"
    <3>1. CASE EarlyStep \/ Exit \/ Rollback \/ HandleShutdown \/ Signal \/ HardKill
      BY <2>1, <3>1 DEF EarlyStep, Exit, Rollback, HandleShutdown, Signal, HardKill
    <3>2. CASE \/ SweepScans \/ SweepRemoves \/ ResolveClaudeBin \/ PreparePaths \/ EnsuresCA
               \/ StartSupervisor \/ AwaitControl \/ CreateSession \/ SpawnChild
               \/ ForwardSignalsToChild \/ Attach
               \/ (\E inFile \in BOOLEAN : WriteSessionSettings(inFile))
      BY <3>2 DEF SweepScans, SweepRemoves, ResolveClaudeBin, PreparePaths, EnsuresCA,
                  StartSupervisor, AwaitControl, CreateSession, SpawnChild, ForwardSignalsToChild,
                  Attach, WriteSessionSettings
    <3>3. CASE \/ SupervisorServes \/ SupervisorReturns \/ RelaySignal \/ GapPasses \/ GraceOver
               \/ ClaudeExits \/ MonitorEndsSession \/ HandlesClose \/ Announces \/ WritesBody
               \/ RequestStop \/ WaitForSessionStop \/ GcScans \/ GcRemoves
      BY <3>3 DEF SupervisorServes, SupervisorReturns, RelaySignal, GapPasses, GraceOver,
                  ClaudeExits, MonitorEndsSession, HandlesClose, Announces, WritesBody,
                  RequestStop, WaitForSessionStop, GcScans, GcRemoves
    <3>4. CASE Other
      BY <3>4 DEF Other, OtherPrepares, OtherEnsuresCA, OtherWritesManifest, OtherEnds,
                  launcherVars
    <3>5. CASE Wait
      BY <3>5, Zenon DEF Wait
    <3> QED BY <3>1, <3>2, <3>3, <3>4, <3>5 DEF LauncherStep, PlainSteps, Environment
  <2> QED BY <1>a, <2>1, <2>2, <2>3
<1> SUFFICES ASSUME step # "died", step' # "died"
             PROVE  DirInv'
  BY <1>b, <1>e
<1>1. CASE \/ EarlyStep \/ SweepScans \/ ResolveClaudeBin \/ EnsuresCA \/ AwaitControl \/ Attach
           \/ SupervisorServes \/ SupervisorReturns \/ Exit
  <2>1. /\ UNCHANGED <<stack, dir, session>>
        /\ step' \in {"WriteSessionSettings", "SpawnChild"} => step' = step
    BY <1>1 DEF EarlyStep, Unopened, Returns, SweepScans, ResolveClaudeBin, EnsuresCA,
                AwaitControl, Attach, SupervisorServes, SupervisorReturns, Exit, Fails, Goes
  <2> QED BY <1>c, <1>d, <2>1 DEF DirQuiet
<1>2. CASE Wait
  <2>1. UNCHANGED <<stack, dir, session>> /\ step' = "teardown"
    BY <1>2, Zenon DEF Wait, Goes
  <2> QED BY <1>c, <1>d, <2>1 DEF DirQuiet
<1>3. CASE \/ HardKill \/ Signal \/ HandleShutdown \/ RelaySignal \/ GapPasses \/ GraceOver
           \/ ClaudeExits \/ RequestStop \/ WaitForSessionStop \/ GcScans
  <2>1. UNCHANGED <<step, stack, dir, session>>
    BY <1>3 DEF HardKill, Signal, HandleShutdown, Interrupts, Dies, Goes, RelaySignal, GapPasses,
                GraceOver, ClaudeExits, RequestStop, WaitForSessionStop, GcScans
  <2> QED BY <1>c, <1>d, <2>1 DEF DirQuiet
<1>4. CASE MonitorEndsSession \/ HandlesClose \/ Announces
  <2>1. UNCHANGED <<step, stack, dir>> /\ (Lingers' \/ (sup = "serving" /\ session # "none"))
    BY <1>4 DEF MonitorEndsSession, HandlesClose, Announces, Lingers
  <2>2. sup = "serving" /\ session # "none" => Height # 0
    BY DEF SupInv
  <2> QED BY <1>c, <2>1, <2>2 DEF DirQuiet
<1>5. CASE PreparePaths
  <2>1. Height = 0 /\ up' = up /\ session' = session
    BY <1>5 DEF PreparePaths, HeightInv, Early
  <2>2. CASE Goes("EnsureCA")
    <3>1. /\ Height' = 1 /\ dir'[This] = "bare"
          /\ step' = "EnsureCA" /\ step = "PreparePaths"
      BY <1>5, <2>2 DEF PreparePaths, Fails, Goes, HeightInv
    <3> QED BY <2>1, <3>1 DEF DirInv
  <2>3. CASE Fails
    <3>1. stack' = stack /\ dir' = dir /\ step' = "teardown" /\ step = "PreparePaths"
      BY <1>5, <2>3 DEF PreparePaths, Fails, Goes
    <3> QED BY <1>c, <1>d, <2>1, <3>1 DEF DirQuiet
  <2> QED BY <1>5, <2>2, <2>3 DEF PreparePaths
<1>6. CASE StartSupervisor
  <2>1. Height = 1 /\ dir' = dir /\ step = "StartSupervisor" /\ up' = up /\ session' = session
    BY <1>6 DEF StartSupervisor, HeightInv, Early
  <2>2. CASE Goes("AwaitControl")
    <3>1. Height' = 2 /\ step' = "AwaitControl"
      BY <2>2 DEF Goes, HeightInv
    <3> QED BY <1>a, <2>1, <3>1 DEF DirInv
  <2>3. CASE Fails
    <3>1. stack' = stack /\ step' = "teardown"
      BY <1>6, <2>3 DEF StartSupervisor, Fails, Goes
    <3> QED BY <1>c, <1>d, <2>1, <3>1 DEF DirQuiet
  <2> QED BY <1>6, <2>2, <2>3 DEF StartSupervisor
<1>7. CASE CreateSession
  <2>1. Height = 2 /\ step = "CreateSession"
    BY <1>7 DEF CreateSession, HeightInv, Early
  <2>2. CASE Goes("WriteSessionSettings")
    <3>1. Height' = 3 /\ dir'[This] = "manifest" /\ step' = "WriteSessionSettings"
      BY <1>7, <2>2 DEF CreateSession, Fails, Goes, HeightInv
    <3> QED BY <3>1 DEF DirInv
  <2>3. CASE Fails
    <3>1. Height' \in {2, 3}
      BY <1>7, <2>1, SameStack, Pushes, PushedValues DEF CreateSession, Cleanups
    <3>2. dir'[This] = dir[This] /\ step' = "teardown"
      BY <1>7, <2>1, <2>3 DEF CreateSession, Fails, Goes
    <3> QED BY <1>a, <2>1, <3>1, <3>2 DEF DirInv
  <2> QED BY <1>7, <2>2, <2>3 DEF CreateSession
<1>8. CASE SpawnChild
  <2>1. Height = 4 /\ step = "SpawnChild" /\ dir' = dir /\ session' = session
    BY <1>8 DEF SpawnChild, HeightInv, Early
  <2>2. CASE Goes("ForwardSignals")
    <3>1. Height' = 5 /\ step' = "ForwardSignals"
      BY <2>2 DEF Goes, HeightInv
    <3> QED BY <1>a, <2>1, <3>1 DEF DirInv
  <2>3. CASE Fails
    <3>1. stack' = stack /\ step' = "teardown"
      BY <1>8, <2>3 DEF SpawnChild, Fails, Goes
    <3> QED BY <1>c, <1>d, <2>1, <3>1 DEF DirQuiet
  <2> QED BY <1>8, <2>2, <2>3 DEF SpawnChild
<1>9. CASE ForwardSignalsToChild
  <2>1. Height = 5
    BY <1>9 DEF ForwardSignalsToChild, HeightInv, Early
  <2>2. Height' = 6 /\ dir' = dir /\ step' = "Attach" /\ step = "ForwardSignals" /\ up' = up
    BY <1>9 DEF ForwardSignalsToChild, Goes, HeightInv
  <2> QED BY <1>a, <2>1, <2>2 DEF DirInv
<1>10. CASE Rollback
  <2>1. /\ Height \in 1..6 /\ Height' = Height - 1 /\ Last(stack) = Pushed[Height]
        /\ step' = "teardown" /\ step = "teardown" /\ up' = up
    BY <1>10, Pops DEF Rollback
  <2>2. CASE Height = 1
    <3>1. dir'[This] = "none" /\ Height' = 0
      BY <1>10, <2>1, <2>2, PushedValues DEF Rollback, Cleans
    <3> QED BY <2>1, <3>1 DEF DirInv
  <2>3. CASE Height \in 2..6
    <3>1. dir' = dir
      BY <1>10, <2>1, <2>3, PushedValues DEF Rollback, Cleans
    <3>2. Height' \in 1..5 /\ (Height' >= 5 => Height >= 5)
      BY <2>1, <2>3
    <3> QED BY <1>a, <2>1, <2>3, <3>1, <3>2 DEF DirInv
  <2> QED BY <2>1, <2>2, <2>3
<1>11. CASE \E inFile \in BOOLEAN : WriteSessionSettings(inFile)
  <2>1. Height = 3 /\ step = "WriteSessionSettings" /\ up' = up
    BY <1>11 DEF WriteSessionSettings, HeightInv, Early
  <2>2. dir' \in {dir, Remade(This)}
    BY <1>11 DEF WriteSessionSettings
  <2>3. dir'[This] # "none" \/ dir'[This] = dir[This]
    BY <2>2 DEF Remade
  <2>4. dir[This] = "manifest" => dir'[This] = "manifest"
    BY <2>2 DEF Remade
  <2>5. Height' \in {3, 4} /\ step' \in {"SpawnChild", "teardown"}
    BY <1>11, <2>1, SameStack, Pushes, PushedValues DEF WriteSessionSettings, Cleanups, Goes, Fails
  <2>6. step' = "SpawnChild" => dir'[This] = "manifest" \/ Misread(This)'
    BY <1>a, <2>1, <2>4 DEF DirInv, UpInv
  <2> QED BY <1>a, <2>1, <2>3, <2>5, <2>6 DEF DirInv
<1>12. CASE SweepRemoves \/ GcRemoves
  <2>1. /\ UNCHANGED <<stack, session>> /\ step' \in {step, "compose"}
        /\ up[This] => dir'[This] = dir[This] \/ Misread(This)
        /\ dir'[This] \in {dir[This], "none"}
    BY <1>12, RemovesStale DEF SweepRemoves, GcRemoves, RemoveAll, Sweepers, Goes
  <2>2. ~up[This] => Height = 0
    BY DEF UpInv, HeightInv
  <2> QED BY <1>a, <1>d, <2>1, <2>2 DEF DirInv
<1>13. CASE Other
  <2>1. UNCHANGED <<step, stack, session>> /\ dir'[This] = dir[This]
    BY <1>13 DEF Other, OtherPrepares, Remade, OtherEnsuresCA, OtherWritesManifest, OtherEnds,
                 Others, launcherVars
  <2> QED BY <1>c, <1>d, <2>1 DEF DirQuiet
<1>14. CASE WritesBody
  <2>1. /\ UNCHANGED <<step, stack, up, session>> /\ Lingers
        /\ dir[This] = "none" /\ dir'[This] = "bare"
    BY <1>14 DEF WritesBody, Remade
  <2> QED BY <1>a, <1>d, <2>1 DEF DirInv
<1> QED
  BY <1>1, <1>2, <1>3, <1>4, <1>5, <1>6, <1>7, <1>8, <1>9, <1>10, <1>11, <1>12, <1>13, <1>14
     DEF LauncherStep, PlainSteps, Environment

\* What was found of a process that had ended, or in error, is still so.
LEMMA StaleSteps ==
  ASSUME LauncherStep, StaleInv, up \in [Launches -> BOOLEAN], past \in PastType,
         found \in [Sweepers -> (SUBSET Launches) \union {Idle}]
  PROVE  StaleInv'
<1> USE CAAssumption, LauncherAssumption
<1>a. \A p \in Launches : (Misread(p) => Misread(p)') /\ (up'[p] => up[p])
  BY PastGrows, UpFalls
<1>b. \A w \in Sweepers : found[w] # Idle => found[w] \subseteq Launches
  OBVIOUS
<1>c. CASE UNCHANGED found
  BY <1>a, <1>b, <1>c DEF StaleInv
<1>d. ASSUME NEW w \in Sweepers, RemoveAll(w)
      PROVE  StaleInv'
  BY <1>a, <1>b, <1>d DEF RemoveAll, StaleInv
<1>e. ASSUME NEW w \in Sweepers, NEW n, Scan(w, n), UNCHANGED up
      PROVE  StaleInv'
  <2>1. PICK wrong \in SUBSET {p \in Launches : Misreadable(p)} :
          /\ found' = [found EXCEPT ![w] = {p \in Launches : StaleState(p)} \union wrong]
          /\ past' = [past EXCEPT !.misread = @ \union wrong, !.sweeps = @ + n]
    BY <1>e DEF Scan
  <2>2. \A p \in wrong : Misread(p)'
    BY <2>1 DEF PastType, Misread
  <2>3. \A p \in found'[w] : ~up'[p] \/ Misread(p)'
    BY <1>e, <2>1, <2>2 DEF StaleState
  <2> QED BY <1>a, <1>b, <2>1, <2>3 DEF StaleInv
<1>1. CASE SweepScans \/ GcScans
  BY <1>1, <1>e DEF SweepScans, GcScans, Sweepers
<1>2. CASE SweepRemoves \/ GcRemoves
  BY <1>2, <1>d DEF SweepRemoves, GcRemoves, Sweepers
<1>3. CASE \/ EarlyStep \/ ResolveClaudeBin \/ PreparePaths \/ EnsuresCA \/ StartSupervisor
           \/ AwaitControl \/ CreateSession \/ SpawnChild \/ ForwardSignalsToChild \/ Attach
           \/ Rollback \/ Exit \/ (\E inFile \in BOOLEAN : WriteSessionSettings(inFile))
  <2>1. UNCHANGED found
    BY <1>3 DEF EarlyStep, Unopened, ResolveClaudeBin, PreparePaths, EnsuresCA, StartSupervisor,
                AwaitControl, CreateSession, SpawnChild, ForwardSignalsToChild, Attach, Rollback,
                Exit, WriteSessionSettings
  <2> QED BY <1>c, <2>1
<1>4. CASE \/ SupervisorServes \/ SupervisorReturns \/ HardKill \/ Signal \/ RelaySignal
           \/ GapPasses \/ GraceOver \/ ClaudeExits \/ MonitorEndsSession \/ HandlesClose
           \/ Announces \/ WritesBody \/ RequestStop \/ HandleShutdown \/ WaitForSessionStop
           \/ Other
  <2>1. UNCHANGED found
    BY <1>4 DEF SupervisorServes, SupervisorReturns, HardKill, Signal, Interrupts, Dies,
                RelaySignal, GapPasses, GraceOver, ClaudeExits, MonitorEndsSession, HandlesClose,
                Announces, WritesBody, RequestStop, HandleShutdown, WaitForSessionStop, Other,
                OtherPrepares, OtherEnsuresCA, OtherWritesManifest, OtherEnds, launcherVars
  <2> QED BY <1>c, <2>1
<1>5. CASE Wait
  <2>1. UNCHANGED found
    BY <1>5, Zenon DEF Wait
  <2> QED BY <1>c, <2>1
<1> QED
  BY <1>1, <1>2, <1>3, <1>4, <1>5 DEF LauncherStep, PlainSteps, Environment

\* Nor is the directory of another launch gone while that launch runs.
LEMMA OthersSteps ==
  ASSUME LauncherStep, OthersInv, StaleInv, CATypeOK, up \in [Launches -> BOOLEAN],
         dir \in [Launches -> {"none", "bare", "manifest"}], past \in PastType
  PROVE  OthersInv'
<1> USE LauncherAssumption
<1>a. \A p \in Others : Misread(p) => Misread(p)'
  BY PastGrows DEF Others
<1>b. CASE \A p \in Others : up'[p] = up[p] /\ at'[p] = at[p] /\ dir'[p] = dir[p]
  BY <1>a, <1>b DEF OthersInv
<1>c. CASE /\ UNCHANGED <<up, at>>
           /\ \A p \in Others : up[p] => dir'[p] = dir[p] \/ Misread(p)
  BY <1>a, <1>c DEF OthersInv
<1>d. CASE Dies
  <2>1. \A p \in Others : up'[p] = up[p] /\ dir'[p] = dir[p] /\ at'[p] = at[p]
    BY <1>d, CAElsewhere DEF Dies, Others
  <2> QED BY <1>b, <2>1
<1>1. CASE \/ SweepScans \/ ResolveClaudeBin \/ StartSupervisor \/ AwaitControl \/ SpawnChild
           \/ ForwardSignalsToChild \/ Attach \/ SupervisorServes \/ SupervisorReturns
           \/ RelaySignal \/ GapPasses \/ GraceOver \/ ClaudeExits \/ MonitorEndsSession
           \/ HandlesClose \/ Announces \/ RequestStop \/ WaitForSessionStop \/ GcScans
  <2>1. UNCHANGED <<up, at, dir>>
    BY <1>1 DEF SweepScans, ResolveClaudeBin, StartSupervisor, AwaitControl, SpawnChild,
                ForwardSignalsToChild, Attach, SupervisorServes, SupervisorReturns, RelaySignal,
                GapPasses, GraceOver, ClaudeExits, MonitorEndsSession, HandlesClose, Announces,
                RequestStop, WaitForSessionStop, GcScans, caVars
  <2> QED BY <1>b, <2>1
<1>2. CASE Wait
  <2>1. UNCHANGED <<up, at, dir>>
    BY <1>2, Zenon DEF Wait, caVars
  <2> QED BY <1>b, <2>1
<1>3. CASE PreparePaths \/ CreateSession \/ Rollback \/ WritesBody
  <2>1. UNCHANGED <<up, at>> /\ \A p \in Others : dir'[p] = dir[p]
    BY <1>3 DEF PreparePaths, CreateSession, Rollback, Cleans, WritesBody, Remade, Others, caVars
  <2> QED BY <1>b, <2>1
<1>4. CASE \E inFile \in BOOLEAN : WriteSessionSettings(inFile)
  <2>1. UNCHANGED <<up, at>> /\ \A p \in Others : dir'[p] = dir[p]
    BY <1>4 DEF WriteSessionSettings, Remade, Others, caVars
  <2> QED BY <1>b, <2>1
<1>5. CASE EarlyStep
  <2>1. UNCHANGED dir /\ \A p \in Others : up'[p] = up[p] /\ at'[p] = at[p]
    BY <1>5, CAElsewhere DEF EarlyStep, Unopened, Returns, Others, caVars
  <2> QED BY <1>b, <2>1
<1>6. CASE SweepRemoves \/ GcRemoves
  <2>1. UNCHANGED <<up, at>> /\ \A p \in Others : up[p] => dir'[p] = dir[p] \/ Misread(p)
    BY <1>6, RemovesStale DEF SweepRemoves, GcRemoves, Sweepers, Others, caVars
  <2> QED BY <1>c, <2>1
<1>7. CASE EnsuresCA
  <2>1. UNCHANGED <<dir, up>> /\ \A p \in Others : at'[p] = at[p]
    BY <1>7, CAElsewhere DEF EnsuresCA, Others, caVars
  <2> QED BY <1>b, <2>1
<1>8. CASE Exit
  <2>1. UNCHANGED dir /\ \A p \in Others : up'[p] = up[p] /\ at'[p] = at[p]
    BY <1>8, CAElsewhere DEF Exit, Others
  <2> QED BY <1>b, <2>1
<1>9. CASE HardKill \/ Signal \/ HandleShutdown
  <2>1. Dies \/ UNCHANGED <<up, dir, at>>
    BY <1>9 DEF HardKill, Signal, HandleShutdown, Interrupts, caVars
  <2> QED BY <1>b, <1>d, <2>1
<1>10. CASE Other
  <2> SUFFICES ASSUME NEW p \in Others,
                      \/ OtherPrepares(p) \/ OtherEnsuresCA(p)
                      \/ OtherWritesManifest(p) \/ OtherEnds(p)
               PROVE  OthersInv'
    BY <1>10 DEF Other
  <2>1. CASE OtherPrepares(p) \/ OtherWritesManifest(p)
    <3>1. /\ UNCHANGED <<up, at>> /\ dir'[p] # "none"
          /\ \A q \in Others \ {p} : dir'[q] = dir[q]
      BY <2>1 DEF OtherPrepares, OtherWritesManifest, Remade, Others, caVars
    <3> QED BY <1>a, <3>1 DEF OthersInv
  <2>2. CASE OtherEnsuresCA(p)
    <3>1. UNCHANGED <<up, dir>> /\ dir[p] = "bare" /\ \A q \in Others \ {p} : at'[q] = at[q]
      BY <2>2, CAElsewhere DEF OtherEnsuresCA, launcherVars, Others
    <3> QED BY <1>a, <3>1 DEF OthersInv
  <2>3. CASE OtherEnds(p)
    <3>1. /\ ~up'[p] /\ \A q \in Others \ {p} : up'[q] = up[q] /\ at'[q] = at[q]
          /\ \A q \in Others \ {p} : dir'[q] = dir[q]
      BY <2>3, CAElsewhere DEF OtherEnds, Others
    <3> QED BY <1>a, <3>1 DEF OthersInv
  <2> QED BY <2>1, <2>2, <2>3
<1> QED
  BY <1>1, <1>2, <1>3, <1>4, <1>5, <1>6, <1>7, <1>8, <1>9, <1>10
     DEF LauncherStep, PlainSteps, Environment

\* Only signals, and the relay's own steps, change what the relay has.
LEMMA RelayKinds ==
  ASSUME LauncherStep
  PROVE  \/ UNCHANGED relay
         \/ Signal \/ HandleShutdown \/ RelaySignal \/ GapPasses \/ GraceOver
<1>1. CASE \/ EarlyStep \/ SweepScans \/ SweepRemoves \/ ResolveClaudeBin \/ PreparePaths
           \/ EnsuresCA \/ StartSupervisor \/ AwaitControl \/ CreateSession \/ SpawnChild
           \/ ForwardSignalsToChild \/ Attach \/ Rollback \/ Exit
           \/ (\E inFile \in BOOLEAN : WriteSessionSettings(inFile))
  BY <1>1 DEF EarlyStep, Unopened, SweepScans, SweepRemoves, ResolveClaudeBin, PreparePaths,
              EnsuresCA, StartSupervisor, AwaitControl, CreateSession, SpawnChild,
              ForwardSignalsToChild, Attach, Rollback, Exit, WriteSessionSettings
<1>2. CASE \/ SupervisorServes \/ SupervisorReturns \/ HardKill \/ ClaudeExits
           \/ MonitorEndsSession \/ HandlesClose \/ Announces \/ WritesBody \/ RequestStop
           \/ WaitForSessionStop \/ GcScans \/ GcRemoves \/ Other
  BY <1>2 DEF SupervisorServes, SupervisorReturns, HardKill, ClaudeExits, MonitorEndsSession,
              HandlesClose, Announces, WritesBody, RequestStop, WaitForSessionStop, GcScans,
              GcRemoves, Other, OtherPrepares, OtherEnsuresCA, OtherWritesManifest, OtherEnds,
              launcherVars
<1>3. CASE Wait
  BY <1>3, Zenon DEF Wait
<1> QED BY <1>1, <1>2, <1>3 DEF LauncherStep, PlainSteps, Environment

\* Every signal that waits was counted when it came.
LEMMA QueueSteps ==
  ASSUME LauncherStep, QueueInv, relay \in RelayType, past \in PastType, stop \in StopType
  PROVE  QueueInv'
<1> USE LauncherAssumption DEF RelayType, PastType, StopType
<1>a. past' \in PastType /\ (HardKill \/ Signal \/ past'.signals = past.signals)
  BY PastGrows
<1>b. UNCHANGED stop \/ RequestStop \/ HandleShutdown \/ WaitForSessionStop
  BY StopSteps
<1>c. HardKill \/ Signal => past'.signals = past.signals + 1
  BY DEF HardKill, Signal
<1>d. UNCHANGED stop => Asked' = Asked /\ stop'.due = stop.due
  BY DEF Asked
<1>e. past'.signals \in Nat /\ past'.signals >= past.signals
  BY <1>a, <1>c
<1>1. CASE RequestStop
  <2>1. UNCHANGED <<relay, past>> /\ ~Asked /\ Asked' /\ stop'.due
    BY <1>1 DEF RequestStop, Asked
  <2> QED BY <2>1 DEF QueueInv
<1>2. CASE WaitForSessionStop
  <2>1. UNCHANGED <<relay, past>> /\ Asked /\ Asked' /\ stop'.due = stop.due
    BY <1>2 DEF WaitForSessionStop, Asked
  <2> QED BY <2>1 DEF QueueInv
<1>3. CASE HandleShutdown
  <2>1. /\ stop.due /\ ~stop'.due /\ Asked' = Asked /\ UNCHANGED past
        /\ relay'.queued \in {relay.queued, relay.queued + 1}
    BY <1>3 DEF HandleShutdown, Interrupts, Asked
  <2> QED BY <2>1 DEF QueueInv
<1>4. CASE Signal
  <2>1. UNCHANGED stop /\ relay'.queued \in {relay.queued, relay.queued + 1}
    BY <1>4 DEF Signal, Interrupts
  <2> QED BY <1>4, <1>c, <1>d, <2>1 DEF QueueInv
<1>5. CASE RelaySignal
  <2>1. UNCHANGED <<stop, past>> /\ relay'.queued = relay.queued - 1
    BY <1>5 DEF RelaySignal
  <2> QED BY <1>d, <2>1 DEF QueueInv
<1>6. CASE GapPasses \/ GraceOver
  <2>1. UNCHANGED <<stop, past>> /\ relay'.queued = relay.queued
    BY <1>6 DEF GapPasses, GraceOver
  <2> QED BY <1>d, <2>1 DEF QueueInv
<1>7. CASE UNCHANGED <<relay, stop>>
  BY <1>7, <1>d, <1>e DEF QueueInv
<1> QED BY <1>1, <1>2, <1>3, <1>4, <1>5, <1>6, <1>7, <1>b, RelayKinds

\* The session ends before its supervisor is stopped, and both after what uses
\* them; ccwrap stop begins only on a session there is.
LEMMA SupSteps ==
  ASSUME LauncherStep, StackInv, HeightInv', Height' \in 0..6, SupInv, UpInv,
         stack \in Seq(Cleanups), past \in PastType, stop \in StopType
  PROVE  SupInv'
<1> USE SameStack DEF StackInv
<1>a. (Lost => Lost') /\ (Asked' => Asked \/ session # "none")
  BY PastGrows, StopSteps
<1>b. CASE UNCHANGED <<step, stack, sup, session>>
  BY <1>a, <1>b DEF SupInv
<1>c. CASE step' = "died" /\ UNCHANGED <<stack, sup, session>>
  BY <1>a, <1>c DEF SupInv, Before, Early
<1>d. CASE /\ UNCHANGED <<sup, session>> /\ step \in Before
           /\ step' \in Before \union {"done", "teardown"}
           /\ step' \in Before \ {"AwaitControl", "CreateSession"}
                => step \in Before \ {"AwaitControl", "CreateSession"}
           /\ step' = "done" => step \notin {"AwaitControl", "CreateSession"}
           /\ stack' = stack \/ step = "PreparePaths"
  BY <1>a, <1>d DEF SupInv, Before, Early
<1>e. CASE /\ UNCHANGED <<sup, session>> /\ step \notin Before \union {"died"}
           /\ step' \notin Before \union {"died", "done"} /\ Height' >= Height
           /\ Height > 1
           /\ step' \in {"WriteSessionSettings", "SpawnChild"}
                => step \in {"WriteSessionSettings", "SpawnChild"}
  BY <1>a, <1>e DEF SupInv
<1>1. CASE \/ SweepScans \/ RelaySignal \/ GapPasses \/ GraceOver \/ ClaudeExits \/ WritesBody
           \/ RequestStop \/ WaitForSessionStop \/ GcScans \/ GcRemoves
  <2>1. UNCHANGED <<step, stack, sup, session>>
    BY <1>1 DEF SweepScans, RelaySignal, GapPasses, GraceOver, ClaudeExits, WritesBody,
                RequestStop, WaitForSessionStop, GcScans, GcRemoves
  <2> QED BY <1>b, <2>1
<1>2. CASE Other
  <2>1. UNCHANGED <<step, stack, sup, session>>
    BY <1>2 DEF Other, OtherPrepares, OtherEnsuresCA, OtherWritesManifest, OtherEnds, launcherVars
  <2> QED BY <1>b, <2>1
<1>3. CASE HardKill \/ Signal \/ HandleShutdown
  <2>1. UNCHANGED <<stack, sup, session>> /\ step' \in {step, "died"}
    BY <1>3 DEF HardKill, Signal, HandleShutdown, Interrupts, Dies, Goes
  <2> QED BY <1>b, <1>c, <2>1
<1>4. CASE \/ EarlyStep \/ SweepRemoves \/ ResolveClaudeBin \/ PreparePaths \/ EnsuresCA
           \/ AwaitControl
  <2>1. /\ UNCHANGED <<sup, session>> /\ step \in Before
        /\ step' \in Before \union {"done", "teardown"}
        /\ step' \in Before \ {"AwaitControl", "CreateSession"}
             => step \in Before \ {"AwaitControl", "CreateSession"}
        /\ step' = "done" => step \notin {"AwaitControl", "CreateSession"}
        /\ stack' = stack \/ step = "PreparePaths"
    BY <1>4 DEF EarlyStep, Unopened, Returns, SweepRemoves, ResolveClaudeBin, PreparePaths,
                EnsuresCA, AwaitControl, Fails, Goes, Before, Early
  <2> QED BY <1>d, <2>1
<1>5. CASE ForwardSignalsToChild \/ Attach
  <2>1. /\ UNCHANGED <<sup, session>> /\ step \in {"ForwardSignals", "Attach"}
        /\ step' \in {"Attach", "Wait", "teardown"} /\ Height >= 5 /\ Height' >= Height
    BY <1>5 DEF ForwardSignalsToChild, Attach, Fails, Goes, HeightInv
  <2> QED BY <1>e, <2>1 DEF Before, Early
<1>6. CASE SpawnChild \/ (\E inFile \in BOOLEAN : WriteSessionSettings(inFile))
  <2>1. /\ UNCHANGED <<sup, session>> /\ step \in {"SpawnChild", "WriteSessionSettings"}
        /\ step' \in {"SpawnChild", "ForwardSignals", "teardown"} /\ Height >= 3
        /\ step' = "teardown" => stack' = stack
    BY <1>6 DEF SpawnChild, WriteSessionSettings, Fails, Goes, HeightInv
  <2>2. Height' >= Height
    BY <1>6, <2>1 DEF SpawnChild, WriteSessionSettings, Fails, Goes, HeightInv
  <2> QED BY <1>e, <2>1, <2>2 DEF Before, Early
<1>7. CASE Wait
  <2>1. UNCHANGED <<stack, sup, session>> /\ step = "Wait" /\ step' = "teardown"
    BY <1>7, Zenon DEF Wait, Goes
  <2>2. Height = 6
    BY <2>1 DEF HeightInv
  <2> QED BY <1>e, <2>1, <2>2 DEF Before, Early
<1>8. CASE SupervisorServes \/ SupervisorReturns
  <2>1. /\ UNCHANGED <<step, stack, session>> /\ up[This]
        /\ \/ sup = "starting" /\ sup' = "serving"
           \/ sup \in {"starting", "serving"} /\ sup' = "returned"
    BY <1>8 DEF SupervisorServes, SupervisorReturns
  <2>2. step # "done"
    BY <2>1 DEF UpInv
  <2> QED BY <1>a, <2>1, <2>2 DEF SupInv
<1>9. CASE MonitorEndsSession \/ HandlesClose \/ Announces
  <2>1. /\ UNCHANGED <<step, stack, sup>> /\ sup = "serving" /\ session # "none"
        /\ session' \in {"closed", "ending", "ended"}
        /\ session' = "closed" => session = "open"
    BY <1>9 DEF MonitorEndsSession, HandlesClose, Announces
  <2> QED BY <1>a, <2>1 DEF SupInv
<1>10. CASE StartSupervisor
  <2>1. /\ step = "StartSupervisor" /\ UNCHANGED session
        /\ \/ step' = "AwaitControl" /\ sup' = "starting"
           \/ step' = "teardown" /\ UNCHANGED sup
    BY <1>10 DEF StartSupervisor, Fails, Goes
  <2> QED BY <1>a, <2>1 DEF SupInv, Before, Early
<1>11. CASE CreateSession
  <2>1. Height = 2 /\ UNCHANGED sup /\ step = "CreateSession"
    BY <1>11 DEF CreateSession, HeightInv
  <2>2. CASE sup = "serving" /\ session' = "open" /\ Push("session")
    <3>1. Height' = 3 /\ step' \in {"WriteSessionSettings", "teardown"}
      BY <1>11, <2>1, <2>2, Pushes, PushedValues, SameStack
         DEF CreateSession, Cleanups, Fails, Goes
    <3> QED BY <2>1, <2>2, <3>1 DEF SupInv, Before, Early
  <2>3. CASE sup = "serving" /\ session' = "open" /\ Misses("create") /\ Fails /\ UNCHANGED stack
    <3>1. Lost' /\ Height' = 2 /\ step' = "teardown"
      BY <2>1, <2>3 DEF Misses, Lost, Fails, Goes, PastType
    <3> QED BY <2>1, <2>3, <3>1 DEF SupInv, Before, Early
  <2>4. CASE UNCHANGED <<stack, session>> /\ Fails
    BY <1>a, <2>1, <2>4 DEF Fails, Goes, SupInv, Before, Early
  <2> QED BY <1>11, <2>2, <2>3, <2>4 DEF CreateSession
<1>12. CASE Rollback
  <2>1. /\ Height \in 1..6 /\ Height' = Height - 1 /\ Last(stack) = Pushed[Height]
        /\ step' = "teardown" /\ step = "teardown" /\ session' = session
    BY <1>12, Pops DEF Rollback
  <2>2. CASE Height = 2
    <3>1. sup' = (IF sup = "serving" THEN "stopped" ELSE sup) /\ Height' = 1
      BY <1>12, <2>1, <2>2, PushedValues DEF Rollback, Cleans
    <3> QED BY <1>a, <2>1, <2>2, <3>1 DEF SupInv, Before, Early
  <2>3. CASE Height = 3
    <3>1. sup' = sup /\ Height' = 2 /\ ClosesSession
      BY <1>12, <2>1, <2>3, PushedValues DEF Rollback, Cleans
    <3>2. Lost' \/ session \in {"ending", "ended"}
      BY <3>1 DEF ClosesSession, Misses, Lost, PastType
    <3> QED BY <1>a, <2>1, <2>3, <3>1, <3>2 DEF SupInv, Before, Early
  <2>4. CASE Height \in {1, 4, 5, 6}
    <3>1. sup' = sup
      BY <1>12, <2>1, <2>4, PushedValues DEF Rollback, Cleans
    <3> QED BY <1>a, <2>1, <2>4, <3>1 DEF SupInv, Before, Early
  <2> QED BY <2>1, <2>2, <2>3, <2>4
<1>13. CASE Exit
  <2>1. /\ Height = 0 /\ Height' = 0 /\ step = "teardown" /\ step' = "done" /\ UNCHANGED session
        /\ sup' = (IF sup \in {"starting", "serving"} THEN "stopped" ELSE sup)
    BY <1>13 DEF Exit, Height, Goes
  <2> QED BY <1>a, <2>1 DEF SupInv, Before, Early
<1> QED
  BY <1>1, <1>2, <1>3, <1>4, <1>5, <1>6, <1>7, <1>8, <1>9, <1>10, <1>11, <1>12, <1>13
     DEF LauncherStep, PlainSteps, Environment

\* The settings file and Claude Code go before the session does, so whoever sees
\* the session's end sees theirs.
LEMMA EndSteps ==
  ASSUME LauncherStep, StackInv, HeightInv', Height' \in 0..6, DirInv, SupInv, UpInv, EndInv,
         stack \in Seq(Cleanups), past \in PastType, stop \in StopType
  PROVE  EndInv'
<1> USE LauncherAssumption, SameStack DEF StackInv
<1>a. (Misread(This) => Misread(This)') /\ (SaidStopped' => SaidStopped \/ WaitForSessionStop)
  BY PastGrows, StopSteps
<1>b. CASE /\ ~WaitForSessionStop
           /\ UNCHANGED <<step, argFile>> /\ (claude' = "running" => claude = "running")
           /\ Height' = Height /\ (sup = "returned" => sup' = "returned")
  BY <1>a, <1>b DEF EndInv
<1>c. CASE /\ ~WaitForSessionStop
           /\ UNCHANGED <<argFile, claude>>
           /\ Height' >= Height /\ (sup = "returned" => sup' = "returned")
           /\ step \notin {"done", "died"} /\ step' # "died"
           /\ step' \in {"WriteSessionSettings", "SpawnChild"}
                => step \in {"WriteSessionSettings", "SpawnChild"}
  BY <1>a, <1>c DEF EndInv
<1>d. CASE Dies /\ ~WaitForSessionStop
  <2>1. /\ UNCHANGED <<stack, sup, argFile>> /\ step' = "died"
        /\ claude' = IF claude = "running" /\ Pdeathsig THEN "exited" ELSE claude
    BY <1>d DEF Dies, Goes
  <2> QED BY <1>a, <1>d, <2>1 DEF EndInv
<1>1. CASE WaitForSessionStop
  <2>1. /\ UNCHANGED <<step, stack, sup, argFile, claude>> /\ Height' = Height
        /\ Asked /\ (SaidStopped' => ~Reachable)
    BY <1>1 DEF WaitForSessionStop, Asked, SaidStopped, StopType
  <2>2. session # "none"
    BY <2>1 DEF SupInv
  <2>3. CASE step = "died" \/ ~SaidStopped'
    BY <1>a, <2>1, <2>3 DEF EndInv
  <2>4. CASE /\ step # "died" /\ SaidStopped'
             /\ (claude = "running" \/ step \in {"WriteSessionSettings", "SpawnChild"})
    <3>1. up[This] /\ Height \in 3..6 /\ (dir[This] = "manifest" \/ Misread(This))
      BY <2>4 DEF EndInv, UpInv, DirInv, HeightInv
    <3>2. sup = "returned" \/ Misread(This)
      BY <2>1, <2>2, <2>4, <3>1 DEF Reachable, SupInv
    <3> QED BY <1>a, <2>1, <2>4, <3>2 DEF EndInv
  <2>5. CASE claude # "running" /\ step \notin {"WriteSessionSettings", "SpawnChild"}
    BY <2>1, <2>5 DEF EndInv
  <2> QED BY <2>3, <2>4, <2>5
<1> SUFFICES ASSUME ~WaitForSessionStop
             PROVE  EndInv'
  BY <1>1
<1>2. CASE \/ SweepScans \/ SupervisorServes \/ SupervisorReturns \/ RelaySignal \/ GapPasses
           \/ GraceOver \/ ClaudeExits \/ MonitorEndsSession \/ HandlesClose \/ Announces
           \/ WritesBody \/ RequestStop \/ GcScans \/ GcRemoves
  <2>1. /\ UNCHANGED <<step, stack, argFile>> /\ (claude' = "running" => claude = "running")
        /\ sup = "returned" => sup' = "returned"
    BY <1>2 DEF SweepScans, SupervisorServes, SupervisorReturns, RelaySignal, GapPasses, GraceOver,
                ClaudeExits, MonitorEndsSession, HandlesClose, Announces, WritesBody, RequestStop,
                GcScans, GcRemoves
  <2> QED BY <1>b, <2>1
<1>3. CASE Other
  <2>1. UNCHANGED <<step, stack, argFile, claude, sup>>
    BY <1>3 DEF Other, OtherPrepares, OtherEnsuresCA, OtherWritesManifest, OtherEnds, launcherVars
  <2> QED BY <1>b, <2>1
<1>4. CASE HardKill \/ Signal \/ HandleShutdown
  <2>1. Dies \/ UNCHANGED <<step, stack, sup, argFile, claude>>
    BY <1>4 DEF HardKill, Signal, HandleShutdown, Interrupts
  <2> QED BY <1>b, <1>d, <2>1
<1>5. CASE EarlyStep \/ SweepRemoves \/ ResolveClaudeBin \/ EnsuresCA \/ AwaitControl \/ Attach
  <2>1. /\ UNCHANGED <<stack, argFile, claude, sup>> /\ step \notin {"done", "died"}
        /\ step' # "died"
        /\ step' \in {"WriteSessionSettings", "SpawnChild"} => step' = step
    BY <1>5 DEF EarlyStep, Unopened, Returns, SweepRemoves, ResolveClaudeBin, EnsuresCA,
                AwaitControl, Attach, Fails, Goes
  <2> QED BY <1>c, <2>1
<1>6. CASE PreparePaths \/ StartSupervisor \/ ForwardSignalsToChild
  <2>1. /\ UNCHANGED <<argFile, claude>> /\ step \notin {"done", "died"}
        /\ step' \in {"EnsureCA", "AwaitControl", "Attach", "teardown"}
        /\ Height' >= Height
    BY <1>6 DEF PreparePaths, StartSupervisor, ForwardSignalsToChild, Fails, Goes, HeightInv, Early
  <2>2. sup = "returned" => sup' = "returned"
    BY <1>6 DEF PreparePaths, StartSupervisor, ForwardSignalsToChild, SupInv, Before, Early
  <2> QED BY <1>c, <2>1, <2>2
<1>7. CASE Wait
  <2>1. /\ UNCHANGED <<stack, argFile, sup>> /\ step = "Wait" /\ step' = "teardown"
        /\ claude' = claude \/ claude' = "exited"
    BY <1>7, Zenon DEF Wait, Goes
  <2> QED BY <1>a, <2>1 DEF EndInv
<1>8. CASE CreateSession
  <2>1. /\ UNCHANGED <<sup, argFile, claude>> /\ step = "CreateSession"
        /\ step' \in {"WriteSessionSettings", "teardown"} /\ Height = 2 /\ Height' >= 2
    BY <1>8, Pushes, PushedValues DEF CreateSession, Cleanups, Fails, Goes, HeightInv
  <2>2. ~SaidStopped /\ claude # "running" /\ ~argFile
    BY <2>1 DEF SupInv, EndInv, Before, Asked, SaidStopped
  <2> QED BY <1>a, <2>1, <2>2 DEF EndInv
<1>9. CASE \E inFile \in BOOLEAN : WriteSessionSettings(inFile)
  <2>1. /\ UNCHANGED <<sup, claude>> /\ step = "WriteSessionSettings" /\ Height = 3
        /\ \/ step' = "SpawnChild" /\ Height' = 4
           \/ step' = "teardown" /\ UNCHANGED <<stack, argFile>>
    BY <1>9 DEF WriteSessionSettings, Fails, Goes, HeightInv
  <2>2. ~argFile /\ claude # "running"
    BY <2>1 DEF EndInv
  <2> QED BY <1>a, <2>1, <2>2 DEF EndInv
<1>10. CASE SpawnChild
  <2>1. /\ UNCHANGED <<sup, argFile>> /\ step = "SpawnChild" /\ Height = 4
        /\ \/ step' = "ForwardSignals" /\ Height' = 5
           \/ step' = "teardown" /\ UNCHANGED <<stack, claude>>
    BY <1>10 DEF SpawnChild, Fails, Goes, HeightInv
  <2> QED BY <1>a, <2>1 DEF EndInv
<1>11. CASE Exit
  <2>1. /\ UNCHANGED <<argFile, claude>> /\ step = "teardown" /\ step' = "done" /\ Height = 0
        /\ sup = "returned" => sup' = "returned"
    BY <1>11 DEF Exit, Goes, Height
  <2> QED BY <1>a, <2>1 DEF EndInv
<1>12. CASE Rollback
  <2>1. /\ Height \in 1..6 /\ Height' = Height - 1 /\ Last(stack) = Pushed[Height]
        /\ step' = "teardown" /\ step = "teardown"
    BY <1>12, Pops DEF Rollback
  <2>2. sup = "returned" => sup' = "returned"
    BY <1>12 DEF Rollback, Cleans
  <2>3. argFile' => argFile
    BY <1>12 DEF Rollback, Cleans
  <2>4. claude' = "running" => claude = "running"
    BY <1>12 DEF Rollback, Cleans
  <2>5. Height = 4 => ~argFile'
    BY <1>12, <2>1, PushedValues DEF Rollback, Cleans
  <2>6. Height = 5 => claude' = "exited"
    BY <1>12, <2>1, PushedValues DEF Rollback, Cleans
  <2>7. argFile' => Height' >= 4
    BY <2>1, <2>3, <2>5 DEF EndInv
  <2>8. claude' = "running" => Height' >= 5
    BY <2>1, <2>4, <2>6 DEF EndInv
  <2> QED BY <1>a, <2>1, <2>2, <2>4, <2>7, <2>8 DEF EndInv
<1> QED
  BY <1>2, <1>3, <1>4, <1>5, <1>6, <1>7, <1>8, <1>9, <1>10, <1>11, <1>12
     DEF LauncherStep, PlainSteps, Environment

\* The relay's queue is bounded by the signals there have been.
LEMMA RelayTypes ==
  ASSUME LauncherStep, QueueInv', relay \in RelayType, past' \in PastType
  PROVE  relay' \in RelayType
<1> USE LauncherAssumption
<1>1. past'.signals \in 0..MaxSignals
  BY DEF PastType
<1>2. CASE UNCHANGED relay
  BY <1>2
<1>3. CASE Signal \/ HandleShutdown
  <2>1. UNCHANGED relay \/ relay' = [relay EXCEPT !.queued = @ + 1]
    BY <1>3 DEF Signal, HandleShutdown, Interrupts
  <2>2. CASE relay' = [relay EXCEPT !.queued = @ + 1]
    <3>1. relay.queued + 1 \in Nat /\ relay'.queued = relay.queued + 1
      BY <2>2 DEF RelayType
    <3>2. relay.queued + 1 \in 0..MaxSignals + 1
      BY <1>1, <3>1 DEF QueueInv
    <3> QED BY <2>2, <3>2 DEF RelayType
  <2> QED BY <2>1, <2>2
<1>4. CASE GapPasses
  BY <1>4 DEF GapPasses, RelayType
<1>5. CASE GraceOver
  BY <1>5 DEF GraceOver, RelayType
<1>6. CASE RelaySignal
  <2>1. relay.queued - 1 \in 0..MaxSignals + 1
    BY <1>6 DEF RelaySignal, RelayType
  <2>2. (relay.killed \/ AsksForKill(relay)) \in BOOLEAN
    BY DEF AsksForKill, RelayType
  <2>3. \E f \in {"fresh", relay.first}, k \in BOOLEAN :
          relay' = [relay EXCEPT !.queued = relay.queued - 1, !.killed = k, !.first = f]
    BY <1>6, <2>2 DEF RelaySignal
  <2> QED BY <2>1, <2>3 DEF RelayType
<1> QED BY <1>2, <1>3, <1>4, <1>5, <1>6, RelayKinds

\* The types of what the processes leave on the disk.
LEMMA PlaceTypes ==
  ASSUME LauncherStep, PlacesOK
  PROVE  PlacesOK'
<1> USE LauncherAssumption DEF PlacesOK
<1>a. \A p \in Launches : Remade(p) \in [Launches -> {"none", "bare", "manifest"}]
  BY DEF Remade
<1>b. CASE UNCHANGED <<up, dir, found>>
  BY <1>b
<1>c. ASSUME NEW w \in Sweepers, NEW n, Scan(w, n), UNCHANGED <<up, dir>>
      PROVE  PlacesOK'
  <2>1. PICK wrong \in SUBSET {p \in Launches : Misreadable(p)} :
          found' = [found EXCEPT ![w] = {p \in Launches : StaleState(p)} \union wrong]
    BY <1>c DEF Scan
  <2>2. {p \in Launches : StaleState(p)} \union wrong \in SUBSET Launches
    OBVIOUS
  <2> QED BY <1>c, <2>1, <2>2
<1>d. CASE Dies /\ UNCHANGED found
  BY <1>d DEF Dies
<1>1. CASE \/ ResolveClaudeBin \/ EnsuresCA \/ StartSupervisor \/ AwaitControl \/ SpawnChild
           \/ ForwardSignalsToChild \/ Attach \/ SupervisorServes \/ SupervisorReturns
           \/ RelaySignal \/ GapPasses \/ GraceOver \/ ClaudeExits \/ MonitorEndsSession
           \/ HandlesClose \/ Announces \/ RequestStop \/ WaitForSessionStop
  <2>1. UNCHANGED <<up, dir, found>>
    BY <1>1 DEF ResolveClaudeBin, EnsuresCA, StartSupervisor, AwaitControl, SpawnChild,
                ForwardSignalsToChild, Attach, SupervisorServes, SupervisorReturns, RelaySignal,
                GapPasses, GraceOver, ClaudeExits, MonitorEndsSession, HandlesClose, Announces,
                RequestStop, WaitForSessionStop
  <2> QED BY <1>b, <2>1
<1>2. CASE Wait
  <2>1. UNCHANGED <<up, dir, found>>
    BY <1>2, Zenon DEF Wait
  <2> QED BY <1>b, <2>1
<1>3. CASE SweepScans \/ GcScans
  BY <1>3, <1>c DEF SweepScans, GcScans, Sweepers
<1>4. CASE SweepRemoves \/ GcRemoves
  BY <1>4 DEF SweepRemoves, GcRemoves, RemoveAll
<1>5. CASE EarlyStep \/ Exit
  BY <1>5 DEF EarlyStep, Unopened, Returns, Exit
<1>6. CASE HardKill \/ Signal \/ HandleShutdown
  <2>1. UNCHANGED <<up, dir, found>> \/ (Dies /\ UNCHANGED found)
    BY <1>6 DEF HardKill, Signal, HandleShutdown, Interrupts, Dies
  <2> QED BY <1>b, <1>d, <2>1
<1>7. CASE PreparePaths \/ CreateSession
  BY <1>7 DEF PreparePaths, CreateSession
<1>8. CASE WritesBody \/ (\E inFile \in BOOLEAN : WriteSessionSettings(inFile))
  <2>1. UNCHANGED <<up, found>> /\ dir' \in {dir, Remade(This)}
    BY <1>8 DEF WritesBody, WriteSessionSettings
  <2> QED BY <1>a, <2>1
<1>9. CASE Rollback
  <2>1. UNCHANGED <<up, found>> /\ dir' \in {dir, [dir EXCEPT ![This] = "none"]}
    BY <1>9 DEF Rollback, Cleans
  <2> QED BY <2>1
<1>10. CASE Other
  <2> SUFFICES ASSUME NEW p \in Launches,
                      \/ OtherPrepares(p) \/ OtherEnsuresCA(p)
                      \/ OtherWritesManifest(p) \/ OtherEnds(p)
               PROVE  PlacesOK'
    BY <1>10 DEF Other, Others
  <2>1. /\ found' = found /\ up' \in {up, [up EXCEPT ![p] = FALSE]}
        /\ dir' \in {dir, Remade(p), [dir EXCEPT ![p] = "manifest"], [dir EXCEPT ![p] = "none"]}
    BY DEF OtherPrepares, OtherEnsuresCA, OtherWritesManifest, OtherEnds, launcherVars
  <2> QED BY <1>a, <2>1
<1> QED
  BY <1>1, <1>2, <1>3, <1>4, <1>5, <1>6, <1>7, <1>8, <1>9, <1>10
     DEF LauncherStep, PlainSteps, Environment

\* The types of the launch's flags.
LEMMA FlagTypes ==
  ASSUME LauncherStep, FlagsOK
  PROVE  FlagsOK'
<1> USE DEF FlagsOK
<1>a. CASE UNCHANGED <<step, sup, session, claude, reason>>
  BY <1>a
<1>1. CASE \/ SweepScans \/ GapPasses \/ WritesBody \/ RequestStop \/ WaitForSessionStop
           \/ GcScans \/ GcRemoves
  <2>1. UNCHANGED <<step, sup, session, claude, reason>>
    BY <1>1 DEF SweepScans, GapPasses, WritesBody, RequestStop, WaitForSessionStop, GcScans,
                GcRemoves
  <2> QED BY <1>a, <2>1
<1>2. CASE Other
  <2>1. UNCHANGED <<step, sup, session, claude, reason>>
    BY <1>2 DEF Other, OtherPrepares, OtherEnsuresCA, OtherWritesManifest, OtherEnds, launcherVars
  <2> QED BY <1>a, <2>1
<1>3. CASE \/ SweepRemoves \/ ResolveClaudeBin \/ PreparePaths \/ StartSupervisor \/ AwaitControl
           \/ CreateSession \/ SpawnChild
  BY <1>3 DEF SweepRemoves, ResolveClaudeBin, PreparePaths, StartSupervisor, AwaitControl,
              CreateSession, SpawnChild, Fails, Goes, Steps
<1>4. CASE \/ ForwardSignalsToChild \/ Attach \/ Exit
           \/ (\E inFile \in BOOLEAN : WriteSessionSettings(inFile))
  BY <1>4 DEF ForwardSignalsToChild, Attach, Exit, WriteSessionSettings, Fails, Goes, Steps
<1>5. CASE Wait
  <2>1. /\ UNCHANGED <<sup, session>> /\ step' = "teardown" /\ claude' \in {claude, "exited"}
        /\ reason' \in {"exited", "stopped", "supervisor exited"}
    BY <1>5 DEF Wait, Goes
  <2> QED BY <2>1
<1>6. CASE \/ SupervisorServes \/ SupervisorReturns \/ RelaySignal \/ GraceOver \/ ClaudeExits
           \/ MonitorEndsSession \/ HandlesClose \/ Announces
  BY <1>6 DEF SupervisorServes, SupervisorReturns, RelaySignal, GraceOver, ClaudeExits,
              MonitorEndsSession, HandlesClose, Announces
<1>7. CASE HardKill \/ Signal \/ HandleShutdown
  <2>1. /\ UNCHANGED <<sup, session, reason>> /\ step' \in {step, "died"}
        /\ claude' \in {claude, "exited"}
    BY <1>7 DEF HardKill, Signal, HandleShutdown, Interrupts, Dies, Goes
  <2> QED BY <2>1
<1>8. CASE EarlyStep
  <2>1. /\ UNCHANGED <<sup, session, claude, reason>>
        /\ step' \in {"inspect", "snapshot", "resolve", "ResolveClaudeBin", "done"}
    BY <1>8 DEF EarlyStep, Unopened, Returns, Goes
  <2> QED BY <2>1 DEF Steps
<1>9. CASE EnsuresCA
  <2>1. UNCHANGED <<sup, session, claude, reason>> /\ step' \in {step, "StartSupervisor", "teardown"}
    BY <1>9 DEF EnsuresCA, Goes, Fails
  <2> QED BY <2>1 DEF Steps
<1>10. CASE Rollback
  <2>1. /\ UNCHANGED <<step, session, reason>> /\ sup' \in {sup, "stopped"}
        /\ claude' \in {claude, "exited"}
    BY <1>10 DEF Rollback, Cleans
  <2> QED BY <2>1
<1> QED
  BY <1>1, <1>2, <1>3, <1>4, <1>5, <1>6, <1>7, <1>8, <1>9, <1>10
     DEF LauncherStep, PlainSteps, Environment

\* The settings file is there or is not (a step of its own: the provers take
\* Boolean values apart from the rest).
LEMMA ArgFileType ==
  ASSUME LauncherStep, argFile \in BOOLEAN
  PROVE  argFile' \in BOOLEAN
<1>1. CASE \/ EarlyStep \/ SweepScans \/ SweepRemoves \/ ResolveClaudeBin \/ PreparePaths
           \/ EnsuresCA \/ StartSupervisor \/ AwaitControl \/ CreateSession \/ SpawnChild
           \/ ForwardSignalsToChild \/ Attach \/ Exit
  <2>1. UNCHANGED argFile
    BY <1>1 DEF EarlyStep, Unopened, SweepScans, SweepRemoves, ResolveClaudeBin, PreparePaths,
                EnsuresCA, StartSupervisor, AwaitControl, CreateSession, SpawnChild,
                ForwardSignalsToChild, Attach, Exit
  <2> QED BY <2>1
<1>2. CASE \/ SupervisorServes \/ SupervisorReturns \/ HardKill \/ Signal \/ RelaySignal
           \/ GapPasses \/ GraceOver \/ ClaudeExits \/ MonitorEndsSession \/ HandlesClose
           \/ Announces \/ WritesBody \/ RequestStop \/ HandleShutdown \/ WaitForSessionStop
           \/ GcScans \/ GcRemoves \/ Other
  <2>1. UNCHANGED argFile
    BY <1>2 DEF SupervisorServes, SupervisorReturns, HardKill, Signal, Interrupts, Dies,
                RelaySignal, GapPasses, GraceOver, ClaudeExits, MonitorEndsSession, HandlesClose,
                Announces, WritesBody, RequestStop, HandleShutdown, WaitForSessionStop, GcScans,
                GcRemoves, Other, OtherPrepares, OtherEnsuresCA, OtherWritesManifest, OtherEnds,
                launcherVars
  <2> QED BY <2>1
<1>3. CASE Wait
  <2>1. UNCHANGED argFile
    BY <1>3, Zenon DEF Wait
  <2> QED BY <2>1
<1>4. CASE \E inFile \in BOOLEAN : WriteSessionSettings(inFile)
  BY <1>4 DEF WriteSessionSettings
<1>5. CASE Rollback
  <2>1. argFile' = (argFile /\ Last(stack) # "argFile")
    BY <1>5 DEF Rollback, Cleans
  <2> QED BY <2>1
<1> QED
  BY <1>1, <1>2, <1>3, <1>4, <1>5 DEF LauncherStep, PlainSteps, Environment

\* The certificate's files and lock move as EnsureCA moves them.
LEMMA CAPart ==
  ASSUME LauncherStep, CAInv
  PROVE  CAInv'
<1>1. CASE UNCHANGED caVars
  BY <1>1 DEF CAInv, CATypeOK, Inside, caVars
<1>2. CASE \E p \in Launches : EnsureCA(p) \/ Gone(p)
  BY <1>2, CASteps, CAGone
<1>3. UNCHANGED caVars \/ \E p \in Launches : EnsureCA(p) \/ Gone(p)
  <2>1. CASE \/ SweepScans \/ SweepRemoves \/ ResolveClaudeBin \/ PreparePaths
             \/ StartSupervisor \/ AwaitControl \/ CreateSession \/ SpawnChild
             \/ ForwardSignalsToChild \/ Attach \/ Wait \/ Rollback
             \/ (\E inFile \in BOOLEAN : WriteSessionSettings(inFile))
    BY <2>1 DEF SweepScans, SweepRemoves, ResolveClaudeBin, PreparePaths, StartSupervisor,
                AwaitControl, CreateSession, SpawnChild, ForwardSignalsToChild, Attach, Wait,
                Rollback, WriteSessionSettings
  <2>2. CASE \/ SupervisorServes \/ SupervisorReturns \/ RelaySignal \/ GapPasses \/ GraceOver
             \/ ClaudeExits \/ MonitorEndsSession \/ HandlesClose \/ Announces \/ WritesBody
             \/ RequestStop \/ WaitForSessionStop \/ GcScans \/ GcRemoves
    BY <2>2 DEF SupervisorServes, SupervisorReturns, RelaySignal, GapPasses, GraceOver,
                ClaudeExits, MonitorEndsSession, HandlesClose, Announces, WritesBody, RequestStop,
                WaitForSessionStop, GcScans, GcRemoves
  <2>3. CASE EarlyStep
    BY <2>3, LauncherAssumption DEF EarlyStep, Returns
  <2>4. CASE EnsuresCA
    BY <2>4, LauncherAssumption DEF EnsuresCA
  <2>5. CASE Exit
    BY <2>5, LauncherAssumption DEF Exit
  <2>6. CASE HardKill
    BY <2>6, LauncherAssumption DEF HardKill, Dies
  <2>7. CASE Signal
    BY <2>7, LauncherAssumption DEF Signal, Interrupts, Dies
  <2>8. CASE HandleShutdown
    BY <2>8, LauncherAssumption DEF HandleShutdown, Interrupts, Dies
  <2>9. CASE Other
    BY <2>9, LauncherAssumption DEF Other, OtherPrepares, OtherEnsuresCA, OtherWritesManifest,
       OtherEnds, Others
  <2> QED
    BY <2>1, <2>2, <2>3, <2>4, <2>5, <2>6, <2>7, <2>8, <2>9
       DEF LauncherStep, PlainSteps, Environment
<1> QED BY <1>1, <1>2, <1>3

\* The parts are the whole.
LEMMA TypesAreLauncherTypes == TypesOK <=> LauncherTypeOK
  BY DEF TypesOK, LauncherTypeOK, FlagsOK, PlacesOK, RelayType, PastType, StopType, Cleanups

\* It holds of a launch that starts.
LEMMA LauncherStarts == Init => LauncherInv
<1> SUFFICES ASSUME LauncherInit, CAInit PROVE LauncherInv
  BY DEF Init
<1>1. CAInv
  BY CAStarts
<1>2. Height = 0 /\ OrderInv /\ stack \in Seq(Cleanups)
  <2>1. stack = <<>>
    BY DEF LauncherInit
  <2>2. Len(stack) = 0 /\ stack \in Seq(Cleanups)
    BY <2>1, EmptySeq
  <2> QED BY <2>2 DEF Height, OrderInv
<1>3. TypesOK
  <2>1. FlagsOK
    BY DEF LauncherInit, FlagsOK
  <2>2. PlacesOK
    BY DEF LauncherInit, PlacesOK
  <2>3. relay \in RelayType
    <3>1. 0 \in 0..MaxSignals + 1
      BY LauncherAssumption
    <3> QED BY <3>1 DEF LauncherInit, RelayType
  <2>4. past \in PastType
    <3>1. 0 \in 0..MaxSignals /\ 0 \in 0..MaxSweeps
      BY LauncherAssumption
    <3> QED BY <3>1 DEF LauncherInit, PastType
  <2>5. argFile \in BOOLEAN /\ stop \in StopType
    BY DEF LauncherInit, StopType
  <2> QED BY <1>2, <2>1, <2>2, <2>3, <2>4, <2>5 DEF TypesOK
<1>4. step = "sweep" /\ up[This] /\ dir[This] = "none"
  BY LauncherAssumption DEF LauncherInit
<1>5. StackInv
  <2>1. HeightInv
    BY <1>2, <1>4 DEF HeightInv, Early
  <2> QED BY <1>2, <2>1 DEF StackInv
<1>6. UpInv
  BY <1>4 DEF UpInv
<1>7. DirInv
  BY <1>2, <1>4 DEF DirInv
<1>8. StaleInv
  BY DEF LauncherInit, StaleInv
<1>9. OthersInv
  BY DEF CAInit, OthersInv, Others
<1>a. ~Asked /\ ~SaidStopped /\ ~stop.due
  BY DEF LauncherInit, Asked, SaidStopped
<1>10. SupInv
  BY <1>a DEF LauncherInit, SupInv
<1>11. EndInv
  BY <1>a DEF LauncherInit, EndInv
<1>12. QueueInv
  <2>1. relay.queued = 0 /\ past.signals = 0
    BY DEF LauncherInit
  <2> QED BY <1>a, <2>1 DEF QueueInv
<1> QED BY <1>1, <1>3, <1>5, <1>6, <1>7, <1>8, <1>9, <1>10, <1>11, <1>12 DEF LauncherInv

\* Every step keeps it.
LEMMA LauncherSteps ==
  ASSUME LauncherInv, [Next]_vars
  PROVE  LauncherInv'
<1>1. CASE LauncherStep
  <2>1. /\ TypesOK /\ FlagsOK /\ PlacesOK /\ stack \in Seq(Cleanups) /\ CATypeOK
        /\ CAInv /\ StackInv /\ UpInv /\ DirInv /\ StaleInv /\ OthersInv /\ SupInv /\ EndInv
        /\ QueueInv /\ relay \in RelayType /\ past \in PastType /\ stop \in StopType
        /\ argFile \in BOOLEAN
    BY DEF LauncherInv, TypesOK, CAInv
  <2>2. /\ up \in [Launches -> BOOLEAN] /\ dir \in [Launches -> {"none", "bare", "manifest"}]
        /\ found \in [Sweepers -> (SUBSET Launches) \union {Idle}]
    BY <2>1 DEF PlacesOK
  <2>3. CAInv'
    BY <1>1, <2>1, CAPart
  <2>4. StackInv' /\ HeightInv' /\ Height' \in 0..6 /\ stack' \in Seq(Cleanups)
    <3>1. StackInv' /\ stack' \in Seq(Cleanups)
      BY <1>1, <2>1, StackSteps
    <3> QED BY <3>1 DEF StackInv
  <2>5. UpInv'
    BY <1>1, <2>1, <2>2, UpSteps
  <2>6. DirInv'
    BY <1>1, <2>1, <2>2, <2>4, <2>5, DirSteps
  <2>7. StaleInv'
    BY <1>1, <2>1, <2>2, StaleSteps
  <2>8. OthersInv'
    BY <1>1, <2>1, <2>2, OthersSteps
  <2>9. SupInv'
    BY <1>1, <2>1, <2>4, SupSteps
  <2>10. EndInv'
    BY <1>1, <2>1, <2>4, EndSteps
  <2>11. QueueInv'
    BY <1>1, <2>1, QueueSteps
  <2>12. TypesOK'
    <3>1. past' \in PastType /\ stop' \in StopType
      BY <1>1, <2>1, PastGrows, StopSteps
    <3>2. relay' \in RelayType
      BY <1>1, <2>1, <2>11, <3>1, RelayTypes
    <3>3. PlacesOK' /\ FlagsOK' /\ argFile' \in BOOLEAN
      BY <1>1, <2>1, PlaceTypes, FlagTypes, ArgFileType
    <3> QED BY <2>4, <3>1, <3>2, <3>3 DEF TypesOK
  <2> QED BY <2>3, <2>4, <2>5, <2>6, <2>7, <2>8, <2>9, <2>10, <2>11, <2>12 DEF LauncherInv
<1>2. CASE UNCHANGED <<launcherVars, caVars>>
  <2>1. Height' = Height
    BY <1>2 DEF launcherVars, Height
  <2>2. OrderInv' = OrderInv
    BY <1>2 DEF launcherVars, OrderInv
  <2>3. CAInv' = CAInv
    BY <1>2 DEF caVars, CAInv, CATypeOK, Inside
  <2>4. TypesOK' = TypesOK
    BY <1>2 DEF launcherVars, TypesOK, FlagsOK, PlacesOK
  <2>a. /\ Lost' = Lost /\ Asked' = Asked /\ SaidStopped' = SaidStopped /\ Lingers' = Lingers
        /\ \A p \in Launches : Misread(p)' = Misread(p)
    BY <1>2 DEF launcherVars, Lost, Asked, SaidStopped, Lingers, Misread
  <2>5. StackInv' = StackInv /\ UpInv' = UpInv
    BY <1>2, <2>1, <2>2 DEF launcherVars, StackInv, HeightInv, UpInv
  <2>b. DirInv' = DirInv
    BY <1>2, <2>1, <2>a, LauncherAssumption DEF launcherVars, DirInv
  <2>6. StaleInv' = StaleInv /\ OthersInv' = OthersInv
    BY <1>2 DEF launcherVars, caVars, StaleInv, OthersInv, Misread
  <2>7. SupInv' = SupInv /\ QueueInv' = QueueInv
    BY <1>2, <2>1, <2>a DEF launcherVars, SupInv, QueueInv
  <2>c. EndInv' = EndInv
    BY <1>2, <2>1, <2>a, LauncherAssumption DEF launcherVars, EndInv
  <2> QED BY <2>3, <2>4, <2>5, <2>b, <2>6, <2>7, <2>c DEF LauncherInv
<1> QED BY <1>1, <1>2, StepKinds

\* What holds of every launch among any others, and of what they leave on the
\* disk.
THEOREM LaunchInvariant == Spec => []LauncherInv
<1>1. Init => LauncherInv
  BY LauncherStarts
<1>2. LauncherInv /\ [Next]_vars => LauncherInv'
  BY LauncherSteps
<1> QED BY <1>1, <1>2, PTL DEF Spec

\* Launches that make the first root at the same time come to one (ca.go:66),
\* however many there are and wherever each of them ends.
THEOREM SpecRootsAgree == Spec => []RootsAgree
<1>1. LauncherInv => RootsAgree
  BY DEF LauncherInv, CAInv, RootsAgree
<1> QED BY <1>1, LaunchInvariant, PTL

\* Nobody removes the directory of a launch that uses it (discovery.go:178),
\* however sweeps and launches interleave, but for a scan that took the launch
\* for dead (discovery.go:203).
THEOREM SpecLiveDirStays == Spec => []LiveDirStays
<1>1. LauncherInv => LiveDirStays
  <2> SUFFICES ASSUME LauncherInv PROVE LiveDirStays
    OBVIOUS
  <2>1. /\ UpInv /\ DirInv /\ OthersInv /\ stack \in Seq(Cleanups)
        /\ Height \in 0..6
    BY DEF LauncherInv, TypesOK, StackInv
  <2>2. Contains(stack, "dir") => Height # 0
    BY <2>1 DEF Contains, Height
  <2>3. up[This] /\ Contains(stack, "dir") => dir[This] # "none" \/ This \in past.misread
    BY <2>1, <2>2 DEF DirInv, UpInv, Misread
  <2> QED BY <2>1, <2>3 DEF LiveDirStays, OthersInv, Misread
<1> QED BY <1>1, LaunchInvariant, PTL

\* A launch that ends by itself leaves nothing, and lets go of what it opened
\* in the order that tells those who watch it, unless a call got no answer
\* (launcher.go:155, 157).
THEOREM SpecLeavesNothing == Spec => []LeavesNothing
<1>1. LauncherInv => LeavesNothing
  <2> SUFFICES ASSUME LauncherInv PROVE LeavesNothing
    OBVIOUS
  <2>1. /\ LauncherTypeOK /\ FlagsOK /\ HeightInv /\ Height \in 0..6 /\ DirInv
        /\ SupInv /\ EndInv
    BY TypesAreLauncherTypes DEF LauncherInv, TypesOK, StackInv
  <2>2. ClosedThenStopped
    BY <2>1 DEF ClosedThenStopped, SupInv, EndInv, Lost, SaidStopped, Misread
  <2>3. step = "done" => Height = 0
    BY <2>1 DEF HeightInv
  <2>4. ASSUME step = "done"
        PROVE  (dir[This] = "none" \/ Lingers) /\ claude # "running" /\ ~argFile
    BY <2>1, <2>3, <2>4 DEF DirInv, EndInv
  <2>5. ASSUME step = "done", session \in {"open", "closed"}
        PROVE  sup = "returned" \/ past.missed # {}
    BY <2>1, <2>5 DEF SupInv, Lost
  <2> QED BY <2>1, <2>2, <2>4, <2>5 DEF LeavesNothing
<1> QED BY <1>1, LaunchInvariant, PTL

-----------------------------------------------------------------------------
(* Resolutions. *)

SameRest(o, q) ==
  \A f \in {"upstream", "egress", "env", "args", "aliasJSON", "aliasPairs", "headerPairs",
            "modelPassthrough", "authPassthrough", "profile"} : q[f] = o[f]

\* Every file that is named has its snapshot.
Settled(o) == \A f \in FileOptions : o[f].named => o[f].snapshot # {}

\* The options as they were with what is on the disk now.
LEMMA AtDiskKeeps ==
  ASSUME NEW o, IsOptions(o)
  PROVE  /\ SameRest(o, AtDisk(o))
         /\ \A f \in FileOptions : AtDisk(o)[f].named = o[f].named
         /\ \A f \in FileOptions : AtDisk(o)[f].snapshot = o[f].snapshot
  BY DEF IsOptions, AtDisk, SameRest, FileOptions

\* With its snapshots taken, what a file says is what its snapshot says.
LEMMA ContentFromSnapshot ==
  ASSUME NEW o, IsOptions(o), Settled(o), NEW f \in FileOptions
  PROVE  Content(AtDisk(o)[f]) = Content(o[f])
<1>1. /\ AtDisk(o)[f].named = o[f].named /\ AtDisk(o)[f].snapshot = o[f].snapshot
      /\ o[f].named => o[f].snapshot # {}
  BY AtDiskKeeps DEF Settled
<1> QED BY <1>1 DEF Content

\* What a resolution is made of.
StrictOf(o, d) ==
  ClassifyRoute(APIBase(o, Provider(o, d))) = "third_party" /\ ~o.modelPassthrough
OptionsOf(o, d) == AliasOptions(o, d, StrictOf(o, d))
AliasOf(o, d) == Resolve(OptionsOf(o, d))
Unaliased(o, d) ==
  UnsupportedAliases(OptionsOf(o, d), d, ClassifyRoute(APIBase(o, Provider(o, d))))

Outcome(profile, env, base, unaliased, alias, arg, modelEnv, headers, credential,
        passModels, passAuth, other, missing, egress, d) ==
  LET class == ClassifyRoute(base)
      models == [k \in DOMAIN modelEnv |-> modelEnv[k].model]
      contract == HiddenAuthContract(class, passAuth, credential)
      rejected ==
        \/ UnsupportedLaunch(env, d) \/ base = "bad"
        \/ unaliased
        \/ \E i \in DOMAIN headers : headers[i].bad
        \/ arg.unresolved \/ \E k \in DOMAIN modelEnv : modelEnv[k].unresolved
        \/ Cardinality(credential) > 1
        \/ other \/ egress = "bad"
      compatible ==
        class = "third_party" /\ (passModels \/ (passAuth /\ credential = {}))
      final == IF compatible THEN "compatible" ELSE class
  IN IF rejected THEN {}
     ELSE {[profile |-> profile, base |-> base, class |-> final, credential |-> credential,
            policy |-> contract.policy, bootstrap |-> contract.bootstrap,
            missing |-> missing, alias |-> alias, headers |-> Merged(headers),
            egress |-> egress, model |-> arg.model, modelEnv |-> models,
            uncovered |-> Uncovered(final, alias, arg.model, models, d)]}

\* The outcome depends on nothing else.
LEMMA OutcomeOfParts ==
  ASSUME NEW o, NEW d
  PROVE  ResolveProfile(o, d) =
           Outcome(o.profile, OverlaidEnv(o), APIBase(o, Provider(o, d)), Unaliased(o, d),
                   AliasOf(o, d), ModelArg(o, AliasOf(o, d), StrictOf(o, d)),
                   ModelEnv(o, d, AliasOf(o, d), StrictOf(o, d)), HeaderSources(o, d),
                   Credential(OverlaidEnv(o), Provider(o, d)), o.modelPassthrough,
                   o.authPassthrough,
                   OtherCredential(o, d, ClassifyRoute(APIBase(o, Provider(o, d)))),
                   MissingAuthEnv(o), ResolveEgress(o, d), d)
  BY DEF ResolveProfile, Outcome, Unaliased, AliasOf, OptionsOf, StrictOf

\* There is at most one.
LEMMA AtMostOne ==
  ASSUME NEW o, NEW d, NEW r \in ResolveProfile(o, d), NEW l \in ResolveProfile(o, d)
  PROVE  r = l
  BY OutcomeOfParts DEF Outcome

\* What of its parts an outcome has in it unchanged.
LEMMA OutcomeFields ==
  ASSUME NEW profile, NEW env, NEW base, NEW unaliased, NEW alias, NEW arg, NEW modelEnv,
         NEW headers, NEW credential, NEW passModels, NEW passAuth, NEW other, NEW missing,
         NEW egress, NEW d,
         NEW r \in Outcome(profile, env, base, unaliased, alias, arg, modelEnv, headers,
                           credential, passModels, passAuth, other, missing, egress, d)
  PROVE  /\ r.profile = profile /\ r.base = base /\ r.credential = credential
         /\ DOMAIN r.modelEnv = DOMAIN modelEnv
  BY DEF Outcome

\* A resolution is of the profile it was asked for, with the base and the
\* credential its parts come to.
LEMMA Resolved ==
  ASSUME NEW o, NEW d, NEW r \in ResolveProfile(o, d)
  PROVE  /\ r.profile = o.profile /\ r.base = APIBase(o, Provider(o, d))
         /\ r.credential = Credential(OverlaidEnv(o), Provider(o, d))
  BY OutcomeOfParts, OutcomeFields

\* A resolution after the snapshots does not look at the disk.
LEMMA FromSnapshots ==
  ASSUME NEW o, NEW d, IsOptions(o), Settled(o)
  PROVE  ResolveProfile(AtDisk(o), d) = ResolveProfile(o, d)
<1> DEFINE q == AtDisk(o)
<1>1. SameRest(o, q) /\ \A f \in FileOptions : q[f].named = o[f].named
  BY AtDiskKeeps
<1>2. \A f \in FileOptions : Content(q[f]) = Content(o[f])
  BY ContentFromSnapshot
<1> HIDE DEF q
<1>3. /\ q.profile = o.profile /\ q.env = o.env /\ q.upstream = o.upstream
      /\ q.egress = o.egress /\ q.args = o.args /\ q.aliasJSON = o.aliasJSON
      /\ q.aliasPairs = o.aliasPairs /\ q.headerPairs = o.headerPairs
      /\ q.modelPassthrough = o.modelPassthrough /\ q.authPassthrough = o.authPassthrough
  BY <1>1 DEF SameRest
<1>4. /\ q.aliasFile.named = o.aliasFile.named /\ q.headerFile.named = o.headerFile.named
      /\ Content(q.aliasFile) = Content(o.aliasFile)
      /\ Content(q.aliasEnvFile) = Content(o.aliasEnvFile)
      /\ Content(q.headerFile) = Content(o.headerFile)
      /\ Content(q.headerEnvFile) = Content(o.headerEnvFile)
  BY <1>1, <1>2 DEF FileOptions
<1>5. Auth(q) = Auth(o) /\ Secret(q) = Secret(o)
  BY <1>3 DEF Auth, Secret
<1>6. ProfileAuthKey(q) = ProfileAuthKey(o) /\ MissingAuthEnv(q) = MissingAuthEnv(o)
  BY <1>5 DEF ProfileAuthKey, MissingAuthEnv
<1>7. InjectedSecret(q) = InjectedSecret(o)
  BY <1>5, <1>6 DEF InjectedSecret
<1>8. OverlaidEnv(q) = OverlaidEnv(o)
  BY <1>3, <1>5, <1>7 DEF OverlaidEnv
<1>9. Provider(q, d) = Provider(o, d)
  BY <1>6, <1>7, <1>8 DEF Provider
<1>10. APIBase(q, Provider(q, d)) = APIBase(o, Provider(o, d))
  <2>1. Upstream(q) = Upstream(o)
    BY <1>3 DEF Upstream
  <2> QED BY <1>3, <1>9, <2>1 DEF APIBase
<1>11. StrictOf(q, d) = StrictOf(o, d)
  BY <1>3, <1>10 DEF StrictOf
<1>12. /\ AliasOf(q, d) = AliasOf(o, d)
       /\ Resolves(OptionsOf(q, d)) = Resolves(OptionsOf(o, d))
       /\ OptionsOf(q, d).strict = OptionsOf(o, d).strict
  <2> DEFINE a == OptionsOf(q, d)
             b == OptionsOf(o, d)
  <2>1. /\ a.settings = b.settings /\ a.overrides = b.overrides /\ a.json = b.json
        /\ a.strict = b.strict /\ a.passthrough = b.passthrough
    BY <1>3, <1>11 DEF OptionsOf, AliasOptions
  <2>2. a.pairs = b.pairs
    BY <1>3, <1>4 DEF OptionsOf, AliasOptions, OverlaidPairs
  <2>3. /\ a.file.named = b.file.named /\ Content(a.file) = Content(b.file)
        /\ Content(a.envFile) = Content(b.envFile)
    BY <1>4 DEF OptionsOf, AliasOptions
  <2> HIDE DEF a, b
  <2>4. Sources(a) = Sources(b)
    BY <2>1, <2>2, <2>3 DEF Sources
  <2>5. Resolve(a) = Resolve(b) /\ Resolves(a) = Resolves(b)
    BY <2>1, <2>4 DEF Resolve, Resolves
  <2> QED BY <2>1, <2>5 DEF AliasOf, a, b
<1>13. Unaliased(q, d) = Unaliased(o, d)
  BY <1>10, <1>12 DEF Unaliased, UnsupportedAliases, AliasOf
<1>14. HeaderSources(q, d) = HeaderSources(o, d)
  <2>1. \A own : OverlaidPairs(q, q.headerFile, q.headerPairs, own)
                   = OverlaidPairs(o, o.headerFile, o.headerPairs, own)
    BY <1>3, <1>4 DEF OverlaidPairs
  <2> QED BY <1>3, <1>4, <2>1 DEF HeaderSources
<1>15. ResolveEgress(q, d) = ResolveEgress(o, d)
  <2>1. EgressFlag(q) = EgressFlag(o)
    BY <1>3 DEF EgressFlag
  <2> QED BY <1>8, <2>1 DEF ResolveEgress
<1>16. /\ ModelArg(q, AliasOf(q, d), StrictOf(q, d)) = ModelArg(o, AliasOf(o, d), StrictOf(o, d))
       /\ ModelEnv(q, d, AliasOf(q, d), StrictOf(q, d))
            = ModelEnv(o, d, AliasOf(o, d), StrictOf(o, d))
  BY <1>3, <1>8, <1>11, <1>12 DEF ModelArg, ModelEnv
<1>17. \A class : OtherCredential(q, d, class) = OtherCredential(o, d, class)
  BY <1>3, <1>8 DEF OtherCredential
<1>18. Credential(OverlaidEnv(q), Provider(q, d)) = Credential(OverlaidEnv(o), Provider(o, d))
  BY <1>8, <1>9
<1> QED
  <2>1. ResolveProfile(q, d) = ResolveProfile(o, d)
    BY OutcomeOfParts, <1>3, <1>6, <1>8, <1>10, <1>11, <1>12, <1>13, <1>14, <1>15, <1>16, <1>17,
       <1>18
  <2> QED BY <2>1 DEF q

\* A place of seven at most that is the last of its kind.
LEMMA MaxOf ==
  ASSUME NEW S, S \subseteq 1..7, S # {}
  PROVE  Max(S) \in S /\ \A y \in S : Max(S) >= y
<1>1. \A y \in S : y = 1 \/ y = 2 \/ y = 3 \/ y = 4 \/ y = 5 \/ y = 6 \/ y = 7
  OBVIOUS
<1>2. \E m \in S : \A y \in S : m >= y
  <2>1. CASE 7 \in S
    BY <1>1, <2>1
  <2>2. CASE 7 \notin S /\ 6 \in S
    BY <1>1, <2>2
  <2>3. CASE 7 \notin S /\ 6 \notin S /\ 5 \in S
    BY <1>1, <2>3
  <2>4. CASE 7 \notin S /\ 6 \notin S /\ 5 \notin S /\ 4 \in S
    BY <1>1, <2>4
  <2>5. CASE 7 \notin S /\ 6 \notin S /\ 5 \notin S /\ 4 \notin S /\ 3 \in S
    BY <1>1, <2>5
  <2>6. CASE 7 \notin S /\ 6 \notin S /\ 5 \notin S /\ 4 \notin S /\ 3 \notin S /\ 2 \in S
    BY <1>1, <2>6
  <2>7. CASE 7 \notin S /\ 6 \notin S /\ 5 \notin S /\ 4 \notin S /\ 3 \notin S /\ 2 \notin S
    <3>1. S = {1}
      BY <1>1, <2>7
    <3> QED BY <3>1
  <2> QED BY <2>1, <2>2, <2>3, <2>4, <2>5, <2>6, <2>7
<1> QED BY <1>2 DEF Max

\* The folder's own settings say nothing of the provider.
LEMMA FolderUnheard ==
  ASSUME NEW o, NEW d
  PROVE  Provider(o, Without(d, {"project", "local"})) = Provider(o, d)
<1> DEFINE w == Without(d, {"project", "local"})
           ks == RoutingAuthKeys
           T(k) == Setting(d, TrustedOrder, k)
<1>1. /\ DOMAIN TrustedOrder = 1..5
      /\ \A i \in 1..5 : TrustedOrder[i] \notin {"project", "local"}
  BY DEF TrustedOrder
<1>2. \A i \in 1..5 : /\ TrustedOrder[i] \in DOMAIN w <=> TrustedOrder[i] \in DOMAIN d
                      /\ TrustedOrder[i] \in DOMAIN d => w[TrustedOrder[i]] = d[TrustedOrder[i]]
  BY <1>1 DEF Without
<1> HIDE DEF w
<1>3. \A k : Setting(w, TrustedOrder, k) = T(k)
  BY <1>1, <1>2 DEF Setting
<1>4. ASSUME NEW k, T(k) # {}
      PROVE  Max(T(k)) \in T(k)
  <2>1. T(k) \subseteq 1..5
    BY <1>1 DEF Setting
  <2> DEFINE S == T(k)
  <2> SUFFICES Max(S) \in S
    OBVIOUS
  <2>2. S # {} /\ S \subseteq 1..7
    BY <1>4, <2>1
  <2> HIDE DEF S
  <2> QED BY <2>2, MaxOf
<1>5. \A k : T(k) # {} => w[TrustedOrder[Max(T(k))]] = d[TrustedOrder[Max(T(k))]]
  BY <1>1, <1>2, <1>4 DEF Setting
<1>6. \A env : Layered(env, w, TrustedOrder, ks) = Layered(env, d, TrustedOrder, ks)
  <2> DEFINE named == {k \in ks : T(k) # {}}
             low == [k \in named |-> d[TrustedOrder[Max(T(k))]].env[k]]
  <2>1. {k \in ks : Setting(w, TrustedOrder, k) # {}} = named
    BY <1>3
  <2>2. [k \in named |-> w[TrustedOrder[Max(Setting(w, TrustedOrder, k))]].env[k]] = low
    BY <1>3, <1>5
  <2>3. \A env : Layered(env, w, TrustedOrder, ks) = Atop(low, env)
    BY <2>1, <2>2 DEF Layered
  <2>4. \A env : Layered(env, d, TrustedOrder, ks) = Atop(low, env)
    BY DEF Layered
  <2> QED BY <2>3, <2>4
<1> QED BY <1>6 DEF Provider, EffectiveProviderEnv, w

\* The secret of a profile that has one is the credential.
LEMMA SecretIsCredential ==
  ASSUME NEW o, NEW d, \A a, b \in Auth(o) : a = b, Secret(o) # {}
  PROVE  {c.value : c \in Credential(OverlaidEnv(o), Provider(o, d))} = Secret(o)
<1>1. PICK a : Auth(o) = {a}
  BY DEF Secret
<1>2. PICK v : Secret(o) = {v} /\ v # ""
  <2> DEFINE v == IF a.key # "" THEN a.key ELSE At(o.env, a.keyEnv)
  <2>1. Secret(o) = {v} \ {""}
    BY <1>1 DEF Secret
  <2> HIDE DEF v
  <2> QED BY <2>1
<1> DEFINE k == ProfileAuthEnvKey(a.mode)
           env == OverlaidEnv(o)
           provider == Provider(o, d)
<1>3. k \in {"ANTHROPIC_AUTH_TOKEN", "ANTHROPIC_API_KEY"}
  BY DEF ProfileAuthEnvKey
<1>4. ProfileAuthKey(o) = {k}
  BY <1>1, <1>2 DEF ProfileAuthKey
<1> HIDE DEF k
<1>5. DOMAIN InjectedSecret(o) = {k} /\ InjectedSecret(o)[k] = v
  BY <1>2, <1>4 DEF InjectedSecret
<1>6. \A u \in UpstreamKeys : At(env, u) = ""
  BY <1>1, <1>3, <1>5 DEF OverlaidEnv, Atop, Without, AmbientAuthKeys, UpstreamKeys, At
<1>7. \A c \in CredentialKeys : At(provider, c) = IF c = k THEN v ELSE ""
  BY <1>4, <1>5 DEF Provider, Atop, Without, At
<1>8. k \in CredentialKeys /\ k \notin UpstreamKeys
  BY <1>3 DEF CredentialKeys, UpstreamKeys
<1>9. Found(env, provider) = {k}
  BY <1>2, <1>6, <1>7, <1>8 DEF Found, UpstreamKeys
<1>10. Credential(env, provider) = {[key |-> k, value |-> v]}
  BY <1>7, <1>8, <1>9 DEF Credential
<1>11. \A c : c \in Credential(env, provider) <=> c = [key |-> k, value |-> v]
  BY <1>10
<1> HIDE DEF env, provider
<1>12. {c.value : c \in Credential(env, provider)} = {v}
  BY <1>10
<1> QED BY <1>2, <1>12 DEF env, provider

-----------------------------------------------------------------------------
(* The posture. *)

OneAuth(profile) == \A p, q \in profile : \A a \in p.auth, b \in q.auth : a = b
With(profile) == [opts EXCEPT !.profile = profile]
Unposed == {"sweep", "compose", "inspect", "snapshot", "resolve"}

\* A posture is what the launch's inputs, as they were read, make of a profile.
PostureInv ==
  /\ IsOptions(opts) /\ IsDisk(disk)
  /\ step \in {"inspect", "snapshot", "resolve"} => OneAuth(opts.profile)
  /\ step = "resolve" \/ Posture # {} => Settled(opts)
  /\ step \in Unposed => pre = {} /\ current = {}
  /\ \A r \in Posture : OneAuth(r.profile) /\ r \in ResolveProfile(With(r.profile), docs)

\* A name is one profile at most.
LEMMA NamedOnce ==
  ASSUME IsDisk(disk), NEW name
  PROVE  OneAuth(Named(name))
  BY DEF IsDisk, Named, OneAuth

\* The launch's options with another profile differ in the profile.
LEMMA WithFacts ==
  ASSUME IsOptions(opts), NEW profile
  PROVE  /\ IsOptions(With(profile)) /\ With(profile).profile = profile
         /\ Settled(opts) => Settled(With(profile))
         /\ With(opts.profile) = opts
         /\ \A new : [With(profile) EXCEPT !.profile = new] = With(new)
  BY DEF IsOptions, With, Settled, FileOptions

\* The snapshots of the files that are named settle the options.
LEMMA SnapshotsSettle ==
  ASSUME IsOptions(opts), Readable, NEW q,
         q = [opts EXCEPT !.aliasFile = Snapshot(@, disk.aliases),
                          !.aliasEnvFile = Snapshot(@, disk.envAliases),
                          !.headerFile = Snapshot(@, disk.headers),
                          !.headerEnvFile = Snapshot(@, disk.envHeaders)]
  PROVE  IsOptions(q) /\ Settled(q) /\ q.profile = opts.profile
<1> DEFINE Fine(file) ==
      /\ file = [named |-> file.named, snapshot |-> file.snapshot, disk |-> file.disk]
      /\ file.named => file.snapshot # {}
<1>1. ASSUME NEW f \in FileOptions, NEW files, opts[f].named => files # {}
      PROVE  Fine(Snapshot(opts[f], files))
  BY <1>1 DEF IsOptions, Snapshot
<1>2. /\ Fine(Snapshot(opts.aliasFile, disk.aliases))
      /\ Fine(Snapshot(opts.aliasEnvFile, disk.envAliases))
      /\ Fine(Snapshot(opts.headerFile, disk.headers))
      /\ Fine(Snapshot(opts.headerEnvFile, disk.envHeaders))
  BY <1>1 DEF FileOptions, Readable
<1> HIDE DEF Fine
<1>3. /\ q = [f \in {"upstream", "egress", "env", "args", "aliasJSON", "aliasPairs", "headerPairs",
                     "modelPassthrough", "authPassthrough", "profile"} \union FileOptions |-> q[f]]
      /\ q.profile = opts.profile
      /\ q.aliasFile = Snapshot(opts.aliasFile, disk.aliases)
      /\ q.aliasEnvFile = Snapshot(opts.aliasEnvFile, disk.envAliases)
      /\ q.headerFile = Snapshot(opts.headerFile, disk.headers)
      /\ q.headerEnvFile = Snapshot(opts.headerEnvFile, disk.envHeaders)
  BY DEF IsOptions, FileOptions
<1>4. \A f \in FileOptions : Fine(q[f])
  BY <1>2, <1>3 DEF FileOptions
<1> QED BY <1>3, <1>4 DEF IsOptions, Settled, Fine

\* What is resolved with the snapshots for a profile is a posture of it.
LEMMA PostureOf ==
  ASSUME IsOptions(opts), Settled(opts), NEW profile,
         NEW r \in ResolveProfile(AtDisk(With(profile)), docs)
  PROVE  r.profile = profile /\ r \in ResolveProfile(With(profile), docs)
<1>1. r \in ResolveProfile(With(profile), docs)
  BY WithFacts, FromSnapshots
<1> QED BY <1>1, WithFacts, Resolved

\* The launcher's own steps do not lead back to the reading of the inputs.
LEMMA PlainPlaces ==
  ASSUME PlainSteps \/ Environment
  PROVE  step' = step \/ step' \notin Unposed \/ (step = "sweep" /\ step' = "compose")
<1> USE DEF Goes, Fails, Unposed
<1>1. CASE \/ SweepScans \/ SweepRemoves \/ ResolveClaudeBin \/ PreparePaths \/ EnsuresCA
           \/ StartSupervisor \/ AwaitControl \/ ForwardSignalsToChild \/ Attach \/ Wait
           \/ Rollback \/ Exit
  BY <1>1 DEF SweepScans, SweepRemoves, ResolveClaudeBin, PreparePaths, EnsuresCA,
     StartSupervisor, AwaitControl, ForwardSignalsToChild, Attach, Wait, Rollback, Exit
<1>2. CASE \/ SupervisorServes \/ SupervisorReturns \/ HardKill \/ Signal \/ RelaySignal
           \/ GapPasses \/ GraceOver \/ ClaudeExits
  BY <1>2 DEF SupervisorServes, SupervisorReturns, HardKill, Signal, RelaySignal, GapPasses,
     GraceOver, ClaudeExits, Interrupts, Dies
<1>3. CASE \/ MonitorEndsSession \/ HandlesClose \/ Announces \/ WritesBody
           \/ RequestStop \/ HandleShutdown \/ WaitForSessionStop
           \/ GcScans \/ GcRemoves \/ Other
  BY <1>3 DEF MonitorEndsSession, HandlesClose, Announces, WritesBody, RequestStop, HandleShutdown,
     WaitForSessionStop, GcScans, GcRemoves, Other, OtherPrepares, OtherEnsuresCA,
     OtherWritesManifest, OtherEnds, launcherVars, Interrupts, Dies
<1> QED BY <1>1, <1>2, <1>3 DEF PlainSteps, Environment

\* A launch starts with no posture.
LEMMA PostureStarts == Init => PostureInv
  BY LaunchAssumption DEF Init, LauncherInit, PostureInv, Posture, Unposed

\* No step leaves a posture that is not of the inputs: not a switch, whatever
\* the files say by then, nor an edit.
LEMMA PostureSteps ==
  ASSUME PostureInv, [Next]_vars
  PROVE  PostureInv'
<1>1. CASE /\ UNCHANGED launchVars
           /\ step' = step \/ step' \notin Unposed \/ (step = "sweep" /\ step' = "compose")
  BY <1>1 DEF launchVars, PostureInv, Posture, With, Unposed, Settled, IsOptions
<1>2. CASE ResolveLaunchProfile
  <2>1. /\ step = "compose" /\ step' \in {"inspect", "done"}
        /\ UNCHANGED <<docs, pre, current>> /\ pre = {} /\ current = {}
        /\ IsDisk(disk')
        /\ opts' = opts \/ \E n : opts' = With(Named(n))
        /\ step' = "inspect" => \E n : opts' = With(Named(n))
    BY <1>2 DEF ResolveLaunchProfile, PostureInv, Unposed, Continues, Returns, Goes, With, IsDisk
  <2>2. IsOptions(opts') /\ (step' = "inspect" => OneAuth(opts'.profile))
    BY <2>1, WithFacts, NamedOnce DEF PostureInv
  <2> QED BY <2>1, <2>2 DEF PostureInv, Posture, Unposed
<1>3. CASE InspectLaunch
  <2>1. /\ step = "inspect" /\ step' \in {"snapshot", "done"}
        /\ UNCHANGED <<disk, opts, pre, current>>
    BY <1>3 DEF InspectLaunch, Continues, Returns, Goes
  <2> QED BY <2>1 DEF PostureInv, Posture, Unposed
<1>4. CASE Snapshots
  <2>1. /\ step = "snapshot" /\ step' \in {"resolve", "done"}
        /\ UNCHANGED <<disk, docs, pre, current>>
        /\ step' = "done" => opts' = opts
    BY <1>4 DEF Snapshots, Continues, Returns, Goes
  <2>2. step' = "resolve" => IsOptions(opts') /\ Settled(opts') /\ opts'.profile = opts.profile
    BY <1>4, SnapshotsSettle DEF Snapshots, Returns, Goes, PostureInv
  <2> QED BY <2>1, <2>2 DEF PostureInv, Posture, Unposed
<1>5. CASE RunWithInspection
  <2>1. /\ step = "resolve" /\ step' \in {"ResolveClaudeBin", "done"}
        /\ UNCHANGED <<disk, opts, docs, current>> /\ current = {}
        /\ pre' = pre \/ pre' = Accepted
        /\ IsOptions(opts) /\ Settled(opts) /\ OneAuth(opts.profile) /\ pre = {}
    BY <1>5 DEF RunWithInspection, Continues, Returns, Goes, PostureInv, Unposed
  <2>2. \A r \in Accepted : r.profile = opts.profile /\ r \in ResolveProfile(opts, docs)
    BY <2>1, FromSnapshots, Resolved DEF Accepted
  <2>3. With(opts.profile) = opts
    BY <2>1, WithFacts
  <2> QED BY <2>1, <2>2, <2>3 DEF PostureInv, Posture, Unposed, With
<1>6. CASE CreateSession /\ PublishesPosture
  <2>1. /\ UNCHANGED <<disk, opts, docs, pre>> /\ current' \in {pre, current}
        /\ step = "CreateSession" /\ step' \notin Unposed
    BY <1>6 DEF CreateSession, PublishesPosture, Goes, Fails, Unposed
  <2> QED BY <2>1 DEF PostureInv, Posture, Unposed, With
<1>7. CASE WritesSessionSettings \/ (SpawnChild /\ UNCHANGED launchVars)
  <2>1. /\ UNCHANGED <<disk, opts, docs, pre, current>>
        /\ step' \notin Unposed
    BY <1>7 DEF WritesSessionSettings, WriteSessionSettings, SpawnChild, launchVars, Goes, Fails,
       Unposed
  <2> QED BY <2>1 DEF PostureInv, Posture, Unposed, With
<1>8. CASE UserEdits
  <2>1. UNCHANGED <<step, opts, docs, pre, current>> /\ IsDisk(disk')
    BY <1>8 DEF UserEdits, launcherVars
  <2> QED BY <2>1 DEF PostureInv, Posture, With
<1>9. ASSUME NEW name, SwitchProfile(name)
      PROVE  PostureInv'
  <2>1. /\ UNCHANGED <<step, disk, opts, docs, pre>> /\ current # {}
        /\ \E r \in ResolveProfile(AtDisk(With(Named(name))), docs) : current' = {r}
    BY <1>9 DEF SwitchProfile, launcherVars, With
  <2>2. PICK r \in ResolveProfile(AtDisk(With(Named(name))), docs) : current' = {r}
    BY <2>1
  <2>3. IsOptions(opts) /\ Settled(opts) /\ IsDisk(disk) /\ step \notin Unposed
    BY <2>1 DEF PostureInv, Posture
  <2>4. OneAuth(r.profile) /\ r \in ResolveProfile(With(r.profile), docs)
    BY <2>2, <2>3, PostureOf, NamedOnce
  <2> QED BY <2>1, <2>2, <2>3, <2>4 DEF PostureInv, Posture, With
<1>10. CASE UNCHANGED vars
  BY <1>10, <1>1 DEF vars, launcherVars
<1> QED BY <1>1, <1>2, <1>3, <1>4, <1>5, <1>6, <1>7, <1>8, <1>9, <1>10, PlainPlaces
        DEF Next, LaunchStep

\* The posture of every launch, in every situation, whatever the user edits.
THEOREM PostureInvariant == Spec => []PostureInv
<1> QED BY PostureStarts, PostureSteps, PTL DEF Spec

\* A profile that names a secret is sent to its upstream with that secret and
\* no other (profile.go:313), and the folder's settings say nothing of either
\* (settings.go:222): for every environment, every settings file and profile.
THEOREM SpecCredentialFromItsOwner == Spec => []CredentialFromItsOwner
<1>1. PostureInv => CredentialFromItsOwner
  <2> SUFFICES ASSUME PostureInv, NEW r \in Posture
               PROVE  LET o == [opts EXCEPT !.profile = r.profile]
                          trusted == Provider(o, Without(docs, {"project", "local"}))
                      IN /\ OwnSecrets(r) # {} => {c.value : c \in r.credential} = OwnSecrets(r)
                         /\ r.base = APIBase(o, trusted)
                         /\ r.credential = Credential(OverlaidEnv(o), trusted)
    BY DEF CredentialFromItsOwner
  <2> DEFINE o == With(r.profile)
  <2>1. r \in ResolveProfile(o, docs) /\ OneAuth(r.profile) /\ o.profile = r.profile
    BY WithFacts DEF PostureInv
  <2>2. OwnSecrets(r) = Secret(o)
    BY DEF OwnSecrets, With
  <2>3. o = [opts EXCEPT !.profile = r.profile]
    BY DEF With
  <2> HIDE DEF o
  <2>4. /\ r.base = APIBase(o, Provider(o, docs))
        /\ r.credential = Credential(OverlaidEnv(o), Provider(o, docs))
    BY <2>1, Resolved
  <2>5. \A a, b \in Auth(o) : a = b
    BY <2>1 DEF OneAuth, Auth
  <2>6. Secret(o) # {} => {c.value : c \in r.credential} = Secret(o)
    BY <2>4, <2>5, SecretIsCredential
  <2> QED BY <2>2, <2>3, <2>4, <2>6, FolderUnheard
<1> QED BY <1>1, PostureInvariant, PTL

\* A switch back to the launch's profile is back at the launch's posture
\* (main.go:217), whatever the user made of the files meanwhile.
THEOREM SpecBackAsLaunched == Spec => []BackAsLaunched
<1>1. PostureInv => BackAsLaunched
  BY AtMostOne DEF PostureInv, Posture, BackAsLaunched
<1> QED BY <1>1, PostureInvariant, PTL

-----------------------------------------------------------------------------
(* The way of Claude Code's requests. *)

Spawned == {"ForwardSignals", "Attach", "Wait", "teardown", "done", "died"}

\* The child's environment and settings are what was made of the resolution.
Written ==
  /\ generated = MergeUserSettings(FlagDoc(docs), InjectedEnv)
  /\ child = BuildChildEnv(opts, CHOOSE r \in pre : TRUE, tz)

\* A resolution that was accepted has no way past ccwrap, and stays what the
\* launch and its child are made of.
WayInv ==
  /\ IsDoc(FlagDoc(docs))
  /\ \A r \in pre : ~LaunchBypass(r, opts, docs, disk.stores)
  /\ \A q, r \in pre : q = r
  /\ step \in Steps => pre # {}
  /\ claude = "running" => step \in Spawned /\ pre # {}
  /\ step = "SpawnChild" \/ claude = "running" => Written

\* The settings with the generated ones in the place of the flag's.
Beside(gen, d) == Atop([s \in {"flag"} |-> gen], d)

\* With nothing of these keys in its environment and its generated settings,
\* Claude Code reads of them what the check read.
LEMMA ClaudeReads ==
  ASSUME NEW env, NEW gen, NEW d, NEW keys, NEW k \in keys,
         \A j \in keys : j \notin DOMAIN env /\ j \notin DOMAIN gen.env
  PROVE  At(Layered(env, Beside(gen, d), ClaudeOrder, keys), k) = At(ClaudeAppliedEnv(d, keys), k)
<1> DEFINE w == Beside(gen, d)
           S == Setting(w, ClaudeOrder, k)
           T == Setting(d, AppliedOrder, k)
           Place(i) == IF i <= 4 THEN i ELSE i + 1
<1> SUFFICES At(Layered(env, w, ClaudeOrder, keys), k) = At(ClaudeAppliedEnv(d, keys), k)
  OBVIOUS
<1>1. /\ DOMAIN ClaudeOrder = 1..7 /\ DOMAIN AppliedOrder = 1..6
      /\ \A i \in 1..6 : ClaudeOrder[Place(i)] = AppliedOrder[i] /\ AppliedOrder[i] # "flag"
      /\ ClaudeOrder[5] = "flag"
  BY DEF ClaudeOrder, AppliedOrder
<1>2. \A i \in 1..7 : i # 5 => \E j \in 1..6 : i = Place(j)
  <2> TAKE i \in 1..7
  <2>1. CASE i <= 4
    BY <2>1
  <2>2. CASE i >= 6
    <3>1. i - 1 \in 1..6 /\ i = Place(i - 1)
      BY <2>2
    <3> QED BY <3>1
  <2> QED BY <2>1, <2>2
<1>3. /\ DOMAIN w = {"flag"} \union DOMAIN d /\ w["flag"] = gen
      /\ \A s \in DOMAIN d \ {"flag"} : w[s] = d[s]
  BY DEF Beside, Atop
<1> HIDE DEF w
<1>4. S \subseteq 1..7 /\ T \subseteq 1..6 /\ T \subseteq 1..7 /\ 5 \notin S
  BY <1>1, <1>3 DEF Setting
<1>5. \A i \in 1..6 : i \in T <=> Place(i) \in S
  BY <1>1, <1>3 DEF Setting
<1>6. (S = {}) <=> (T = {})
  BY <1>2, <1>4, <1>5
<1>7. ASSUME T # {}
      PROVE  w[ClaudeOrder[Max(S)]].env[k] = d[AppliedOrder[Max(T)]].env[k]
  <2>1. Max(T) \in T /\ \A y \in T : Max(T) >= y
    <3> HIDE DEF T
    <3> QED BY <1>4, <1>7, MaxOf
  <2>2. Max(S) \in S /\ \A y \in S : Max(S) >= y
    <3> HIDE DEF S, T
    <3> QED BY <1>4, <1>6, <1>7, MaxOf
  <2>3. Max(S) = Place(Max(T))
    <3> HIDE DEF S, T
    <3>1. PICK j \in 1..6 : Max(S) = Place(j)
      BY <1>2, <1>4, <2>2
    <3>2. j \in T /\ Place(Max(T)) \in S /\ Max(T) \in 1..6
      BY <1>4, <1>5, <2>1, <2>2, <3>1
    <3>3. Max(T) >= j /\ Place(j) >= Place(Max(T))
      BY <2>1, <2>2, <3>1, <3>2
    <3> QED BY <3>1, <3>2, <3>3
  <2>4. Max(T) \in 1..6 /\ AppliedOrder[Max(T)] \in DOMAIN d
    BY <2>1, <1>1 DEF Setting
  <2> HIDE DEF S, T, Place
  <2>5. ClaudeOrder[Max(S)] = AppliedOrder[Max(T)]
    BY <1>1, <2>3, <2>4
  <2> QED BY <1>1, <1>3, <2>4, <2>5
<1>8. At(Layered(env, w, ClaudeOrder, keys), k)
        = IF S # {} THEN w[ClaudeOrder[Max(S)]].env[k] ELSE ""
  BY DEF At, Layered, Atop
<1>9. At(ClaudeAppliedEnv(d, keys), k) = IF T # {} THEN d[AppliedOrder[Max(T)]].env[k] ELSE ""
  BY DEF At, ClaudeAppliedEnv, Layered, Atop, NoEnv
<1> DEFINE u == w[ClaudeOrder[Max(S)]].env[k]
           v == d[AppliedOrder[Max(T)]].env[k]
<1>10. /\ At(Layered(env, w, ClaudeOrder, keys), k) = IF S # {} THEN u ELSE ""
       /\ At(ClaudeAppliedEnv(d, keys), k) = IF T # {} THEN v ELSE ""
       /\ T # {} => u = v
  BY <1>7, <1>8, <1>9
<1> DEFINE left == At(Layered(env, w, ClaudeOrder, keys), k)
           right == At(ClaudeAppliedEnv(d, keys), k)
<1> SUFFICES left = right
  OBVIOUS
<1> HIDE DEF S, T, u, v, left, right
<1>11. CASE T = {}
  <2>1. S = {} /\ ~(S # {}) /\ ~(T # {})
    BY <1>6, <1>11
  <2> QED BY <1>10, <2>1 DEF left, right
<1>12. CASE T # {}
  <2>1. S # {}
    BY <1>6, <1>12
  <2> QED BY <1>10, <1>12, <2>1 DEF left, right
<1> QED BY <1>11, <1>12

\* What selects an SDK profile is what it was when the check read it, if the
\* child's environment and the generated settings kept it.
LEMMA SelectorsStay ==
  ASSUME NEW env, NEW own, NEW gen, NEW d,
         Picked(env, SelectorKeys) = Picked(own, SelectorKeys),
         \A k \in SelectorKeys :
           /\ k \in DOMAIN gen.env <=> k \in DOMAIN FlagDoc(d).env
           /\ k \in DOMAIN gen.env => gen.env[k] = FlagDoc(d).env[k]
  PROVE  TrustedEnv(env, Beside(gen, d), SelectorKeys) = TrustedEnv(own, d, SelectorKeys)
<1> DEFINE w == Beside(gen, d)
           T(k) == Setting(d, TrustedOrder, k)
<1>1. DOMAIN TrustedOrder = 1..5
  BY DEF TrustedOrder
<1>2. /\ DOMAIN w = {"flag"} \union DOMAIN d /\ w["flag"] = gen
      /\ \A s \in DOMAIN d \ {"flag"} : w[s] = d[s]
  BY DEF Beside, Atop
<1> HIDE DEF w
<1>3. \A s, k : s \in DOMAIN w /\ k \in SelectorKeys =>
        /\ k \in DOMAIN w[s].env <=> s \in DOMAIN d /\ k \in DOMAIN d[s].env
        /\ k \in DOMAIN w[s].env => w[s].env[k] = d[s].env[k]
  BY <1>2 DEF FlagDoc, NoDoc, NoEnv
<1>4. \A k \in SelectorKeys : Setting(w, TrustedOrder, k) = T(k)
  BY <1>1, <1>2, <1>3 DEF Setting
<1>5. ASSUME NEW k \in SelectorKeys, T(k) # {}
      PROVE  w[TrustedOrder[Max(T(k))]].env[k] = d[TrustedOrder[Max(T(k))]].env[k]
  <2>1. T(k) \subseteq 1..7
    BY <1>1 DEF Setting
  <2>2. Max(T(k)) \in T(k)
    <3> DEFINE S == T(k)
    <3> SUFFICES Max(S) \in S
      OBVIOUS
    <3>1. S \subseteq 1..7 /\ S # {}
      BY <1>5, <2>1
    <3> HIDE DEF S
    <3> QED BY <3>1, MaxOf
  <2>3. TrustedOrder[Max(T(k))] \in DOMAIN d /\ k \in DOMAIN d[TrustedOrder[Max(T(k))]].env
    BY <2>2 DEF Setting
  <2> HIDE DEF T
  <2> QED BY <1>2, <1>3, <2>3
<1> DEFINE ks == SelectorKeys
           named == {k \in ks : T(k) # {}}
           low == [k \in named |-> d[TrustedOrder[Max(T(k))]].env[k]]
<1>6. \A e : Layered(e, w, TrustedOrder, ks) = Atop(low, e)
  <2>1. {k \in ks : Setting(w, TrustedOrder, k) # {}} = named
    BY <1>4
  <2>2. [k \in named |-> w[TrustedOrder[Max(Setting(w, TrustedOrder, k))]].env[k]] = low
    BY <1>4, <1>5
  <2> QED BY <2>1, <2>2 DEF Layered
<1>7. \A e : Layered(e, d, TrustedOrder, ks) = Atop(low, e)
  BY DEF Layered
<1> QED BY <1>6, <1>7 DEF TrustedEnv, w

\* The routing and credentials a child must not find.
Routing == ControlKeys \union InternalKeys
PlaceholderKeys == {"ANTHROPIC_AUTH_TOKEN", "CLAUDE_CODE_PROVIDER_MANAGED_BY_HOST"}

\* A resolution sets no variable but the model's.
LEMMA ModelEnvKeys ==
  ASSUME NEW o, NEW d, NEW r \in ResolveProfile(o, d)
  PROVE  DOMAIN r.modelEnv \subseteq ModelKeys
<1> DEFINE m == ModelEnv(o, d, AliasOf(o, d), StrictOf(o, d))
<1>1. DOMAIN m \subseteq ModelKeys
  <2> DEFINE env == EffectiveModelEnv(OverlaidEnv(o), d)
  <2>1. DOMAIN env \subseteq ModelKeys
    BY DEF EffectiveModelEnv, Layered, Atop, Picked
  <2> HIDE DEF env
  <2>2. DOMAIN m = DOMAIN env
    BY DEF ModelEnv, env
  <2> QED BY <2>1, <2>2
<1> HIDE DEF m
<1>2. DOMAIN r.modelEnv = DOMAIN m
  BY OutcomeOfParts, OutcomeFields DEF m
<1> QED BY <1>1, <1>2

\* Of routing and credentials a child gets the placeholder with its flag, if
\* any; what selects an SDK profile stays as it is.
LEMMA ChildKeys ==
  ASSUME NEW o, NEW r, NEW zone, DOMAIN r.modelEnv \subseteq ModelKeys
  PROVE  LET c == BuildChildEnv(o, r, zone)
         IN /\ DOMAIN c \intersect Routing
                 = IF r.bootstrap = "placeholder" THEN PlaceholderKeys ELSE {}
            /\ r.bootstrap = "placeholder" =>
                 /\ c["ANTHROPIC_AUTH_TOKEN"] = "placeholder"
                 /\ c["CLAUDE_CODE_PROVIDER_MANAGED_BY_HOST"] = "1"
            /\ Picked(c, SelectorKeys) = Picked(o.env, SelectorKeys)
<1> DEFINE c == BuildChildEnv(o, r, zone)
           low == Atop(ClaudeReminderOffEnv(r.alias, o.env),
                       Atop(r.modelEnv, Without(o.env, ScrubKeys)))
           mid == Atop(Bootstrap(r), low)
           high == Atop(InjectedEnv, mid)
<1>1. /\ DOMAIN low \intersect Routing = {}
      /\ \A k \in SelectorKeys : k \in DOMAIN low <=> k \in DOMAIN o.env
      /\ \A k \in SelectorKeys : k \in DOMAIN o.env => low[k] = o.env[k]
  <2>1. /\ DOMAIN low = DOMAIN ClaudeReminderOffEnv(r.alias, o.env) \union DOMAIN r.modelEnv
                          \union (DOMAIN o.env \ ScrubKeys)
        /\ \A k \in DOMAIN o.env \ ScrubKeys :
             k \notin DOMAIN ClaudeReminderOffEnv(r.alias, o.env) /\ k \notin DOMAIN r.modelEnv
               => low[k] = o.env[k]
    BY DEF Atop, Without
  <2>2. DOMAIN ClaudeReminderOffEnv(r.alias, o.env) \subseteq {ReminderKey}
    BY DEF ClaudeReminderOffEnv
  <2>3. /\ ReminderKey \notin Routing \union SelectorKeys
        /\ ModelKeys \intersect (Routing \union SelectorKeys) = {}
        /\ Routing \subseteq ScrubKeys /\ ScrubKeys \intersect SelectorKeys = {}
    BY DEF ReminderKey, Routing, SelectorKeys, ModelKeys, ScrubKeys, ControlKeys, InternalKeys,
       RoutingAuthKeys, CredentialKeys, SelectionKeys, UpstreamKeys, UnsupportedKeys,
       NetworkKeys, ProxyKeys, TrustKeys
  <2> HIDE DEF low
  <2> QED BY <2>1, <2>2, <2>3
<1> HIDE DEF low
<1>2. /\ DOMAIN mid = DOMAIN Bootstrap(r) \union DOMAIN low
      /\ \A k \in DOMAIN Bootstrap(r) : mid[k] = Bootstrap(r)[k]
      /\ \A k \in DOMAIN low \ DOMAIN Bootstrap(r) : mid[k] = low[k]
  BY DEF Atop
<1>3. /\ DOMAIN Bootstrap(r) = IF r.bootstrap = "placeholder" THEN PlaceholderKeys ELSE {}
      /\ r.bootstrap = "placeholder" =>
           /\ Bootstrap(r)["ANTHROPIC_AUTH_TOKEN"] = "placeholder"
           /\ Bootstrap(r)["CLAUDE_CODE_PROVIDER_MANAGED_BY_HOST"] = "1"
  BY DEF Bootstrap, PlaceholderKeys
<1> HIDE DEF mid
<1>4. /\ DOMAIN high = DOMAIN InjectedEnv \union DOMAIN mid
      /\ \A k \in DOMAIN mid \ DOMAIN InjectedEnv : high[k] = mid[k]
  BY DEF Atop
<1> HIDE DEF high
<1>5. /\ DOMAIN c = DOMAIN TimezoneEnv(zone) \union DOMAIN high
      /\ \A k \in DOMAIN high \ DOMAIN TimezoneEnv(zone) : c[k] = high[k]
  BY DEF Atop, BuildChildEnv, high, mid, low
<1>6. /\ DOMAIN TimezoneEnv(zone) \union DOMAIN InjectedEnv
           \subseteq {"TZ", "HTTPS_PROXY", "NODE_EXTRA_CA_CERTS", "CLAUDE_CODE_GZIP_REQUEST_BODIES"}
  BY DEF TimezoneEnv, InjectedEnv
<1>7. /\ {"TZ", "HTTPS_PROXY", "NODE_EXTRA_CA_CERTS", "CLAUDE_CODE_GZIP_REQUEST_BODIES"}
           \intersect (Routing \union SelectorKeys) = {}
      /\ PlaceholderKeys \subseteq Routing /\ PlaceholderKeys \intersect SelectorKeys = {}
  BY DEF Routing, SelectorKeys, ControlKeys, InternalKeys, RoutingAuthKeys, CredentialKeys,
     SelectionKeys, UpstreamKeys, PlaceholderKeys
<1> HIDE DEF c
<1>8. DOMAIN c \intersect Routing = IF r.bootstrap = "placeholder" THEN PlaceholderKeys ELSE {}
  BY <1>1, <1>2, <1>3, <1>4, <1>5, <1>6, <1>7
<1>9. ASSUME r.bootstrap = "placeholder"
      PROVE  /\ c["ANTHROPIC_AUTH_TOKEN"] = "placeholder"
             /\ c["CLAUDE_CODE_PROVIDER_MANAGED_BY_HOST"] = "1"
  <2>1. \A k \in PlaceholderKeys : c[k] = Bootstrap(r)[k]
    BY <1>2, <1>3, <1>4, <1>5, <1>6, <1>7, <1>9
  <2> QED BY <1>3, <1>9, <2>1 DEF PlaceholderKeys
<1>10. \A k \in SelectorKeys : /\ k \in DOMAIN c <=> k \in DOMAIN o.env
                               /\ k \in DOMAIN c => c[k] = o.env[k]
  BY <1>1, <1>2, <1>3, <1>4, <1>5, <1>6, <1>7
<1>11. Picked(c, SelectorKeys) = Picked(o.env, SelectorKeys)
  <2>1. DOMAIN c \intersect SelectorKeys = DOMAIN o.env \intersect SelectorKeys
    BY <1>10
  <2> QED BY <1>10, <2>1 DEF Picked
<1> QED BY <1>8, <1>9, <1>11 DEF c

\* Of routing and credentials the generated settings say nothing; what selects
\* an SDK profile they say as the user's.
LEMMA GeneratedKeys ==
  ASSUME NEW doc, IsDoc(doc)
  PROVE  LET env == MergeUserSettings(doc, InjectedEnv).env
         IN /\ DOMAIN env \intersect Routing = {}
            /\ \A k \in SelectorKeys : /\ k \in DOMAIN env <=> k \in DOMAIN doc.env
                                       /\ k \in DOMAIN env => env[k] = doc.env[k]
<1> DEFINE env == Atop(InjectedEnv, Without(doc.env, StripKeys))
<1>1. MergeUserSettings(doc, InjectedEnv).env = env
  BY DEF MergeUserSettings, IsDoc, NoDoc
<1>2. /\ DOMAIN env = DOMAIN InjectedEnv \union (DOMAIN doc.env \ StripKeys)
      /\ \A k \in DOMAIN doc.env \ StripKeys : k \notin DOMAIN InjectedEnv => env[k] = doc.env[k]
  BY DEF Atop, Without
<1>3. /\ DOMAIN InjectedEnv \intersect (Routing \union SelectorKeys) = {}
      /\ Routing \subseteq StripKeys /\ StripKeys \intersect SelectorKeys = {}
  BY DEF InjectedEnv, Routing, SelectorKeys, ModelKeys, StripKeys, ScrubKeys, ControlKeys,
     InternalKeys, RoutingAuthKeys, CredentialKeys, SelectionKeys, UpstreamKeys,
     UnsupportedKeys, NetworkKeys, ProxyKeys, TrustKeys
<1> HIDE DEF env
<1> QED BY <1>1, <1>2, <1>3

\* An accepted launch sends its Claude Code to the Anthropic API's name, with
\* the placeholder at most.
LEMMA AcceptedStays ==
  ASSUME NEW o, NEW d, NEW r \in ResolveProfile(o, d), NEW p, NEW zone, NEW stores,
         IsDoc(FlagDoc(d)), ~LaunchBypass(r, p, d, stores)
  PROVE  LET c == BuildChildEnv(p, r, zone)
             gen == MergeUserSettings(FlagDoc(d), InjectedEnv)
         IN ClaudeTarget(c, Beside(gen, d), stores) = {"anthropic"}
<1> DEFINE c == BuildChildEnv(p, r, zone)
           gen == MergeUserSettings(FlagDoc(d), InjectedEnv)
           keys == SelectionKeys \union {"ANTHROPIC_BASE_URL"}
           env == Layered(c, Beside(gen, d), ClaudeOrder, keys)
           applied == ClaudeAppliedEnv(d, keys)
           signedIn == ActiveAnthropicProfile(TrustedEnv(c, Beside(gen, d), SelectorKeys), stores)
           base == At(env, "ANTHROPIC_BASE_URL")
           host == "CLAUDE_CODE_PROVIDER_MANAGED_BY_HOST"
<1> SUFFICES ClaudeTarget(c, Beside(gen, d), stores) = {"anthropic"}
  OBVIOUS
<1>1. /\ DOMAIN c \intersect Routing = IF r.bootstrap = "placeholder" THEN PlaceholderKeys ELSE {}
      /\ r.bootstrap = "placeholder" => c[host] = "1"
      /\ Picked(c, SelectorKeys) = Picked(p.env, SelectorKeys)
  BY ModelEnvKeys, ChildKeys
<1>2. /\ DOMAIN gen.env \intersect Routing = {}
      /\ \A k \in SelectorKeys :
           /\ k \in DOMAIN gen.env <=> k \in DOMAIN FlagDoc(d).env
           /\ k \in DOMAIN gen.env => gen.env[k] = FlagDoc(d).env[k]
  BY GeneratedKeys
<1> HIDE DEF c, gen
<1>3. ClaudeTarget(c, Beside(gen, d), stores)
        = IF At(c, host) = "1" THEN {"anthropic"}
          ELSE IF \E k \in SelectionKeys : At(env, k) \notin {"", "0"} THEN {"another provider"}
          ELSE IF base # "" THEN {base}
          ELSE {IF q.base = "" THEN "anthropic" ELSE q.base : q \in signedIn}
               \union {u \in {"anthropic"} : signedIn = {}}
  BY DEF ClaudeTarget
<1>4. CASE r.bootstrap = "placeholder"
  <2>1. At(c, host) = "1"
    BY <1>1, <1>4 DEF At, PlaceholderKeys
  <2> QED BY <1>3, <2>1
<1>5. CASE r.bootstrap # "placeholder"
  <2>1. keys \subseteq Routing /\ host \in Routing
    BY DEF Routing, ControlKeys, RoutingAuthKeys
  <2>2. At(c, host) = ""
    BY <1>1, <1>5, <2>1 DEF At
  <2>3. \A k \in keys : At(env, k) = At(applied, k)
    <3>1. \A j \in keys : j \notin DOMAIN c /\ j \notin DOMAIN gen.env
      BY <1>1, <1>2, <1>5, <2>1
    <3> HIDE DEF keys
    <3> QED BY <3>1, ClaudeReads
  <2>4. signedIn = LaunchAnthropicProfile(p, d, stores)
    BY <1>1, <1>2, SelectorsStay DEF LaunchAnthropicProfile
  <2>5. /\ \A k \in DOMAIN applied : ~MovesClaudeOffAnthropic(k, applied[k])
        /\ \A q \in signedIn : ~LeavesAnthropicAPI(q.base)
    BY <1>5, <2>4 DEF LaunchBypass, ClaudeSettingsBypasses
  <2> HIDE DEF env, applied, signedIn
  <2>6. \A k \in SelectionKeys : At(env, k) \in {"", "0"}
    BY <2>3, <2>5 DEF At, MovesClaudeOffAnthropic, SelectionKeys
  <2>7. base \in {"", "anthropic"}
    BY <2>3, <2>5 DEF At, MovesClaudeOffAnthropic, LeavesAnthropicAPI, ClassifyRoute
  <2>8. \A q \in signedIn : q.base \in {"", "anthropic"}
    BY <2>5 DEF LeavesAnthropicAPI, ClassifyRoute
  <2>9. {IF q.base = "" THEN "anthropic" ELSE q.base : q \in signedIn}
          \union {u \in {"anthropic"} : signedIn = {}} = {"anthropic"}
    BY <2>8
  <2> QED BY <1>3, <2>2, <2>6, <2>7, <2>9
<1> QED BY <1>4, <1>5

\* A step of the launcher's own, or of its surroundings, on the way.
LEMMA PlainWays ==
  ASSUME PlainSteps \/ Environment
  PROVE  /\ step' \in Steps => step \in Steps
         /\ step' = "SpawnChild" => step = "SpawnChild"
         /\ claude' = "running" => claude = "running"
         /\ step \in Spawned => step' \in Spawned
<1> USE DEF Goes, Fails, Steps, Spawned
<1>1. CASE \/ SweepScans \/ SweepRemoves \/ ResolveClaudeBin \/ PreparePaths \/ EnsuresCA
           \/ StartSupervisor \/ AwaitControl \/ ForwardSignalsToChild \/ Attach \/ Wait
           \/ Rollback \/ Exit
  BY <1>1 DEF SweepScans, SweepRemoves, ResolveClaudeBin, PreparePaths, EnsuresCA,
     StartSupervisor, AwaitControl, ForwardSignalsToChild, Attach, Wait, Rollback, Exit, Cleans
<1>2. CASE \/ SupervisorServes \/ SupervisorReturns \/ HardKill \/ Signal \/ RelaySignal
           \/ GapPasses \/ GraceOver \/ ClaudeExits
  BY <1>2 DEF SupervisorServes, SupervisorReturns, HardKill, Signal, RelaySignal, GapPasses,
     GraceOver, ClaudeExits, Interrupts, Dies
<1>3. CASE \/ MonitorEndsSession \/ HandlesClose \/ Announces \/ WritesBody
           \/ RequestStop \/ HandleShutdown \/ WaitForSessionStop
           \/ GcScans \/ GcRemoves \/ Other
  BY <1>3 DEF MonitorEndsSession, HandlesClose, Announces, WritesBody, RequestStop, HandleShutdown,
     WaitForSessionStop, GcScans, GcRemoves, Other, OtherPrepares, OtherEnsuresCA,
     OtherWritesManifest, OtherEnds, launcherVars, Interrupts, Dies
<1> QED BY <1>1, <1>2, <1>3 DEF PlainSteps, Environment

\* A launch starts with nothing resolved and no Claude Code.
LEMMA WayStarts == Init => WayInv
<1> SUFFICES ASSUME Init PROVE WayInv
  OBVIOUS
<1>1. IsDoc(NoDoc)
  BY DEF IsDoc, NoDoc
<1>2. FlagDoc(docs) = NoDoc
  BY DEF Init, FlagDoc, NoEnv
<1> QED BY <1>1, <1>2 DEF Init, LauncherInit, WayInv, Steps

\* The users' SDK profiles stay as the launch read them.
StoresStay == \A d : \A e \in Edits(d) : e.stores = d.stores

LEMMA WaySteps ==
  ASSUME StoresStay, PostureInv, WayInv, [Next]_vars
  PROVE  WayInv'
<1>1. CASE /\ UNCHANGED launchVars
           /\ step' \in Steps => step \in Steps
           /\ step' = "SpawnChild" => step = "SpawnChild"
           /\ claude' = "running" => claude = "running"
           /\ step \in Spawned => step' \in Spawned
  BY <1>1 DEF launchVars, WayInv, Written
<1>2. CASE ResolveLaunchProfile
  <2>1. /\ step = "compose" /\ step' \in {"inspect", "done"}
        /\ UNCHANGED <<claude, docs, pre>> /\ disk'.stores = disk.stores /\ pre = {}
    BY <1>2 DEF ResolveLaunchProfile, PostureInv, Unposed, Continues, Returns, Goes, Unopened,
       IsDisk
  <2> QED BY <2>1 DEF WayInv, Steps, Spawned
<1>3. CASE InspectLaunch
  <2>1. /\ step = "inspect" /\ step' \in {"snapshot", "done"}
        /\ UNCHANGED <<claude, disk, opts, pre>> /\ pre = {}
        /\ docs' = docs \/ docs' = Docs(disk.settings, opts.args)
    BY <1>3 DEF InspectLaunch, PostureInv, Unposed, Continues, Returns, Goes, Unopened
  <2>2. IsDoc(FlagDoc(Docs(disk.settings, opts.args)))
    <3>1. /\ "flag" \notin DOMAIN disk.settings
          /\ opts.args.settings # <<>> => IsDoc(opts.args.settings[1])
      BY DEF PostureInv, IsDisk, IsOptions
    <3>2. IsDoc(NoDoc)
      BY DEF IsDoc, NoDoc
    <3> QED BY <3>1, <3>2 DEF FlagDoc, Docs, ActiveSources
  <2> QED BY <2>1, <2>2 DEF WayInv, Steps, Spawned
<1>4. CASE Snapshots
  <2>1. /\ step = "snapshot" /\ step' \in {"resolve", "done"}
        /\ UNCHANGED <<claude, disk, docs, pre>> /\ pre = {}
    BY <1>4 DEF Snapshots, PostureInv, Unposed, Continues, Returns, Goes, Unopened
  <2> QED BY <2>1 DEF WayInv, Steps, Spawned
<1>5. CASE RunWithInspection
  <2>1. /\ step = "resolve" /\ UNCHANGED <<claude, disk, docs, opts>> /\ pre = {}
        /\ \/ step' = "done" /\ pre' = pre
           \/ step' = "ResolveClaudeBin" /\ pre' = Accepted /\ Accepted # {}
    BY <1>5 DEF RunWithInspection, PostureInv, Unposed, Continues, Returns, Goes, Unopened
  <2>2. /\ \A r \in Accepted : ~LaunchBypass(r, opts, docs, disk.stores)
        /\ \A q, r \in Accepted : q = r
    BY AtMostOne DEF Accepted
  <2> QED BY <2>1, <2>2 DEF WayInv, Steps, Spawned
<1>6. CASE CreateSession /\ PublishesPosture
  <2>1. /\ UNCHANGED <<claude, disk, docs, pre, opts, tz, child, generated>>
        /\ step = "CreateSession" /\ step' \in {"WriteSessionSettings", "teardown"}
    BY <1>6 DEF CreateSession, PublishesPosture, Goes, Fails
  <2> QED BY <2>1 DEF WayInv, Steps, Spawned
<1>7. CASE WritesSessionSettings
  <2>1. /\ UNCHANGED <<claude, disk, docs, pre, opts, tz>> /\ Written'
        /\ step = "WriteSessionSettings" /\ step' \in {"SpawnChild", "teardown"}
    BY <1>7 DEF WritesSessionSettings, WriteSessionSettings, Written, Goes, Fails
  <2> QED BY <2>1 DEF WayInv, Steps, Spawned
<1>8. CASE SpawnChild /\ UNCHANGED launchVars
  <2>1. /\ UNCHANGED launchVars /\ step = "SpawnChild"
        /\ \/ step' = "ForwardSignals"
           \/ step' = "teardown" /\ claude' = claude
    BY <1>8 DEF SpawnChild, Goes, Fails
  <2> QED BY <2>1 DEF WayInv, Written, Steps, Spawned, launchVars
<1>9. CASE UserEdits
  <2>1. /\ UNCHANGED <<step, claude, docs, pre, opts, tz, child, generated>>
        /\ disk'.stores = disk.stores
    BY <1>9 DEF UserEdits, launcherVars, StoresStay
  <2> QED BY <2>1 DEF WayInv, Written
<1>10. ASSUME NEW name, SwitchProfile(name)
       PROVE  WayInv'
  <2>1. UNCHANGED <<step, claude, disk, docs, pre, opts, tz, child, generated>>
    BY <1>10 DEF SwitchProfile, launcherVars
  <2> QED BY <2>1 DEF WayInv, Written
<1>11. CASE UNCHANGED vars
  BY <1>11, <1>1 DEF vars, launcherVars
<1> QED BY <1>1, <1>2, <1>3, <1>4, <1>5, <1>6, <1>7, <1>8, <1>9, <1>10, <1>11, PlainWays
        DEF Next, LaunchStep

\* Claude Code's requests come to ccwrap (claude_settings_route.go:64), and of
\* secrets it has the placeholder at most (preflight.go:308), for every
\* environment, every settings file and SDK profile, as long as the profiles
\* stay as the launch read them: ccwrap does not look at them again.
THEOREM SpecNoWayAround ==
  ASSUME StoresStay
  PROVE  Spec => []NoWayAround
<1>1. PostureInv /\ WayInv => NoWayAround
  <2> SUFFICES ASSUME PostureInv, WayInv, claude = "running"
               PROVE  /\ ClaudeTarget(child, Atop([s \in {"flag"} |-> generated], docs), disk.stores)
                           = {"anthropic"}
                      /\ OnlyThePlaceholder
    BY DEF NoWayAround
  <2>1. PICK r : r \in pre /\ r = CHOOSE q \in pre : TRUE
    BY DEF WayInv
  <2>2. r \in ResolveProfile(With(r.profile), docs) /\ \A q \in pre : q = r
    BY <2>1 DEF PostureInv, Posture, WayInv
  <2>3. /\ generated = MergeUserSettings(FlagDoc(docs), InjectedEnv)
        /\ child = BuildChildEnv(opts, r, tz)
        /\ IsDoc(FlagDoc(docs)) /\ ~LaunchBypass(r, opts, docs, disk.stores)
    BY <2>1 DEF WayInv, Written
  <2>4. ClaudeTarget(child, Beside(generated, docs), disk.stores) = {"anthropic"}
    BY <2>2, <2>3, AcceptedStays
  <2>5. OnlyThePlaceholder
    <3> DEFINE seen == Atop(generated.env, child)
    <3>1. /\ DOMAIN generated.env \intersect Routing = {}
          /\ DOMAIN child \intersect Routing
               = IF r.bootstrap = "placeholder" THEN PlaceholderKeys ELSE {}
          /\ r.bootstrap = "placeholder" => child["ANTHROPIC_AUTH_TOKEN"] = "placeholder"
      BY <2>2, <2>3, GeneratedKeys, ModelEnvKeys, ChildKeys
    <3>2. /\ DOMAIN seen = DOMAIN generated.env \union DOMAIN child
          /\ \A k \in DOMAIN child : k \notin DOMAIN generated.env => seen[k] = child[k]
      BY DEF Atop
    <3> HIDE DEF seen
    <3>3. /\ DOMAIN seen \intersect Routing
               = IF r.bootstrap = "placeholder" THEN PlaceholderKeys ELSE {}
          /\ "ANTHROPIC_AUTH_TOKEN" \in PlaceholderKeys /\ PlaceholderKeys \subseteq Routing
      BY <3>1, <3>2 DEF PlaceholderKeys, Routing, ControlKeys, RoutingAuthKeys, CredentialKeys
    <3>4. r.bootstrap = "placeholder" => seen["ANTHROPIC_AUTH_TOKEN"] = "placeholder"
      BY <3>1, <3>2, <3>3
    <3> QED BY <2>1, <2>2, <3>3, <3>4 DEF OnlyThePlaceholder, PlaceholderKeys, Routing, seen
  <2> QED BY <2>4, <2>5 DEF Beside
<1>2. Init => PostureInv /\ WayInv
  BY PostureStarts, WayStarts
<1>3. PostureInv /\ WayInv /\ [Next]_vars => (PostureInv /\ WayInv)'
  BY PostureSteps, WaySteps
<1> QED BY <1>1, <1>2, <1>3, PTL DEF Spec

=============================================================================
