--------------------------- MODULE ProfilesProofs ---------------------------
(***************************************************************************)
(* Proofs about ProfilesWriters.                                           *)
(***************************************************************************)
EXTENDS ProfilesWriters, TLAPS

USE DEF ProfileMaps

\* A map is a function on some names.
LEMMA MapIs == ASSUME NEW g \in ProfileMaps
               PROVE  /\ DOMAIN g \in SUBSET Names
                      /\ g \in [DOMAIN g -> Profile]
OBVIOUS

\* Adding or replacing a profile of a file gives a file.
LEMMA WithIsFile ==
  ASSUME NEW f \in Files, NEW n \in Names, NEW p \in Profile
  PROVE  /\ With(f, n, p) \in Files
         /\ With(f, n, p).default = f.default
         /\ NamesIn(With(f, n, p)) = NamesIn(f) \cup {n}
         /\ With(f, n, p).profiles[n] = p
         /\ \A m \in NamesIn(f) : m # n => With(f, n, p).profiles[m] = f.profiles[m]
<1> DEFINE S == NamesIn(f) \cup {n}
           g == [m \in S |-> IF m = n THEN p ELSE f.profiles[m]]
<1>1. f.profiles \in ProfileMaps /\ f.default \in Defaults /\ f # NoFile
  BY NoFileAssumption DEF Files
<1>2. NamesIn(f) = DOMAIN f.profiles
  BY <1>1 DEF NamesIn
<1>3. S \in SUBSET Names /\ \A m \in NamesIn(f) : f.profiles[m] \in Profile
  BY <1>1, <1>2, MapIs
<1>4. g \in [S -> Profile]
  BY <1>3
<1>5. g \in ProfileMaps
  BY <1>3, <1>4
<1>6. With(f, n, p) = [default |-> f.default, profiles |-> g]
  BY DEF With, Files
<1>7. With(f, n, p) \in Files
  BY <1>1, <1>5, <1>6 DEF Files
<1>8. NamesIn(With(f, n, p)) = S
  BY <1>6, <1>7, NoFileAssumption DEF NamesIn
<1> QED BY <1>2, <1>6, <1>7, <1>8

\* So does removing one.
LEMMA WithoutIsFile ==
  ASSUME NEW f \in Files, NEW n \in Names
  PROVE  /\ Without(f, n) \in Files
         /\ Without(f, n).default = f.default
         /\ NamesIn(Without(f, n)) = NamesIn(f) \ {n}
         /\ \A m \in NamesIn(f) \ {n} : Without(f, n).profiles[m] = f.profiles[m]
<1> DEFINE S == NamesIn(f) \ {n}
           g == [m \in S |-> f.profiles[m]]
<1>1. f.profiles \in ProfileMaps /\ f.default \in Defaults /\ f # NoFile
  BY NoFileAssumption DEF Files
<1>2. NamesIn(f) = DOMAIN f.profiles
  BY <1>1 DEF NamesIn
<1>3. S \in SUBSET Names /\ \A m \in NamesIn(f) : f.profiles[m] \in Profile
  BY <1>1, <1>2, MapIs
<1>4. g \in [S -> Profile]
  BY <1>3
<1>5. g \in ProfileMaps
  BY <1>3, <1>4
<1>6. Without(f, n) = [default |-> f.default, profiles |-> g]
  BY DEF Without, Files
<1>7. Without(f, n) \in Files
  BY <1>1, <1>5, <1>6 DEF Files
<1>8. NamesIn(Without(f, n)) = S
  BY <1>6, <1>7, NoFileAssumption DEF NamesIn
<1> QED BY <1>2, <1>6, <1>7, <1>8

\* And so does another default.
LEMMA DefaultToIsFile ==
  ASSUME NEW f \in Files, NEW d \in Defaults
  PROVE  /\ DefaultTo(f, d) \in Files
         /\ DefaultTo(f, d).default = d
         /\ DefaultTo(f, d).profiles = f.profiles
         /\ NamesIn(DefaultTo(f, d)) = NamesIn(f)
<1>1. DefaultTo(f, d) = [default |-> d, profiles |-> f.profiles]
  BY DEF DefaultTo, Files
<1>2. DefaultTo(f, d) \in Files
  BY <1>1 DEF Files
<1> QED BY <1>1, <1>2, NoFileAssumption DEF NamesIn

LEMMA DefaultIfIsFile ==
  ASSUME NEW f \in Files, NEW d \in Defaults, NEW b \in BOOLEAN
  PROVE  /\ DefaultIf(b, f, d) \in Files
         /\ NamesIn(DefaultIf(b, f, d)) = NamesIn(f)
         /\ DefaultIf(b, f, d).profiles = f.profiles
         /\ DefaultIf(b, f, d).default = IF b THEN d ELSE f.default
BY DefaultToIsFile DEF DefaultIf

\* The files an edit starts from when there is none.
LEMMA FirstFiles ==
  /\ EmptyFile \in Files
  /\ \A n \in Names, p \in Profile :
       /\ FileOf(n, p) \in Files
       /\ FileOf(n, p).default = n
       /\ NamesIn(FileOf(n, p)) = {n}
       /\ FileOf(n, p).profiles[n] = p
<1>1. EmptyFile \in Files
  <2>1. [n \in {} |-> OfficialProfile] \in [{} -> Profile]
    OBVIOUS
  <2>2. [n \in {} |-> OfficialProfile] \in ProfileMaps
    BY <2>1
  <2> QED BY <2>2 DEF EmptyFile, Files, Defaults
<1>2. ASSUME NEW n \in Names, NEW p \in Profile
      PROVE  /\ FileOf(n, p) \in Files
             /\ FileOf(n, p).default = n
             /\ NamesIn(FileOf(n, p)) = {n}
             /\ FileOf(n, p).profiles[n] = p
  <2>1. [m \in {n} |-> p] \in [{n} -> Profile] /\ {n} \in SUBSET Names
    OBVIOUS
  <2>2. [m \in {n} |-> p] \in ProfileMaps
    BY <2>1
  <2>3. FileOf(n, p) \in Files
    BY <2>2 DEF FileOf, Files, Defaults
  <2> QED BY <2>3, NoFileAssumption DEF FileOf, NamesIn
<1> QED BY <1>1, <1>2

LEMMA NewProfiles ==
  /\ OfficialProfile \in Profile
  /\ \A u \in Urls : NewProfile(u) \in Profile
BY DEF OfficialProfile, NewProfile, Profile

LEMMA ProfileOf ==
  ASSUME NEW f \in Files, NEW n \in NamesIn(f)
  PROVE  n \in Names /\ f.profiles[n] \in Profile
<1>1. f.profiles \in ProfileMaps /\ NamesIn(f) = DOMAIN f.profiles
  BY NoFileAssumption DEF Files, NamesIn
<1> QED BY <1>1, MapIs

\* The fallback is a profile of the file or the sentinel.
LEMMA FallbackIsName ==
  ASSUME NEW f \in Files
  PROVE  ChooseFallbackDefault(f) \in Defaults
<1>1. NamesIn(f) \in SUBSET Names
  BY ProfileOf
<1>2. CASE NamesIn(f) # {}
  <2>1. AlphabeticallyFirst(NamesIn(f)) \in NamesIn(f)
    BY <1>1, <1>2, RankAssumption DEF AlphabeticallyFirst
  <2> QED BY <1>1, <1>2, <2>1, NamesAssumption DEF ChooseFallbackDefault, Defaults
<1>3. CASE NamesIn(f) = {}
  BY <1>3 DEF ChooseFallbackDefault, Defaults
<1> QED BY <1>2, <1>3

LEMMA WithOfficialIsFile ==
  ASSUME NEW f \in Files
  PROVE  /\ WithOfficial(f) \in Files
         /\ WithOfficial(f).default = f.default
         /\ NamesIn(WithOfficial(f)) = NamesIn(f) \cup {Official}
BY WithIsFile, NewProfiles, NamesAssumption DEF WithOfficial

\* An edit whose checks pass makes a file.
LEMMA ResultIsFile ==
  ASSUME NEW e \in Edits, NEW f \in ValidFiles \cup {NoFile}, ~CheckFails(e, f)
  PROVE  Result(e, f) \in Files
<1>1. e \in EditRecords /\ (e.name = InheritEnv => e.kind \in {"cliDefault", "setDefault"})
  BY DEF Edits
<1>2. /\ e.name \in Defaults /\ e.url \in Urls /\ e.target \in Targets
      /\ e.set \in BOOLEAN
      /\ e.kind \in {"ensure", "migrate", "cliAdd", "cliRm", "cliDefault",
                     "add", "edit", "remove", "setDefault", "modelDefault"}
  BY <1>1 DEF EditRecords
<1>3. e.kind \notin {"cliDefault", "setDefault"} => e.name \in Names
  BY <1>1, <1>2 DEF Defaults
<1>4. f # NoFile => f \in Files
  BY DEF ValidFiles
<1>5. Official \in Names /\ Names \subseteq Defaults /\ EnvUrl \in Urls
  BY NamesAssumption, UrlAssumption DEF Defaults
<1>6. ASSUME e.kind \in {"edit", "modelDefault", "cliRm", "remove"}
      PROVE  f \in Files /\ e.name \in NamesIn(f)
  BY <1>4, <1>6 DEF CheckFails, Lacks, NamesIn
<1>7. CASE e.kind = "ensure"
  <2>1. EnsureResult(f) \in Files
    BY <1>4, <1>5, FirstFiles, NewProfiles, DefaultIfIsFile, WithOfficialIsFile
       DEF EnsureResult
  <2> QED BY <1>7, <2>1 DEF Result
<1>8. CASE e.kind = "migrate"
  <2>1. MigrateResult(e, f) \in Files
    BY <1>3, <1>4, <1>5, <1>8, FirstFiles, NewProfiles, WithIsFile DEF MigrateResult
  <2> QED BY <1>8, <2>1 DEF Result
<1>9. CASE e.kind \in {"cliAdd", "add"}
  <2> DEFINE start == CASE f # NoFile         -> f
                        [] e.kind = "cliAdd"  -> EmptyFile
                        [] OTHER              -> FileOf(Official, OfficialProfile)
  <2>1. start \in Files
    BY <1>4, <1>5, FirstFiles, NewProfiles
  <2>2. With(start, e.name, NewProfile(e.url)) \in Files
    BY <1>2, <1>3, <1>9, <2>1, NewProfiles, WithIsFile
  <2>3. AddResult(e, f) \in Files
    BY <1>2, <2>2, DefaultIfIsFile DEF AddResult
  <2> QED BY <1>9, <2>3 DEF Result
<1>10. CASE e.kind = "edit"
  <2>1. [f.profiles[e.name] EXCEPT !.url = e.url] \in Profile
    BY <1>2, <1>6, <1>10, ProfileOf DEF Profile
  <2>2. With(f, e.name, [f.profiles[e.name] EXCEPT !.url = e.url]) \in Files
    BY <1>3, <1>6, <1>10, <2>1, WithIsFile
  <2>3. EditResult(e, f) \in Files
    BY <1>2, <2>2, DefaultIfIsFile DEF EditResult
  <2> QED BY <1>10, <2>3 DEF Result
<1>11. CASE e.kind = "modelDefault"
  <2>1. [f.profiles[e.name] EXCEPT !.star = e.target] \in Profile
    BY <1>2, <1>6, <1>11, ProfileOf DEF Profile
  <2>2. ModelDefaultResult(e, f) \in Files
    BY <1>3, <1>6, <1>11, <2>1, WithIsFile DEF ModelDefaultResult
  <2> QED BY <1>11, <2>2 DEF Result
<1>12. CASE e.kind \in {"cliRm", "remove"}
  <2> DEFINE rest == Without(f, e.name)
             d == IF e.kind = "cliRm" THEN InheritEnv ELSE ChooseFallbackDefault(rest)
  <2>1. rest \in Files
    BY <1>3, <1>6, <1>12, WithoutIsFile
  <2>2. d \in Defaults
    BY <2>1, FallbackIsName DEF Defaults
  <2>3. DefaultIf(f.default = e.name, rest, d) \in Files
    BY <2>1, <2>2, DefaultIfIsFile
  <2>4. RemoveResult(e, f) \in Files
    BY <2>3 DEF RemoveResult
  <2> QED BY <1>12, <2>4 DEF Result
<1>13. CASE e.kind \in {"cliDefault", "setDefault"}
  <2>1. f \in Files
    BY <1>4, <1>13 DEF CheckFails
  <2>2. SetDefaultResult(e, f) \in Files
    BY <1>2, <1>5, <2>1, DefaultToIsFile, WithOfficialIsFile DEF SetDefaultResult
  <2> QED BY <1>13, <2>2 DEF Result
<1> QED BY <1>2, <1>7, <1>8, <1>9, <1>10, <1>11, <1>12, <1>13

\* An edit that is not refused makes a valid file: the others are validated, and
\* a first file is valid by what is in it.
LEMMA ResultIsValid ==
  ASSUME NEW e \in Edits, NEW f \in ValidFiles \cup {NoFile}, ~Refuses(e, f)
  PROVE  Result(e, f) \in ValidFiles
<1>1. ~CheckFails(e, f)
  BY DEF Refuses
<1>2. Result(e, f) \in Files
  BY <1>1, ResultIsFile
<1>3. CASE ~Creates(e, f)
  BY <1>1, <1>2, <1>3 DEF Refuses, ValidFiles
<1>4. CASE Creates(e, f)
  <2>1. f = NoFile /\ e.kind \in {"ensure", "migrate"}
    BY <1>4 DEF Creates
  <2>2. e.name \in Names /\ Official \in Names /\ EnvUrl \in Urls
    BY <2>1, NamesAssumption, UrlAssumption DEF Edits, EditRecords, Defaults
  <2>3. /\ OfficialProfile \in Profile /\ OfficialProfile.url # BadUrl
        /\ NewProfile(EnvUrl) \in Profile /\ NewProfile(EnvUrl).url # BadUrl
    BY <2>2, NewProfiles, UrlAssumption DEF OfficialProfile, NewProfile
  <2>4. \E n \in Names, p \in Profile : p.url # BadUrl /\ Result(e, f) = FileOf(n, p)
    BY <2>1, <2>2, <2>3 DEF Result, EnsureResult, MigrateResult
  <2>5. PICK n \in Names, p \in Profile : p.url # BadUrl /\ Result(e, f) = FileOf(n, p)
    BY <2>4
  <2>6. Valid(Result(e, f))
    BY <2>5, FirstFiles DEF Valid
  <2> QED BY <1>2, <2>6 DEF ValidFiles
<1> QED BY <1>3, <1>4

-----------------------------------------------------------------------------
(***************************************************************************)
(* The invariant: the locks are where the program counters say, and who    *)
(* has loaded the file for an edit (and perhaps waits for a key) will      *)
(* write what that edit makes of the file as it still is.                  *)
(***************************************************************************)
Undecided == Loaded \cup {"peek", "prompt", "asked", "inStore", "locked", "stdin"}

LockHeld == \A a \in Actors : (pc[a] \in Locked) <=> (lock = a)
StoreHeld ==
  \A a \in Actors :
    /\ mu = a => pc[a] \in Locked \cup {"inStore", "leave"}
    /\ a \in Handlers /\ pc[a] \in Locked \cup {"inStore", "leave"} => mu = a
    /\ pc[a] \in {"inStore", "leave"} => a \in Handlers
LoadedIsCurrent ==
  \A a \in Actors : pc[a] \in Loaded =>
    /\ ~Refuses(edit[a], file)
    /\ next[a] = Result(edit[a], file)
    /\ creates[a] <=> Creates(edit[a], file)
InputIsCurrent ==
  \A a \in Actors : pc[a] = "stdin" => next[a] = file
TempIsNext == \A a \in Actors : pc[a] = "full" => temp[a] = next[a]
TempsOfWriters ==
  \A a \in Actors : temp[a] # None => pc[a] \in {"filling", "full", "clean", "dead"}
OutcomeDecided ==
  \A a \in Actors :
    /\ pc[a] \in Undecided => outcome[a] = "none"
    /\ pc[a] \in {"clean", "unlock", "leave"} => outcome[a] # "none"

IInv ==
  /\ TypeOK
  /\ LockHeld
  /\ StoreHeld
  /\ LoadedIsCurrent
  /\ InputIsCurrent
  /\ TempIsNext
  /\ TempsOfWriters
  /\ OutcomeDecided
  /\ LaunchResolves

LEMMA EnsureIsEdit == EnsureEdit \in Edits /\ \A n \in Names : MigrateEdit(n) \in Edits
<1>1. (CHOOSE t \in Targets : TRUE) \in Targets
  BY TargetsAssumption
<1> QED BY <1>1, NamesAssumption, UrlAssumption
        DEF EnsureEdit, MigrateEdit, Edits, EditRecords, Defaults

LEMMA MayAskIsEdit == ASSUME NEW a \in Actors PROVE MayAsk(a) \subseteq Edits
BY EnsureIsEdit, AsksAssumption DEF MayAsk

LEMMA InitInv == Init => IInv
<1> SUFFICES ASSUME Init PROVE IInv
  OBVIOUS
<1>1. TypeOK
  BY EnsureIsEdit, InitialFilesAssumption DEF Init, TypeOK, Locked, Loaded
<1>2. LockHeld /\ StoreHeld /\ LoadedIsCurrent /\ InputIsCurrent /\ TempIsNext
  BY ActorsAssumption DEF Init, LockHeld, StoreHeld, LoadedIsCurrent, InputIsCurrent, TempIsNext,
     Locked, Loaded, Actors
<1>3. TempsOfWriters /\ OutcomeDecided /\ LaunchResolves
  BY MarksAssumption DEF Init, TempsOfWriters, OutcomeDecided, LaunchResolves, Undecided,
     Loaded
<1> QED BY <1>1, <1>2, <1>3 DEF IInv

\* Every step keeps the invariant.
LEMMA NextInv == IInv /\ [Next]_vars => IInv'
<1> SUFFICES ASSUME IInv, [Next]_vars PROVE IInv'
  OBVIOUS
<1> USE DEF IInv, Locked, Loaded, Undecided, Goto, Answer
<1>0. None \notin Actors /\ Handlers \subseteq Actors /\ Launches \subseteq Actors
  BY ActorsAssumption DEF Actors
<1>1. ASSUME NEW a \in Actors, NEW e \in MayAsk(a), Ask(a, e)
      PROVE  IInv'
  <2>1. TypeOK'
    BY <1>1, <1>0, MayAskIsEdit DEF Ask, TypeOK
  <2>2. LockHeld'
    BY <1>1, <1>0 DEF Ask, TypeOK, LockHeld
  <2>3. StoreHeld'
    BY <1>1, <1>0 DEF Ask, TypeOK, StoreHeld
  <2>4. LoadedIsCurrent'
    BY <1>1, <1>0 DEF Ask, TypeOK, LoadedIsCurrent
  <2>5. TempIsNext'
    BY <1>1, <1>0 DEF Ask, TypeOK, TempIsNext
  <2>6. TempsOfWriters'
    BY <1>1, <1>0 DEF Ask, TypeOK, TempsOfWriters
  <2>7. OutcomeDecided'
    BY <1>1, <1>0 DEF Ask, TypeOK, OutcomeDecided
  <2>8. LaunchResolves'
    BY <1>1 DEF Ask, LaunchResolves
  <2>9. InputIsCurrent'
    BY <1>1, <1>0 DEF Ask, TypeOK, InputIsCurrent
  <2> QED BY <2>1, <2>2, <2>3, <2>4, <2>5, <2>6, <2>7, <2>8, <2>9
<1>2. ASSUME NEW a \in Actors, PeekStop(a)
      PROVE  IInv'
  <2>1. TypeOK'
    BY <1>2, <1>0 DEF PeekStop, TypeOK
  <2>2. LockHeld'
    BY <1>2, <1>0 DEF PeekStop, TypeOK, LockHeld
  <2>3. StoreHeld'
    BY <1>2, <1>0 DEF PeekStop, TypeOK, StoreHeld
  <2>4. LoadedIsCurrent'
    BY <1>2, <1>0 DEF PeekStop, TypeOK, LoadedIsCurrent
  <2>5. TempIsNext'
    BY <1>2, <1>0 DEF PeekStop, TypeOK, TempIsNext
  <2>6. TempsOfWriters'
    BY <1>2, <1>0 DEF PeekStop, TypeOK, TempsOfWriters
  <2>7. OutcomeDecided'
    BY <1>2, <1>0 DEF PeekStop, TypeOK, OutcomeDecided
  <2>8. LaunchResolves'
    BY <1>2 DEF PeekStop, LaunchResolves
  <2>9. InputIsCurrent'
    BY <1>2, <1>0 DEF PeekStop, TypeOK, InputIsCurrent
  <2> QED BY <2>1, <2>2, <2>3, <2>4, <2>5, <2>6, <2>7, <2>8, <2>9
<1>3. ASSUME NEW a \in Actors, PeekPass(a)
      PROVE  IInv'
  <2>1. TypeOK'
    BY <1>3, <1>0 DEF PeekPass, TypeOK
  <2>2. LockHeld'
    BY <1>3, <1>0 DEF PeekPass, TypeOK, LockHeld
  <2>3. StoreHeld'
    BY <1>3, <1>0 DEF PeekPass, TypeOK, StoreHeld
  <2>4. LoadedIsCurrent'
    BY <1>3, <1>0 DEF PeekPass, TypeOK, LoadedIsCurrent
  <2>5. TempIsNext'
    BY <1>3, <1>0 DEF PeekPass, TypeOK, TempIsNext
  <2>6. TempsOfWriters'
    BY <1>3, <1>0 DEF PeekPass, TypeOK, TempsOfWriters
  <2>7. OutcomeDecided'
    BY <1>3, <1>0 DEF PeekPass, TypeOK, OutcomeDecided
  <2>8. LaunchResolves'
    BY <1>3 DEF PeekPass, LaunchResolves
  <2>9. InputIsCurrent'
    BY <1>3, <1>0 DEF PeekPass, TypeOK, InputIsCurrent
  <2> QED BY <2>1, <2>2, <2>3, <2>4, <2>5, <2>6, <2>7, <2>8, <2>9
<1>4. ASSUME NEW a \in Actors, PromptAnswered(a)
      PROVE  IInv'
  <2>1. TypeOK'
    BY <1>4, <1>0 DEF PromptAnswered, TypeOK
  <2>2. LockHeld'
    BY <1>4, <1>0 DEF PromptAnswered, TypeOK, LockHeld
  <2>3. StoreHeld'
    BY <1>4, <1>0 DEF PromptAnswered, TypeOK, StoreHeld
  <2>4. LoadedIsCurrent'
    BY <1>4, <1>0 DEF PromptAnswered, TypeOK, LoadedIsCurrent
  <2>5. TempIsNext'
    BY <1>4, <1>0 DEF PromptAnswered, TypeOK, TempIsNext
  <2>6. TempsOfWriters'
    BY <1>4, <1>0 DEF PromptAnswered, TypeOK, TempsOfWriters
  <2>7. OutcomeDecided'
    BY <1>4, <1>0 DEF PromptAnswered, TypeOK, OutcomeDecided
  <2>8. LaunchResolves'
    BY <1>4 DEF PromptAnswered, LaunchResolves
  <2>9. InputIsCurrent'
    BY <1>4, <1>0 DEF PromptAnswered, TypeOK, InputIsCurrent
  <2> QED BY <2>1, <2>2, <2>3, <2>4, <2>5, <2>6, <2>7, <2>8, <2>9
<1>5. ASSUME NEW a \in Actors, PromptAborted(a)
      PROVE  IInv'
  <2>1. TypeOK'
    BY <1>5, <1>0 DEF PromptAborted, TypeOK
  <2>2. LockHeld'
    BY <1>5, <1>0 DEF PromptAborted, TypeOK, LockHeld
  <2>3. StoreHeld'
    BY <1>5, <1>0 DEF PromptAborted, TypeOK, StoreHeld
  <2>4. LoadedIsCurrent'
    BY <1>5, <1>0 DEF PromptAborted, TypeOK, LoadedIsCurrent
  <2>5. TempIsNext'
    BY <1>5, <1>0 DEF PromptAborted, TypeOK, TempIsNext
  <2>6. TempsOfWriters'
    BY <1>5, <1>0 DEF PromptAborted, TypeOK, TempsOfWriters
  <2>7. OutcomeDecided'
    BY <1>5, <1>0 DEF PromptAborted, TypeOK, OutcomeDecided
  <2>8. LaunchResolves'
    BY <1>5 DEF PromptAborted, LaunchResolves
  <2>9. InputIsCurrent'
    BY <1>5, <1>0 DEF PromptAborted, TypeOK, InputIsCurrent
  <2> QED BY <2>1, <2>2, <2>3, <2>4, <2>5, <2>6, <2>7, <2>8, <2>9
<1>6. ASSUME NEW a \in Actors, LockStore(a)
      PROVE  IInv'
  <2>1. TypeOK'
    BY <1>6, <1>0 DEF LockStore, TypeOK
  <2>2. LockHeld'
    BY <1>6, <1>0 DEF LockStore, TypeOK, LockHeld
  <2>3. StoreHeld'
    BY <1>6, <1>0 DEF LockStore, TypeOK, StoreHeld
  <2>4. LoadedIsCurrent'
    BY <1>6, <1>0 DEF LockStore, TypeOK, LoadedIsCurrent
  <2>5. TempIsNext'
    BY <1>6, <1>0 DEF LockStore, TypeOK, TempIsNext
  <2>6. TempsOfWriters'
    BY <1>6, <1>0 DEF LockStore, TypeOK, TempsOfWriters
  <2>7. OutcomeDecided'
    BY <1>6, <1>0 DEF LockStore, TypeOK, OutcomeDecided
  <2>8. LaunchResolves'
    BY <1>6 DEF LockStore, LaunchResolves
  <2>9. InputIsCurrent'
    BY <1>6, <1>0 DEF LockStore, TypeOK, InputIsCurrent
  <2> QED BY <2>1, <2>2, <2>3, <2>4, <2>5, <2>6, <2>7, <2>8, <2>9
<1>7. ASSUME NEW a \in Actors, LockFile(a)
      PROVE  IInv'
  <2>1. TypeOK'
    BY <1>7, <1>0 DEF LockFile, AtLock, TypeOK
  <2>2. LockHeld'
    BY <1>7, <1>0 DEF LockFile, AtLock, TypeOK, LockHeld
  <2>3. StoreHeld'
    BY <1>7, <1>0 DEF LockFile, AtLock, TypeOK, StoreHeld
  <2>4. LoadedIsCurrent'
    BY <1>7, <1>0 DEF LockFile, AtLock, TypeOK, LoadedIsCurrent
  <2>5. TempIsNext'
    BY <1>7, <1>0 DEF LockFile, AtLock, TypeOK, TempIsNext
  <2>6. TempsOfWriters'
    BY <1>7, <1>0 DEF LockFile, AtLock, TypeOK, TempsOfWriters
  <2>7. OutcomeDecided'
    BY <1>7, <1>0 DEF LockFile, AtLock, TypeOK, OutcomeDecided
  <2>8. LaunchResolves'
    BY <1>7 DEF LockFile, AtLock, LaunchResolves
  <2>9. InputIsCurrent'
    BY <1>7, <1>0 DEF LockFile, AtLock, TypeOK, InputIsCurrent
  <2> QED BY <2>1, <2>2, <2>3, <2>4, <2>5, <2>6, <2>7, <2>8, <2>9
<1>8. ASSUME NEW a \in Actors, LockFails(a)
      PROVE  IInv'
  <2>1. TypeOK'
    BY <1>8, <1>0 DEF LockFails, AtLock, TypeOK
  <2>2. LockHeld'
    BY <1>8, <1>0 DEF LockFails, AtLock, TypeOK, LockHeld
  <2>3. StoreHeld'
    BY <1>8, <1>0 DEF LockFails, AtLock, TypeOK, StoreHeld
  <2>4. LoadedIsCurrent'
    BY <1>8, <1>0 DEF LockFails, AtLock, TypeOK, LoadedIsCurrent
  <2>5. TempIsNext'
    BY <1>8, <1>0 DEF LockFails, AtLock, TypeOK, TempIsNext
  <2>6. TempsOfWriters'
    BY <1>8, <1>0 DEF LockFails, AtLock, TypeOK, TempsOfWriters
  <2>7. OutcomeDecided'
    BY <1>8, <1>0 DEF LockFails, AtLock, TypeOK, OutcomeDecided
  <2>8. LaunchResolves'
    BY <1>8 DEF LockFails, AtLock, LaunchResolves
  <2>9. InputIsCurrent'
    BY <1>8, <1>0 DEF LockFails, AtLock, TypeOK, InputIsCurrent
  <2> QED BY <2>1, <2>2, <2>3, <2>4, <2>5, <2>6, <2>7, <2>8, <2>9
<1>9. ASSUME NEW a \in Actors, LoadRefused(a)
      PROVE  IInv'
  <2>1. TypeOK'
    BY <1>9, <1>0 DEF LoadRefused, TypeOK
  <2>2. LockHeld'
    BY <1>9, <1>0 DEF LoadRefused, TypeOK, LockHeld
  <2>3. StoreHeld'
    BY <1>9, <1>0 DEF LoadRefused, TypeOK, StoreHeld
  <2>4. LoadedIsCurrent'
    BY <1>9, <1>0 DEF LoadRefused, TypeOK, LoadedIsCurrent
  <2>5. TempIsNext'
    BY <1>9, <1>0 DEF LoadRefused, TypeOK, TempIsNext
  <2>6. TempsOfWriters'
    BY <1>9, <1>0 DEF LoadRefused, TypeOK, TempsOfWriters
  <2>7. OutcomeDecided'
    BY <1>9, <1>0 DEF LoadRefused, TypeOK, OutcomeDecided
  <2>8. LaunchResolves'
    BY <1>9 DEF LoadRefused, LaunchResolves
  <2>9. InputIsCurrent'
    BY <1>9, <1>0 DEF LoadRefused, TypeOK, InputIsCurrent
  <2> QED BY <2>1, <2>2, <2>3, <2>4, <2>5, <2>6, <2>7, <2>8, <2>9
<1>10. ASSUME NEW a \in Actors, LoadUnchanged(a)
      PROVE  IInv'
  <2>1. TypeOK'
    BY <1>10, <1>0 DEF LoadUnchanged, TypeOK
  <2>2. LockHeld'
    BY <1>10, <1>0 DEF LoadUnchanged, TypeOK, LockHeld
  <2>3. StoreHeld'
    BY <1>10, <1>0 DEF LoadUnchanged, TypeOK, StoreHeld
  <2>4. LoadedIsCurrent'
    BY <1>10, <1>0 DEF LoadUnchanged, TypeOK, LoadedIsCurrent
  <2>5. TempIsNext'
    BY <1>10, <1>0 DEF LoadUnchanged, TypeOK, TempIsNext
  <2>6. TempsOfWriters'
    BY <1>10, <1>0 DEF LoadUnchanged, TypeOK, TempsOfWriters
  <2>7. OutcomeDecided'
    BY <1>10, <1>0 DEF LoadUnchanged, TypeOK, OutcomeDecided
  <2>8. LaunchResolves'
    BY <1>10 DEF LoadUnchanged, LaunchResolves
  <2>9. InputIsCurrent'
    BY <1>10, <1>0 DEF LoadUnchanged, TypeOK, InputIsCurrent
  <2> QED BY <2>1, <2>2, <2>3, <2>4, <2>5, <2>6, <2>7, <2>8, <2>9
<1>11. ASSUME NEW a \in Actors, LoadAndChange(a)
      PROVE  IInv'
  <2>0. Result(edit[a], file) \in Files
    BY <1>11, ResultIsValid DEF LoadAndChange, TypeOK, ValidFiles
  <2>1. TypeOK'
    BY <1>11, <1>0, <2>0 DEF LoadAndChange, TypeOK, Creates
  <2>2. LockHeld'
    BY <1>11, <1>0 DEF LoadAndChange, TypeOK, LockHeld
  <2>3. StoreHeld'
    BY <1>11, <1>0 DEF LoadAndChange, TypeOK, StoreHeld
  <2>4. LoadedIsCurrent'
    BY <1>11, <1>0 DEF LoadAndChange, TypeOK, LoadedIsCurrent
  <2>5. TempIsNext'
    BY <1>11, <1>0 DEF LoadAndChange, TypeOK, TempIsNext
  <2>6. TempsOfWriters'
    BY <1>11, <1>0 DEF LoadAndChange, TypeOK, TempsOfWriters
  <2>7. OutcomeDecided'
    BY <1>11, <1>0 DEF LoadAndChange, TypeOK, OutcomeDecided
  <2>8. LaunchResolves'
    BY <1>11 DEF LoadAndChange, LaunchResolves
  <2>9. InputIsCurrent'
    BY <1>11, <1>0 DEF LoadAndChange, TypeOK, InputIsCurrent
  <2> QED BY <2>1, <2>2, <2>3, <2>4, <2>5, <2>6, <2>7, <2>8, <2>9
<1>12. ASSUME NEW a \in Actors, CreateTemp(a)
      PROVE  IInv'
  <2>1. TypeOK'
    BY <1>12, <1>0 DEF CreateTemp, TypeOK
  <2>2. LockHeld'
    BY <1>12, <1>0 DEF CreateTemp, TypeOK, LockHeld
  <2>3. StoreHeld'
    BY <1>12, <1>0 DEF CreateTemp, TypeOK, StoreHeld
  <2>4. LoadedIsCurrent'
    BY <1>12, <1>0 DEF CreateTemp, TypeOK, LoadedIsCurrent
  <2>5. TempIsNext'
    BY <1>12, <1>0 DEF CreateTemp, TypeOK, TempIsNext
  <2>6. TempsOfWriters'
    BY <1>12, <1>0 DEF CreateTemp, TypeOK, TempsOfWriters
  <2>7. OutcomeDecided'
    BY <1>12, <1>0 DEF CreateTemp, TypeOK, OutcomeDecided
  <2>8. LaunchResolves'
    BY <1>12 DEF CreateTemp, LaunchResolves
  <2>9. InputIsCurrent'
    BY <1>12, <1>0 DEF CreateTemp, TypeOK, InputIsCurrent
  <2> QED BY <2>1, <2>2, <2>3, <2>4, <2>5, <2>6, <2>7, <2>8, <2>9
<1>13. ASSUME NEW a \in Actors, FillTemp(a)
      PROVE  IInv'
  <2>0. next[a] \in Files
    BY <1>13, ResultIsValid DEF FillTemp, TypeOK, LoadedIsCurrent, ValidFiles
  <2>1. TypeOK'
    BY <1>13, <1>0, <2>0 DEF FillTemp, TypeOK
  <2>2. LockHeld'
    BY <1>13, <1>0 DEF FillTemp, TypeOK, LockHeld
  <2>3. StoreHeld'
    BY <1>13, <1>0 DEF FillTemp, TypeOK, StoreHeld
  <2>4. LoadedIsCurrent'
    BY <1>13, <1>0 DEF FillTemp, TypeOK, LoadedIsCurrent
  <2>5. TempIsNext'
    BY <1>13, <1>0 DEF FillTemp, TypeOK, TempIsNext
  <2>6. TempsOfWriters'
    BY <1>13, <1>0 DEF FillTemp, TypeOK, TempsOfWriters
  <2>7. OutcomeDecided'
    BY <1>13, <1>0 DEF FillTemp, TypeOK, OutcomeDecided
  <2>8. LaunchResolves'
    BY <1>13 DEF FillTemp, LaunchResolves
  <2>9. InputIsCurrent'
    BY <1>13, <1>0 DEF FillTemp, TypeOK, InputIsCurrent
  <2> QED BY <2>1, <2>2, <2>3, <2>4, <2>5, <2>6, <2>7, <2>8, <2>9
<1>14. ASSUME NEW a \in Actors, WriteFails(a)
      PROVE  IInv'
  <2>1. TypeOK'
    BY <1>14, <1>0 DEF WriteFails, TypeOK
  <2>2. LockHeld'
    BY <1>14, <1>0 DEF WriteFails, TypeOK, LockHeld
  <2>3. StoreHeld'
    BY <1>14, <1>0 DEF WriteFails, TypeOK, StoreHeld
  <2>4. LoadedIsCurrent'
    BY <1>14, <1>0 DEF WriteFails, TypeOK, LoadedIsCurrent
  <2>5. TempIsNext'
    BY <1>14, <1>0 DEF WriteFails, TypeOK, TempIsNext
  <2>6. TempsOfWriters'
    BY <1>14, <1>0 DEF WriteFails, TypeOK, TempsOfWriters
  <2>7. OutcomeDecided'
    BY <1>14, <1>0 DEF WriteFails, TypeOK, OutcomeDecided
  <2>8. LaunchResolves'
    BY <1>14 DEF WriteFails, LaunchResolves
  <2>9. InputIsCurrent'
    BY <1>14, <1>0 DEF WriteFails, TypeOK, InputIsCurrent
  <2> QED BY <2>1, <2>2, <2>3, <2>4, <2>5, <2>6, <2>7, <2>8, <2>9
<1>15. ASSUME NEW a \in Actors, Rename(a)
      PROVE  IInv'
  <2>0. temp[a] \in ValidFiles
    BY <1>15, ResultIsValid DEF Rename, TypeOK, LoadedIsCurrent, TempIsNext
  <2>1. TypeOK'
    BY <1>15, <1>0, <2>0 DEF Rename, TypeOK
  <2>2. LockHeld'
    BY <1>15, <1>0 DEF Rename, TypeOK, LockHeld
  <2>3. StoreHeld'
    BY <1>15, <1>0 DEF Rename, TypeOK, StoreHeld
  <2>4. LoadedIsCurrent'
    <3>1. \A b \in Actors : b # a => pc[b] \notin Loaded
      BY <1>15 DEF Rename, LockHeld
    <3> QED BY <1>15, <1>0, <3>1 DEF Rename, TypeOK, LoadedIsCurrent
  <2>5. TempIsNext'
    BY <1>15, <1>0 DEF Rename, TypeOK, TempIsNext
  <2>6. TempsOfWriters'
    BY <1>15, <1>0 DEF Rename, TypeOK, TempsOfWriters
  <2>7. OutcomeDecided'
    BY <1>15, <1>0 DEF Rename, TypeOK, OutcomeDecided
  <2>8. LaunchResolves'
    BY <1>15 DEF Rename, LaunchResolves
  <2>9. InputIsCurrent'
    <3>1. \A b \in Actors : b # a => pc[b] # "stdin"
      BY <1>15 DEF Rename, LockHeld
    <3> QED BY <1>15, <1>0, <3>1 DEF Rename, TypeOK, InputIsCurrent
  <2> QED BY <2>1, <2>2, <2>3, <2>4, <2>5, <2>6, <2>7, <2>8, <2>9
<1>16. ASSUME NEW a \in Actors, Link(a)
      PROVE  IInv'
  <2>0. temp[a] \in ValidFiles
    BY <1>16, ResultIsValid DEF Link, TypeOK, LoadedIsCurrent, TempIsNext
  <2>1. TypeOK'
    BY <1>16, <1>0, <2>0 DEF Link, TypeOK
  <2>2. LockHeld'
    BY <1>16, <1>0 DEF Link, TypeOK, LockHeld
  <2>3. StoreHeld'
    BY <1>16, <1>0 DEF Link, TypeOK, StoreHeld
  <2>4. LoadedIsCurrent'
    <3>1. \A b \in Actors : b # a => pc[b] \notin Loaded
      BY <1>16 DEF Link, LockHeld
    <3> QED BY <1>16, <1>0, <3>1 DEF Link, TypeOK, LoadedIsCurrent
  <2>5. TempIsNext'
    BY <1>16, <1>0 DEF Link, TypeOK, TempIsNext
  <2>6. TempsOfWriters'
    BY <1>16, <1>0 DEF Link, TypeOK, TempsOfWriters
  <2>7. OutcomeDecided'
    BY <1>16, <1>0 DEF Link, TypeOK, OutcomeDecided
  <2>8. LaunchResolves'
    BY <1>16 DEF Link, LaunchResolves
  <2>9. InputIsCurrent'
    <3>1. \A b \in Actors : b # a => pc[b] # "stdin"
      BY <1>16 DEF Link, LockHeld
    <3> QED BY <1>16, <1>0, <3>1 DEF Link, TypeOK, InputIsCurrent
  <2> QED BY <2>1, <2>2, <2>3, <2>4, <2>5, <2>6, <2>7, <2>8, <2>9
<1>17. ASSUME NEW a \in Actors, RemoveTemp(a)
      PROVE  IInv'
  <2>1. TypeOK'
    BY <1>17, <1>0 DEF RemoveTemp, TypeOK
  <2>2. LockHeld'
    BY <1>17, <1>0 DEF RemoveTemp, TypeOK, LockHeld
  <2>3. StoreHeld'
    BY <1>17, <1>0 DEF RemoveTemp, TypeOK, StoreHeld
  <2>4. LoadedIsCurrent'
    BY <1>17, <1>0 DEF RemoveTemp, TypeOK, LoadedIsCurrent
  <2>5. TempIsNext'
    BY <1>17, <1>0 DEF RemoveTemp, TypeOK, TempIsNext
  <2>6. TempsOfWriters'
    BY <1>17, <1>0 DEF RemoveTemp, TypeOK, TempsOfWriters
  <2>7. OutcomeDecided'
    BY <1>17, <1>0 DEF RemoveTemp, TypeOK, OutcomeDecided
  <2>8. LaunchResolves'
    BY <1>17 DEF RemoveTemp, LaunchResolves
  <2>9. InputIsCurrent'
    BY <1>17, <1>0 DEF RemoveTemp, TypeOK, InputIsCurrent
  <2> QED BY <2>1, <2>2, <2>3, <2>4, <2>5, <2>6, <2>7, <2>8, <2>9
<1>18. ASSUME NEW a \in Actors, UnlockFile(a)
      PROVE  IInv'
  <2>1. TypeOK'
    BY <1>18, <1>0 DEF UnlockFile, TypeOK
  <2>2. LockHeld'
    BY <1>18, <1>0 DEF UnlockFile, TypeOK, LockHeld
  <2>3. StoreHeld'
    BY <1>18, <1>0 DEF UnlockFile, TypeOK, StoreHeld
  <2>4. LoadedIsCurrent'
    BY <1>18, <1>0 DEF UnlockFile, TypeOK, LoadedIsCurrent
  <2>5. TempIsNext'
    BY <1>18, <1>0 DEF UnlockFile, TypeOK, TempIsNext
  <2>6. TempsOfWriters'
    BY <1>18, <1>0 DEF UnlockFile, TypeOK, TempsOfWriters
  <2>7. OutcomeDecided'
    BY <1>18, <1>0 DEF UnlockFile, TypeOK, OutcomeDecided
  <2>8. LaunchResolves'
    BY <1>18 DEF UnlockFile, LaunchResolves
  <2>9. InputIsCurrent'
    BY <1>18, <1>0 DEF UnlockFile, TypeOK, InputIsCurrent
  <2> QED BY <2>1, <2>2, <2>3, <2>4, <2>5, <2>6, <2>7, <2>8, <2>9
<1>19. ASSUME NEW a \in Actors, LeaveStore(a)
      PROVE  IInv'
  <2>1. TypeOK'
    BY <1>19, <1>0 DEF LeaveStore, TypeOK
  <2>2. LockHeld'
    BY <1>19, <1>0 DEF LeaveStore, TypeOK, LockHeld
  <2>3. StoreHeld'
    BY <1>19, <1>0 DEF LeaveStore, TypeOK, StoreHeld
  <2>4. LoadedIsCurrent'
    BY <1>19, <1>0 DEF LeaveStore, TypeOK, LoadedIsCurrent
  <2>5. TempIsNext'
    BY <1>19, <1>0 DEF LeaveStore, TypeOK, TempIsNext
  <2>6. TempsOfWriters'
    BY <1>19, <1>0 DEF LeaveStore, TypeOK, TempsOfWriters
  <2>7. OutcomeDecided'
    BY <1>19, <1>0 DEF LeaveStore, TypeOK, OutcomeDecided
  <2>8. LaunchResolves'
    BY <1>19 DEF LeaveStore, LaunchResolves
  <2>9. InputIsCurrent'
    BY <1>19, <1>0 DEF LeaveStore, TypeOK, InputIsCurrent
  <2> QED BY <2>1, <2>2, <2>3, <2>4, <2>5, <2>6, <2>7, <2>8, <2>9
<1>20. ASSUME NEW l \in Launches, ResolveProfile(l)
      PROVE  IInv'
  <2>1. Select(file) \in Defaults /\ Select(file) # Failed
    BY MarksAssumption DEF Select, TypeOK, ValidFiles, Valid, Files, Defaults
  <2>2. TypeOK'
    BY <1>20, <2>1 DEF ResolveProfile, TypeOK
  <2>3. LaunchResolves'
    BY <1>20, <2>1 DEF ResolveProfile, TypeOK, LaunchResolves
  <2> QED BY <1>20, <2>2, <2>3 DEF ResolveProfile, LockHeld, StoreHeld, LoadedIsCurrent,
             InputIsCurrent, TempIsNext, TempsOfWriters, OutcomeDecided
<1>21. ASSUME NEW p \in Processes, Crash(p)
      PROVE  IInv'
  <2>0. \A a \in Handlers : a \in Members(p) <=> p = Server
    BY ActorsAssumption DEF Members, Processes
  <2>1. TypeOK'
    BY <1>21, <1>0, <2>0 DEF Crash, TypeOK
  <2>2. LockHeld'
    BY <1>21, <1>0, <2>0 DEF Crash, TypeOK, LockHeld
  <2>3. StoreHeld'
    BY <1>21, <1>0, <2>0 DEF Crash, TypeOK, StoreHeld
  <2>4. LoadedIsCurrent'
    BY <1>21, <1>0, <2>0 DEF Crash, TypeOK, LoadedIsCurrent
  <2>5. TempIsNext'
    BY <1>21, <1>0, <2>0 DEF Crash, TypeOK, TempIsNext
  <2>6. TempsOfWriters'
    BY <1>21, <1>0, <2>0 DEF Crash, TypeOK, TempsOfWriters
  <2>7. OutcomeDecided'
    BY <1>21, <1>0, <2>0 DEF Crash, TypeOK, OutcomeDecided
  <2>8. LaunchResolves'
    BY <1>21 DEF Crash, LaunchResolves
  <2>9. InputIsCurrent'
    BY <1>21, <1>0, <2>0 DEF Crash, TypeOK, InputIsCurrent
  <2> QED BY <2>1, <2>2, <2>3, <2>4, <2>5, <2>6, <2>7, <2>8, <2>9
<1>22. CASE UNCHANGED vars
  BY <1>22 DEF vars, TypeOK, LockHeld, StoreHeld, LoadedIsCurrent, InputIsCurrent, TempIsNext,
     TempsOfWriters, OutcomeDecided, LaunchResolves
<1>23. ASSUME NEW a \in Actors, AwaitKey(a)
      PROVE  IInv'
  <2>1. TypeOK'
    BY <1>23, <1>0 DEF AwaitKey, TypeOK, ValidFiles
  <2>2. LockHeld'
    BY <1>23, <1>0 DEF AwaitKey, TypeOK, LockHeld
  <2>3. StoreHeld'
    BY <1>23, <1>0 DEF AwaitKey, TypeOK, StoreHeld
  <2>4. LoadedIsCurrent'
    BY <1>23, <1>0 DEF AwaitKey, TypeOK, LoadedIsCurrent
  <2>5. TempIsNext'
    BY <1>23, <1>0 DEF AwaitKey, TypeOK, TempIsNext
  <2>6. TempsOfWriters'
    BY <1>23, <1>0 DEF AwaitKey, TypeOK, TempsOfWriters
  <2>7. OutcomeDecided'
    BY <1>23, <1>0 DEF AwaitKey, TypeOK, OutcomeDecided
  <2>8. LaunchResolves'
    BY <1>23 DEF AwaitKey, LaunchResolves
  <2>9. InputIsCurrent'
    BY <1>23, <1>0 DEF AwaitKey, TypeOK, InputIsCurrent
  <2> QED BY <2>1, <2>2, <2>3, <2>4, <2>5, <2>6, <2>7, <2>8, <2>9
<1>24. ASSUME NEW a \in Actors, KeyRead(a)
      PROVE  IInv'
  <2>0. ~Refuses(edit[a], file) /\ next[a] = file /\ Result(edit[a], file) \in Files
    BY <1>24, ResultIsValid DEF KeyRead, TypeOK, InputIsCurrent, ValidFiles
  <2>1. TypeOK'
    BY <1>24, <1>0, <2>0 DEF KeyRead, TypeOK, Creates
  <2>2. LockHeld'
    BY <1>24, <1>0 DEF KeyRead, TypeOK, LockHeld
  <2>3. StoreHeld'
    BY <1>24, <1>0 DEF KeyRead, TypeOK, StoreHeld
  <2>4. LoadedIsCurrent'
    BY <1>24, <1>0, <2>0 DEF KeyRead, TypeOK, LoadedIsCurrent
  <2>5. TempIsNext'
    BY <1>24, <1>0 DEF KeyRead, TypeOK, TempIsNext
  <2>6. TempsOfWriters'
    BY <1>24, <1>0 DEF KeyRead, TypeOK, TempsOfWriters
  <2>7. OutcomeDecided'
    BY <1>24, <1>0 DEF KeyRead, TypeOK, OutcomeDecided
  <2>8. LaunchResolves'
    BY <1>24 DEF KeyRead, LaunchResolves
  <2>9. InputIsCurrent'
    BY <1>24, <1>0 DEF KeyRead, TypeOK, InputIsCurrent
  <2> QED BY <2>1, <2>2, <2>3, <2>4, <2>5, <2>6, <2>7, <2>8, <2>9
<1>25. ASSUME NEW a \in Actors, KeyRefused(a)
      PROVE  IInv'
  <2>1. TypeOK'
    BY <1>25, <1>0 DEF KeyRefused, TypeOK
  <2>2. LockHeld'
    BY <1>25, <1>0 DEF KeyRefused, TypeOK, LockHeld
  <2>3. StoreHeld'
    BY <1>25, <1>0 DEF KeyRefused, TypeOK, StoreHeld
  <2>4. LoadedIsCurrent'
    BY <1>25, <1>0 DEF KeyRefused, TypeOK, LoadedIsCurrent
  <2>5. TempIsNext'
    BY <1>25, <1>0 DEF KeyRefused, TypeOK, TempIsNext
  <2>6. TempsOfWriters'
    BY <1>25, <1>0 DEF KeyRefused, TypeOK, TempsOfWriters
  <2>7. OutcomeDecided'
    BY <1>25, <1>0 DEF KeyRefused, TypeOK, OutcomeDecided
  <2>8. LaunchResolves'
    BY <1>25 DEF KeyRefused, LaunchResolves
  <2>9. InputIsCurrent'
    BY <1>25, <1>0 DEF KeyRefused, TypeOK, InputIsCurrent
  <2> QED BY <2>1, <2>2, <2>3, <2>4, <2>5, <2>6, <2>7, <2>8, <2>9
<1> QED BY <1>1, <1>2, <1>3, <1>4, <1>5, <1>6, <1>7, <1>8, <1>9, <1>10,
           <1>11, <1>12, <1>13, <1>14, <1>15, <1>16, <1>17, <1>18, <1>19, <1>20, <1>21,
           <1>22, <1>23, <1>24, <1>25 DEF Next, Step

-----------------------------------------------------------------------------
THEOREM Invariance == Spec => []IInv
BY InitInv, NextInv, PTL DEF Spec

\* Type correctness: profiles.json is absent or a file that passes Validate.
THEOREM TypeCorrect == Spec => []TypeOK
BY Invariance, PTL DEF IInv

\* A launch is never stopped by profiles.json.
THEOREM LaunchResolvesHolds == Spec => []LaunchResolves
BY Invariance, PTL DEF IInv

\* Locks and temporary files are let go.
THEOREM NothingLeftBehindHolds == Spec => []NothingLeftBehind
<1>1. IInv => NothingLeftBehind
  BY ActorsAssumption
     DEF IInv, LockHeld, StoreHeld, TempsOfWriters, NothingLeftBehind, Locked, Loaded, Actors
<1> QED BY <1>1, Invariance, PTL

\* The two together (write.go:52, lock.go:30).
THEOREM CrashSafeHolds == Spec => []CrashSafe
BY LaunchResolvesHolds, NothingLeftBehindHolds, PTL DEF CrashSafe

-----------------------------------------------------------------------------
(***************************************************************************)
(* The processes implement the register.  An edit takes effect at its      *)
(* rename or link, and when it is refused at the load or the peek.         *)
(***************************************************************************)
phaseBar == [a \in Actors |-> Phase(a)]

\* A step of one actor leaves the others' phases.
LEMMA OthersKeepPhase ==
  ASSUME TypeOK, TypeOK', NEW a \in Actors, NEW l, NEW o,
         pc' = [pc EXCEPT ![a] = l], outcome' = [outcome EXCEPT ![a] = o],
         NEW ph, Phase(a)' = ph
  PROVE  phaseBar' = [phaseBar EXCEPT ![a] = ph]
<1>1. \A b \in Actors : b # a => Phase(b)' = Phase(b)
  BY DEF Phase, TypeOK
<1> QED BY <1>1 DEF phaseBar

LEMMA InitImplements == Init => Register!Init
BY EnsureIsEdit DEF Init, Register!Init, Phase

LEMMA NextImplements == IInv /\ IInv' /\ [Next]_vars => [Register!Next]_(Register!vars)
<1> SUFFICES ASSUME IInv, IInv', [Next]_vars
             PROVE  Register!Next \/ UNCHANGED Register!vars
  OBVIOUS
<1> USE DEF IInv, Goto, Answer
<1>0. TypeOK /\ TypeOK' /\ \A a \in Actors : phaseBar[a] = Phase(a)
  BY DEF phaseBar
<1>1. ASSUME NEW a \in Actors, PeekPass(a)
      PROVE  UNCHANGED Register!vars
  <2>1. \A b \in Actors : Phase(b)' = Phase(b)
    BY <1>1, <1>0 DEF PeekPass, AtLock, Phase, TypeOK, OutcomeDecided, Undecided, Loaded
  <2> QED BY <1>1, <2>1 DEF PeekPass, Register!vars
<1>2. ASSUME NEW a \in Actors, PromptAnswered(a)
      PROVE  UNCHANGED Register!vars
  <2>1. \A b \in Actors : Phase(b)' = Phase(b)
    BY <1>2, <1>0 DEF PromptAnswered, AtLock, Phase, TypeOK, OutcomeDecided, Undecided, Loaded
  <2> QED BY <1>2, <2>1 DEF PromptAnswered, Register!vars
<1>3. ASSUME NEW a \in Actors, LockStore(a)
      PROVE  UNCHANGED Register!vars
  <2>1. \A b \in Actors : Phase(b)' = Phase(b)
    BY <1>3, <1>0 DEF LockStore, AtLock, Phase, TypeOK, OutcomeDecided, Undecided, Loaded
  <2> QED BY <1>3, <2>1 DEF LockStore, Register!vars
<1>4. ASSUME NEW a \in Actors, LockFile(a)
      PROVE  UNCHANGED Register!vars
  <2>1. \A b \in Actors : Phase(b)' = Phase(b)
    BY <1>4, <1>0 DEF LockFile, AtLock, Phase, TypeOK, OutcomeDecided, Undecided, Loaded
  <2> QED BY <1>4, <2>1 DEF LockFile, Register!vars
<1>5. ASSUME NEW a \in Actors, LoadAndChange(a)
      PROVE  UNCHANGED Register!vars
  <2>1. \A b \in Actors : Phase(b)' = Phase(b)
    BY <1>5, <1>0 DEF LoadAndChange, AtLock, Phase, TypeOK, OutcomeDecided, Undecided, Loaded
  <2> QED BY <1>5, <2>1 DEF LoadAndChange, Register!vars
<1>6. ASSUME NEW a \in Actors, CreateTemp(a)
      PROVE  UNCHANGED Register!vars
  <2>1. \A b \in Actors : Phase(b)' = Phase(b)
    BY <1>6, <1>0 DEF CreateTemp, AtLock, Phase, TypeOK, OutcomeDecided, Undecided, Loaded
  <2> QED BY <1>6, <2>1 DEF CreateTemp, Register!vars
<1>7. ASSUME NEW a \in Actors, FillTemp(a)
      PROVE  UNCHANGED Register!vars
  <2>1. \A b \in Actors : Phase(b)' = Phase(b)
    BY <1>7, <1>0 DEF FillTemp, AtLock, Phase, TypeOK, OutcomeDecided, Undecided, Loaded
  <2> QED BY <1>7, <2>1 DEF FillTemp, Register!vars
<1>8. ASSUME NEW a \in Actors, RemoveTemp(a)
      PROVE  UNCHANGED Register!vars
  <2>1. \A b \in Actors : Phase(b)' = Phase(b)
    BY <1>8, <1>0 DEF RemoveTemp, AtLock, Phase, TypeOK, OutcomeDecided, Undecided, Loaded
  <2> QED BY <1>8, <2>1 DEF RemoveTemp, Register!vars
<1>9. ASSUME NEW a \in Actors, UnlockFile(a)
      PROVE  UNCHANGED Register!vars
  <2>1. \A b \in Actors : Phase(b)' = Phase(b)
    BY <1>9, <1>0 DEF UnlockFile, AtLock, Phase, TypeOK, OutcomeDecided, Undecided, Loaded
  <2> QED BY <1>9, <2>1 DEF UnlockFile, Register!vars
<1>10. ASSUME NEW a \in Actors, LeaveStore(a)
      PROVE  UNCHANGED Register!vars
  <2>1. \A b \in Actors : Phase(b)' = Phase(b)
    BY <1>10, <1>0 DEF LeaveStore, AtLock, Phase, TypeOK, OutcomeDecided, Undecided, Loaded
  <2> QED BY <1>10, <2>1 DEF LeaveStore, Register!vars
<1>11. ASSUME NEW a \in Actors, PeekStop(a)
      PROVE  Register!Refuse(a)
  <2>1. Phase(a) = "asked" /\ Phase(a)' = "refused"
    BY <1>11, <1>0 DEF PeekStop, AtLock, Phase, TypeOK, OutcomeDecided, Undecided, Loaded
  <2>2. phaseBar' = [phaseBar EXCEPT ![a] = "refused"]
    BY <1>11, <1>0, <2>1, OthersKeepPhase DEF PeekStop
  <2> QED BY <1>11, <1>0, <2>1, <2>2 DEF PeekStop, Register!Refuse, phaseBar
<1>12. ASSUME NEW a \in Actors, LoadRefused(a)
      PROVE  Register!Refuse(a)
  <2>1. Phase(a) = "asked" /\ Phase(a)' = "refused"
    BY <1>12, <1>0 DEF LoadRefused, AtLock, Phase, TypeOK, OutcomeDecided, Undecided, Loaded
  <2>2. phaseBar' = [phaseBar EXCEPT ![a] = "refused"]
    BY <1>12, <1>0, <2>1, OthersKeepPhase DEF LoadRefused
  <2> QED BY <1>12, <1>0, <2>1, <2>2 DEF LoadRefused, Refuses, Register!Refuse, phaseBar
<1>13. ASSUME NEW a \in Actors, PromptAborted(a)
      PROVE  Register!Fail(a)
  <2>1. Phase(a) = "asked" /\ Phase(a)' = "failed"
    BY <1>13, <1>0 DEF PromptAborted, AtLock, Phase, TypeOK, OutcomeDecided, Undecided, Loaded
  <2>2. phaseBar' = [phaseBar EXCEPT ![a] = "failed"]
    BY <1>13, <1>0, <2>1, OthersKeepPhase DEF PromptAborted
  <2> QED BY <1>13, <1>0, <2>1, <2>2 DEF PromptAborted, Register!Fail, phaseBar
<1>14. ASSUME NEW a \in Actors, LockFails(a)
      PROVE  Register!Fail(a)
  <2>1. Phase(a) = "asked" /\ Phase(a)' = "failed"
    BY <1>14, <1>0 DEF LockFails, AtLock, Phase, TypeOK, OutcomeDecided, Undecided, Loaded
  <2>2. phaseBar' = [phaseBar EXCEPT ![a] = "failed"]
    BY <1>14, <1>0, <2>1, OthersKeepPhase DEF LockFails
  <2> QED BY <1>14, <1>0, <2>1, <2>2 DEF LockFails, Register!Fail, phaseBar
<1>15. ASSUME NEW a \in Actors, WriteFails(a)
      PROVE  Register!Fail(a)
  <2>1. Phase(a) = "asked" /\ Phase(a)' = "failed"
    BY <1>15, <1>0 DEF WriteFails, AtLock, Phase, TypeOK, OutcomeDecided, Undecided, Loaded
  <2>2. phaseBar' = [phaseBar EXCEPT ![a] = "failed"]
    BY <1>15, <1>0, <2>1, OthersKeepPhase DEF WriteFails
  <2> QED BY <1>15, <1>0, <2>1, <2>2 DEF WriteFails, Register!Fail, phaseBar
<1>16. ASSUME NEW a \in Actors, LoadUnchanged(a)
      PROVE  Register!Perform(a)
  <2>3. ~Refuses(edit[a], file) /\ Result(edit[a], file) = file
    BY <1>16, <1>0 DEF LoadUnchanged, NothingToDo, Refuses, CheckFails, Creates, Result,
       TypeOK, ValidFiles
  <2>1. Phase(a) = "asked" /\ Phase(a)' = "done"
    BY <1>16, <1>0 DEF LoadUnchanged, AtLock, Phase, TypeOK, OutcomeDecided, Undecided, Loaded
  <2>2. phaseBar' = [phaseBar EXCEPT ![a] = "done"]
    BY <1>16, <1>0, <2>1, OthersKeepPhase DEF LoadUnchanged
  <2> QED BY <1>16, <1>0, <2>1, <2>2, <2>3 DEF LoadUnchanged, Register!Perform, phaseBar
<1>17. ASSUME NEW a \in Actors, Rename(a)
      PROVE  Register!Perform(a)
  <2>3. ~Refuses(edit[a], file) /\ file' = Result(edit[a], file)
    BY <1>17, <1>0 DEF Rename, LoadedIsCurrent, TempIsNext, Loaded
  <2>1. Phase(a) = "asked" /\ Phase(a)' = "done"
    BY <1>17, <1>0 DEF Rename, AtLock, Phase, TypeOK, OutcomeDecided, Undecided, Loaded
  <2>2. phaseBar' = [phaseBar EXCEPT ![a] = "done"]
    BY <1>17, <1>0, <2>1, OthersKeepPhase DEF Rename
  <2> QED BY <1>17, <1>0, <2>1, <2>2, <2>3 DEF Rename, Register!Perform, phaseBar
<1>18. ASSUME NEW a \in Actors, Link(a)
      PROVE  Register!Perform(a)
  <2>3. /\ ~Refuses(edit[a], file) /\ file = NoFile
        /\ file' = Result(edit[a], file) /\ outcome' = [outcome EXCEPT ![a] = "done"]
    BY <1>18, <1>0 DEF Link, LoadedIsCurrent, TempIsNext, Loaded, Creates
  <2>1. Phase(a) = "asked" /\ Phase(a)' = "done"
    BY <1>18, <1>0, <2>3 DEF Link, AtLock, Phase, TypeOK, OutcomeDecided, Undecided, Loaded
  <2>2. phaseBar' = [phaseBar EXCEPT ![a] = "done"]
    BY <1>18, <1>0, <2>1, <2>3, OthersKeepPhase DEF Link
  <2> QED BY <1>18, <1>0, <2>1, <2>2, <2>3 DEF Link, Register!Perform, phaseBar
<1>19. ASSUME NEW a \in Actors, NEW e \in MayAsk(a), Ask(a, e)
      PROVE  Register!Ask(a)
  <2>1. Phase(a) \notin {"asked", "dead"} /\ Phase(a)' = "asked"
    BY <1>19, <1>0 DEF Ask, Phase, TypeOK
  <2>2. phaseBar' = [phaseBar EXCEPT ![a] = "asked"]
    BY <1>19, <1>0, <2>1, OthersKeepPhase DEF Ask
  <2>3. edit' \in [Actors -> Edits] /\ \A b \in Actors \ {a} : edit'[b] = edit[b]
    BY <1>19, <1>0 DEF Ask, TypeOK
  <2> QED BY <1>19, <1>0, <2>1, <2>2, <2>3 DEF Ask, Register!Ask, phaseBar
<1>20. ASSUME NEW l \in Launches, ResolveProfile(l)
      PROVE  UNCHANGED Register!vars
  <2>1. \A b \in Actors : Phase(b)' = Phase(b)
    BY <1>20 DEF ResolveProfile, Phase
  <2> QED BY <1>20, <2>1 DEF ResolveProfile, Register!vars
<1>21. ASSUME NEW p \in Processes, Crash(p)
      PROVE  Register!Next
  <2>1. \A b \in Actors : Phase(b)' = IF b \in Members(p) THEN "dead" ELSE Phase(b)
    BY <1>21, <1>0 DEF Crash, Phase, TypeOK
  <2>2. Register!Die(Members(p))
    BY <1>21, <2>1 DEF Crash, Register!Die
  <2>3. Members(p) \in SUBSET Actors
    BY DEF Members, Processes, Actors
  <2> QED BY <2>2, <2>3 DEF Register!Next
<1>22. CASE UNCHANGED vars
  BY <1>22 DEF vars, Register!vars, Phase
<1>23. ASSUME NEW a \in Actors, AwaitKey(a)
      PROVE  UNCHANGED Register!vars
  <2>1. \A b \in Actors : Phase(b)' = Phase(b)
    BY <1>23, <1>0 DEF AwaitKey, Phase, TypeOK, OutcomeDecided, Undecided, Loaded
  <2> QED BY <1>23, <2>1 DEF AwaitKey, Register!vars
<1>24. ASSUME NEW a \in Actors, KeyRead(a)
      PROVE  UNCHANGED Register!vars
  <2>1. \A b \in Actors : Phase(b)' = Phase(b)
    BY <1>24, <1>0 DEF KeyRead, Phase, TypeOK, OutcomeDecided, Undecided, Loaded
  <2> QED BY <1>24, <2>1 DEF KeyRead, Register!vars
<1>25. ASSUME NEW a \in Actors, KeyRefused(a)
      PROVE  Register!Refuse(a)
  <2>1. Phase(a) = "asked" /\ Phase(a)' = "refused"
    BY <1>25, <1>0 DEF KeyRefused, Phase, TypeOK, OutcomeDecided, Undecided, Loaded
  <2>2. phaseBar' = [phaseBar EXCEPT ![a] = "refused"]
    BY <1>25, <1>0, <2>1, OthersKeepPhase DEF KeyRefused
  <2> QED BY <1>25, <1>0, <2>1, <2>2 DEF KeyRefused, InputIsCurrent, Register!Refuse, phaseBar
<1> QED BY <1>1, <1>2, <1>3, <1>4, <1>5, <1>6, <1>7, <1>8, <1>9, <1>10,
           <1>11, <1>12, <1>13, <1>14, <1>15, <1>16, <1>17, <1>18, <1>19, <1>20, <1>21,
           <1>22, <1>23, <1>24, <1>25 DEF Next, Step, Register!Next

\* Every edit is one step on the file as it then is (lock.go: no update is lost).
THEOREM AtomicFileHolds == Spec => AtomicFile
BY InitImplements, NextImplements, Invariance, PTL DEF Spec, AtomicFile, Register!Spec
=============================================================================
