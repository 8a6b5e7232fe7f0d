-------------------------- MODULE ProfilesRegister --------------------------
(***************************************************************************)
(* What every editor of profiles.json is promised: its edit is one step on *)
(* the file as it then is, it is refused for what the file then holds, and *)
(* a process that dies has made its edit whole or not at all.              *)
(***************************************************************************)
CONSTANTS
  Actors,
  InitialFiles,
  Edits,
  Result(_, _),      \* the file an edit makes of a file
  Refuses(_, _),     \* an edit may not be made to a file
  MayRefuse(_, _)    \* an edit may be refused for what the file holds

VARIABLES
  file,     \* profiles.json
  edit,     \* each actor's edit
  phase     \* idle, asked, done, refused, failed or dead

vars == <<file, edit, phase>>

Init ==
  /\ file \in InitialFiles
  /\ edit \in [Actors -> Edits]
  /\ phase = [a \in Actors |-> "idle"]

Ask(a) ==
  /\ phase[a] \notin {"asked", "dead"}
  /\ edit' \in [Actors -> Edits]
  /\ \A b \in Actors \ {a} : edit'[b] = edit[b]
  /\ phase' = [phase EXCEPT ![a] = "asked"]
  /\ UNCHANGED file

Perform(a) ==
  /\ phase[a] = "asked"
  /\ ~Refuses(edit[a], file)
  /\ file' = Result(edit[a], file)
  /\ phase' = [phase EXCEPT ![a] = "done"]
  /\ UNCHANGED edit

Refuse(a) ==
  /\ phase[a] = "asked"
  /\ Refuses(edit[a], file) \/ MayRefuse(edit[a], file)
  /\ phase' = [phase EXCEPT ![a] = "refused"]
  /\ UNCHANGED <<file, edit>>

\* An I/O error, or a prompt the user aborts.
Fail(a) ==
  /\ phase[a] = "asked"
  /\ phase' = [phase EXCEPT ![a] = "failed"]
  /\ UNCHANGED <<file, edit>>

Die(S) ==
  /\ phase' = [a \in Actors |-> IF a \in S THEN "dead" ELSE phase[a]]
  /\ UNCHANGED <<file, edit>>

Next ==
  \/ \E a \in Actors : Ask(a) \/ Perform(a) \/ Refuse(a) \/ Fail(a)
  \/ \E S \in SUBSET Actors : Die(S)

Spec == Init /\ [][Next]_vars
=============================================================================
