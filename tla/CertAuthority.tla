--------------------------- MODULE CertAuthority ---------------------------
(***************************************************************************)
(* The local root certificate that every session of a user shares: made by *)
(* the launch that finds none, loaded by the others, and written with the  *)
(* system's roots into the bundle the children trust.                      *)
(*                                                                         *)
(* Source: internal/certs/ca.go.  A root is the launch that made it; the   *)
(* key, the certificate and the bundle are three files, each replaced by a *)
(* rename, and ca.lock is an flock the system releases with its process.   *)
(***************************************************************************)
EXTENDS Naturals, FiniteSets

CONSTANT Launches  \* ccwrap processes

VARIABLES
  key, cert, bundle,  \* the files' roots, Nobody for a file that is not there
  lock,               \* who holds ca.lock
  at,                 \* where each launch is in EnsureCA
  root                \* the root each launch has loaded

caVars == <<key, cert, bundle, lock, at, root>>

Nobody == "nobody"

ASSUME CAAssumption == Nobody \notin Launches

CATypeOK ==
  /\ {key, cert, bundle, lock} \subseteq Launches \union {Nobody}
  /\ at \in [Launches -> {"outside", "locked", "making", "keyed", "rooted", "ready",
                          "failed", "gone"}]
  /\ root \in [Launches -> Launches \union {Nobody}]

CAInit ==
  /\ key = Nobody /\ cert = Nobody /\ bundle = Nobody /\ lock = Nobody
  /\ at = [p \in Launches |-> "outside"]
  /\ root = [p \in Launches |-> Nobody]

Goto(p, s) == at' = [at EXCEPT ![p] = s]
Loads(p, r) == root' = [root EXCEPT ![p] = r]

\* Mutant: nobody waits for the lock.
NoLock(p) ==
  /\ at[p] = "outside"
  /\ lock' = p /\ Goto(p, "locked") /\ UNCHANGED <<key, cert, bundle, root>>

AcquireLock(p) ==
  /\ at[p] = "outside" /\ lock = Nobody
  /\ lock' = p /\ Goto(p, "locked") /\ UNCHANGED <<key, cert, bundle, root>>

LoadCA(p) ==
  /\ at[p] = "locked" /\ key # Nobody /\ cert # Nobody
  /\ Loads(p, cert) /\ Goto(p, "rooted") /\ UNCHANGED <<key, cert, bundle, lock>>

MakeCA(p) ==
  /\ at[p] = "locked" /\ key = Nobody /\ cert = Nobody
  /\ Goto(p, "making") /\ UNCHANGED <<key, cert, bundle, lock, root>>

\* The key is written first: a launch that ends in between leaves it alone.
WriteKey(p) ==
  /\ at[p] = "making"
  /\ key' = p /\ Goto(p, "keyed") /\ UNCHANGED <<cert, bundle, lock, root>>

WriteCert(p) ==
  /\ at[p] = "keyed"
  /\ cert' = p /\ Loads(p, p) /\ Goto(p, "rooted") /\ UNCHANGED <<key, bundle, lock>>

WriteBundle(p) ==
  /\ at[p] = "rooted"
  /\ bundle' = root[p] /\ lock' = Nobody /\ Goto(p, "ready")
  /\ UNCHANGED <<key, cert, root>>

\* Half a root is the user's to repair; a write may fail as well.
EnsureCAFails(p) ==
  /\ \/ at[p] = "locked" /\ (key = Nobody) # (cert = Nobody)
     \/ at[p] \in {"making", "keyed", "rooted"}
  /\ lock' = Nobody /\ Goto(p, "failed") /\ UNCHANGED <<key, cert, bundle, root>>

EnsureCA(p) ==
  \/ AcquireLock(p) \/ LoadCA(p) \/ MakeCA(p) \/ WriteKey(p) \/ WriteCert(p) \/ WriteBundle(p)
  \/ EnsureCAFails(p)

\* The process ends, wherever it is.
Gone(p) ==
  /\ Goto(p, "gone") /\ lock' = (IF lock = p THEN Nobody ELSE lock)
  /\ UNCHANGED <<key, cert, bundle, root>>
=============================================================================
