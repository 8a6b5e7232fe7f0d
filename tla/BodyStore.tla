------------------------------ MODULE BodyStore ------------------------------
(***************************************************************************)
(* The captured bodies of a session: handlers spill bodies to              *)
(* <runtime>/bodies/<id>.json through asynchronous writers, the request    *)
(* ring refers to them, and the end of the session shreds the directory.   *)
(*                                                                         *)
(* Sources: internal/supervisor/bodystore.go, and recordRequest,           *)
(* evictBodyFiles and closeSession of server.go.  A body is its id and its *)
(* size; a record is the set of the bodies it refers to.                   *)
(***************************************************************************)
EXTENDS Naturals, Sequences, FiniteSets, SequencesExt, FiniteSetsExt

CONSTANTS
  Bodies,    \* the ids newBodyID draws, each used once
  Size,      \* the size of each body
  Handlers,  \* goroutines that serve requests
  RingCap,   \* maxSessionRequests
  Budget,    \* budgetBytes
  InOrder    \* TRUE: a writer that was started before the remover of the same
             \* body takes the lock before it

ASSUME BodyAssumption ==
  /\ Size \in [Bodies -> Nat]
  /\ RingCap \in Nat \ {0}
  /\ Budget \in Nat \ {0}
  /\ InOrder \in BOOLEAN
  /\ {"none", "shredder"} \intersect Bodies = {}

VARIABLES
  spilled,   \* the bodies put for each request that is not recorded yet
  ring,      \* sess.requests, oldest first: the bodies of each record
  evicted,   \* the bodies of the records the ring dropped
  writers,   \* bodies with a put goroutine that has not had the lock
  removers,  \* bodies with a delete goroutine that has not had the lock
  mu,        \* bodyStore.mu: the body a writer is writing, or "none"
  files,     \* the <id>.json files, oldest modification first
  whole,     \* the bodies all of whose bytes are on disk
  closed,    \* bodyStore.closed
  shred      \* removeAll: "idle", "waiting" (in wg.Wait), "wiping" or "done"

vars == <<spilled, ring, evicted, writers, removers, mu, files, whole, closed, shred>>

Recorded == UNION ToSet(ring)
InFlight == UNION {spilled[q] : q \in Handlers}
Used == InFlight \union Recorded \union evicted

TotalSize(ids) == MapThenSumSet(LAMBDA b : Size[b], ids)

TypeOK ==
  /\ spilled \in [Handlers -> SUBSET Bodies]
  /\ ring \in Seq(SUBSET Bodies) /\ Len(ring) <= RingCap
  /\ evicted \subseteq Bodies
  /\ writers \subseteq Bodies
  /\ removers \subseteq Bodies
  /\ mu \in Bodies \union {"none", "shredder"}
  /\ files \in Seq(Bodies) /\ IsInjective(files)
  /\ whole \subseteq Bodies
  /\ closed \in BOOLEAN
  /\ shred \in {"idle", "waiting", "wiping", "done"}

Init ==
  /\ spilled = [q \in Handlers |-> {}]
  /\ ring = <<>>
  /\ evicted = {}
  /\ writers = {}
  /\ removers = {}
  /\ mu = "none"
  /\ files = <<>>
  /\ whole = {}
  /\ closed = FALSE
  /\ shred = "idle"

-----------------------------------------------------------------------------
\* put: the caller gets the reference at once, a goroutine writes the file.
\* A request spills at most its client body, its rewritten body and its
\* response.
Put(q, b) ==
  /\ b \notin Used
  /\ Cardinality(spilled[q]) < 3
  /\ spilled' = [spilled EXCEPT ![q] = @ \union {b}]
  /\ writers' = writers \union {b}
  /\ UNCHANGED <<ring, evicted, removers, mu, files, whole, closed, shred>>

\* Mutant: only one of the evicted record's bodies is removed.
RecordRequestEvictsOne(q) ==
  LET full == Len(ring) >= RingCap
      oldest == IF full THEN Head(ring) ELSE {}
  IN
  /\ ring' = Append(IF full THEN Tail(ring) ELSE ring, spilled[q])
  /\ evicted' = evicted \union oldest
  /\ removers' = removers \union {CHOOSE b \in oldest : TRUE : x \in oldest}
  /\ spilled' = [spilled EXCEPT ![q] = {}]
  /\ UNCHANGED <<writers, mu, files, whole, closed, shred>>

\* recordRequest appends the request's record; at the cap the oldest record
\* goes and evictBodyFiles starts the removal of every body it refers to.
RecordRequest(q) ==
  LET full == Len(ring) >= RingCap
      oldest == IF full THEN Head(ring) ELSE {}
  IN
  /\ ring' = Append(IF full THEN Tail(ring) ELSE ring, spilled[q])
  /\ evicted' = evicted \union oldest
  /\ removers' = removers \union oldest
  /\ spilled' = [spilled EXCEPT ![q] = {}]
  /\ UNCHANGED <<writers, mu, files, whole, closed, shred>>

-----------------------------------------------------------------------------
\* A writer takes the lock: after the shred began it writes nothing, otherwise
\* it fills <id>.json.tmp, which no reader opens.
WriteBegin(b) ==
  /\ b \in writers
  /\ mu = "none"
  /\ writers' = writers \ {b}
  /\ mu' = IF closed THEN "none" ELSE b
  /\ UNCHANGED <<spilled, ring, evicted, removers, files, whole, closed, shred>>

\* enforceBudgetLocked: the oldest n files go, as few as make the rest fit.
Newest(fs, n) == SubSeq(fs, n + 1, Len(fs))
Enforces(fs, n) ==
  LET fits(k) == TotalSize(ToSet(Newest(fs, k))) <= Budget
  IN  fits(n) /\ \A k \in 0..(n - 1) : ~fits(k)

\* Mutant of WriteEnd: the budget is enforced before the rename.
WriteEndEnforcesFirst(b) ==
  /\ mu = b
  /\ mu' = "none"
  /\ whole' = whole \union {b}
  /\ \E n \in 0..Len(files) : Enforces(files, n) /\ files' = Append(Newest(files, n), b)
  /\ UNCHANGED <<spilled, ring, evicted, writers, removers, closed, shred>>

\* The rename publishes the whole file; then the budget is enforced.
WriteEnd(b) ==
  /\ mu = b
  /\ mu' = "none"
  /\ whole' = whole \union {b}
  /\ LET all == Append(files, b)
     IN  \E n \in 0..Len(all) : Enforces(all, n) /\ files' = Newest(all, n)
  /\ UNCHANGED <<spilled, ring, evicted, writers, removers, closed, shred>>

\* The directory, the write or the rename failed: the reference stays, the
\* file does not come.  The temporary file that a failed write may leave is no
\* body's (`files` has none) and goes with the directory.
WriteFail(b) ==
  /\ mu = b
  /\ mu' = "none"
  /\ UNCHANGED <<spilled, ring, evicted, writers, removers, files, whole, closed, shred>>

\* delete: the goroutine removes the file that is there now, if any.
DeleteFile(b) ==
  /\ b \in removers
  /\ mu = "none"
  /\ InOrder => b \notin writers
  /\ removers' = removers \ {b}
  /\ IF closed \/ b \notin ToSet(files) THEN files' = files
     ELSE \E i \in DOMAIN files : files[i] = b /\ files' = RemoveAt(files, i)
  /\ UNCHANGED <<spilled, ring, evicted, writers, mu, whole, closed, shred>>

-----------------------------------------------------------------------------
\* Mutant of ShredBegin: the lock is held across wg.Wait.
ShredBeginLocked ==
  /\ shred = "idle"
  /\ mu = "none"
  /\ mu' = "shredder"
  /\ closed' = TRUE
  /\ shred' = "waiting"
  /\ UNCHANGED <<spilled, ring, evicted, writers, removers, files, whole>>

\* removeAll, first critical section.
ShredBegin ==
  /\ shred = "idle"
  /\ mu = "none"
  /\ closed' = TRUE
  /\ shred' = "waiting"
  /\ UNCHANGED <<spilled, ring, evicted, writers, removers, mu, files, whole>>

\* wg.Wait returns when no writer and no remover is left.
ShredWaited ==
  /\ shred = "waiting"
  /\ writers = {} /\ removers = {} /\ mu \in {"none", "shredder"}
  /\ shred' = "wiping"
  /\ UNCHANGED <<spilled, ring, evicted, writers, removers, mu, files, whole, closed>>

\* Second critical section: os.RemoveAll.
ShredEnd ==
  /\ shred = "wiping"
  /\ mu = "none"
  /\ shred' = "done"
  /\ files' = <<>>
  /\ UNCHANGED <<spilled, ring, evicted, writers, removers, mu, whole, closed>>

-----------------------------------------------------------------------------
StoreStep(b) == WriteBegin(b) \/ WriteEnd(b) \/ WriteFail(b) \/ DeleteFile(b)

Next ==
  \/ \E q \in Handlers : RecordRequest(q) \/ \E b \in Bodies : Put(q, b)
  \/ \E b \in Bodies : StoreStep(b)
  \/ ShredBegin
  \/ ShredWaited
  \/ ShredEnd

Spec == Init /\ [][Next]_vars

\* Goroutines run and the lock is released; a request may hang, and nothing
\* makes the session end.
Fairness ==
  /\ \A b \in Bodies : WF_vars(WriteBegin(b)) /\ WF_vars(WriteEnd(b) \/ WriteFail(b))
                       /\ WF_vars(DeleteFile(b))
  /\ WF_vars(ShredWaited)
  /\ WF_vars(ShredEnd)

FairSpec == Spec /\ Fairness

-----------------------------------------------------------------------------
(* Properties. *)

Settled == writers = {} /\ removers = {} /\ mu = "none"

\* Once the writers and removers of a live session have run, every file on disk
\* is a body some record in the ring, or a request not recorded yet, refers to:
\* "All must be deleted on eviction or the spilled file orphans on disk for the
\* rest of the session" (evictBodyFiles).  After the shred no body comes back, whatever writers were
\* started before, during or after it (the closed flag, set before wg.Wait).
NoOrphanFile ==
  /\ Settled /\ ~closed => ToSet(files) \subseteq Recorded \union InFlight
  /\ shred = "done" => files = <<>> /\ mu = "none"

\* A reader that opens <id>.json at any moment reads a whole body: the write goes
\* to a sibling that is renamed into place; and whenever no writer is at work the
\* files fit the budget, although every writer adds its file before it counts
\* (put, load, enforceBudgetLocked).
DiskHolds ==
  /\ TypeOK
  /\ ToSet(files) \subseteq whole
  /\ mu = "none" => TotalSize(ToSet(files)) <= Budget

\* The shred returns: it does not hold the lock its writers need while it
\* waits for them (removeAll).
ShredReturns == shred = "waiting" ~> shred = "done"
=============================================================================
