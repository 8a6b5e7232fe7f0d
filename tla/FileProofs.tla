------------------------------ MODULE FileProofs ------------------------------
(* Theorems about two components that own a directory and whose files must     *)
(* neither outlive nor precede what they are of, and about the hub beside the  *)
(* second: BodyStore, for every set of bodies of any sizes, any handlers,      *)
(* every ring and every budget; UiInstance, for any commands that want any     *)
(* versions and any number of services; and UiHub, for any sessions, any room  *)
(* in a page's queue and any number of troubles.                               *)
EXTENDS BodyStore, UiInstance, UiHub, SequenceTheorems, FiniteSetTheorems, WellFoundedInduction, TLAPS

-----------------------------------------------------------------------------
(* BodyStore. *)

\* What the directory holds after the oldest files went is what was there.
LEMMA NewestFacts ==
  ASSUME NEW S, NEW fs \in Seq(S), IsInjective(fs), NEW n \in 0..Len(fs)
  PROVE  /\ Newest(fs, n) \in Seq(S)
         /\ IsInjective(Newest(fs, n))
         /\ ToSet(Newest(fs, n)) \subseteq ToSet(fs)
<1> DEFINE t == Newest(fs, n)
<1>1. /\ Len(fs) \in Nat /\ DOMAIN fs = 1..Len(fs)
      /\ \A i \in 1..Len(fs) : fs[i] \in S
  BY LenProperties, ElementOfSeq
<1>2. /\ t \in Seq(S) /\ Len(t) = Len(fs) - n /\ DOMAIN t = 1..(Len(fs) - n)
      /\ \A i \in 1..(Len(fs) - n) : t[i] = fs[n + i]
  <2>1. n \in Nat /\ n + 1 \in Int /\ Len(fs) \in Int /\ n <= Len(fs)
    BY <1>1
  <2>2. \A i \in (n + 1)..Len(fs) : fs[i] \in S
    BY <1>1, <2>1
  <2>3. /\ t \in Seq(S)
        /\ Len(t) = IF n + 1 <= Len(fs) THEN Len(fs) - (n + 1) + 1 ELSE 0
        /\ \A i \in 1..(Len(fs) - (n + 1) + 1) : t[i] = fs[n + 1 + i - 1]
    BY <2>1, <2>2, SubSeqProperties DEF Newest
  <2> HIDE DEF t
  <2>4. Len(t) = Len(fs) - n
    <3> DEFINE L == Len(fs)
               l == Len(t)
    <3>1. L \in Int /\ n \in Int /\ n <= L /\ l = IF n + 1 <= L THEN L - (n + 1) + 1 ELSE 0
      BY <2>1, <2>3
    <3> HIDE DEF L, l
    <3>2. l = L - n
      BY <3>1
    <3> QED BY <3>2 DEF L, l
  <2>5. \A i \in 1..(Len(fs) - n) : n + 1 + i - 1 = n + i
    BY <1>1, <2>1
  <2>6. Len(fs) - (n + 1) + 1 = Len(fs) - n
    BY <1>1, <2>1
  <2> QED BY <2>3, <2>4, <2>5, <2>6, LenProperties
<1> HIDE DEF t
<1>3. IsInjective(t)
  <2> SUFFICES ASSUME NEW k \in 1..(Len(fs) - n), NEW m \in 1..(Len(fs) - n), t[k] = t[m]
      PROVE  k = m
    BY <1>2 DEF IsInjective
  <2>1. n + k \in DOMAIN fs /\ n + m \in DOMAIN fs /\ fs[n + k] = fs[n + m]
    BY <1>1, <1>2
  <2>2. n + k = n + m
    BY <2>1 DEF IsInjective
  <2> QED BY <2>2
<1>4. ToSet(t) \subseteq ToSet(fs)
  <2> SUFFICES ASSUME NEW k \in 1..(Len(fs) - n) PROVE t[k] \in ToSet(fs)
    BY <1>2 DEF ToSet
  <2>1. n + k \in DOMAIN fs /\ t[k] = fs[n + k]
    BY <1>1, <1>2
  <2> QED BY <2>1 DEF ToSet
<1> QED BY <1>2, <1>3, <1>4 DEF t

\* A renamed file joins the directory once.
LEMMA AppendFacts ==
  ASSUME NEW S, NEW fs \in Seq(S), NEW b \in S
  PROVE  /\ Append(fs, b) \in Seq(S)
         /\ ToSet(Append(fs, b)) = ToSet(fs) \union {b}
         /\ IsInjective(fs) /\ b \notin ToSet(fs) => IsInjective(Append(fs, b))
<1> DEFINE t == Append(fs, b)
<1>1. Len(fs) \in Nat /\ DOMAIN fs = 1..Len(fs)
  BY LenProperties
<1>2. /\ t \in Seq(S) /\ DOMAIN t = 1..(Len(fs) + 1) /\ t[Len(fs) + 1] = b
      /\ \A i \in 1..Len(fs) : t[i] = fs[i]
  BY <1>1
<1> HIDE DEF t
<1>3. ToSet(t) = ToSet(fs) \union {b}
  BY <1>1, <1>2 DEF ToSet
<1>4. IsInjective(fs) /\ b \notin ToSet(fs) => IsInjective(t)
  BY <1>1, <1>2 DEF ToSet, IsInjective
<1> QED BY <1>2, <1>3, <1>4 DEF t

\* A removed file leaves the others.
LEMMA RemoveFacts ==
  ASSUME NEW S, NEW fs \in Seq(S), IsInjective(fs), NEW i \in DOMAIN fs
  PROVE  /\ RemoveAt(fs, i) \in Seq(S)
         /\ IsInjective(RemoveAt(fs, i))
         /\ ToSet(RemoveAt(fs, i)) = ToSet(fs) \ {fs[i]}
<1> DEFINE t == RemoveAt(fs, i)
           L == Len(fs)
<1>1. L \in Nat /\ DOMAIN fs = 1..L /\ i \in 1..L
  BY LenProperties
<1>2. /\ SubSeq(fs, 1, i - 1) \in Seq(S) /\ Len(SubSeq(fs, 1, i - 1)) = i - 1
      /\ \A j \in 1..(i - 1) : SubSeq(fs, 1, i - 1)[j] = fs[j]
  BY <1>1
<1>3. /\ SubSeq(fs, i + 1, L) \in Seq(S) /\ Len(SubSeq(fs, i + 1, L)) = L - i
      /\ \A j \in 1..(L - i) : SubSeq(fs, i + 1, L)[j] = fs[i + j]
  BY <1>1
<1>4. /\ t \in Seq(S) /\ Len(t) = L - 1 /\ DOMAIN t = 1..(L - 1)
      /\ \A j \in 1..(i - 1) : t[j] = fs[j]
      /\ \A j \in i..(L - 1) : t[j] = fs[j + 1]
  <2> DEFINE u == SubSeq(fs, 1, i - 1)
             v == SubSeq(fs, i + 1, L)
  <2>1. t = u \o v
    BY DEF RemoveAt
  <2>2. u \in Seq(S) /\ v \in Seq(S) /\ Len(u) = i - 1 /\ Len(v) = L - i
    BY <1>2, <1>3
  <2>3. \A j \in 1..(i - 1) : u[j] = fs[j]
    BY <1>2
  <2>4. \A j \in 1..(L - i) : v[j] = fs[i + j]
    BY <1>3
  <2> HIDE DEF u, v, t, L
  <2>5. /\ t \in Seq(S) /\ Len(t) = Len(u) + Len(v)
        /\ \A j \in 1..(Len(u) + Len(v)) : t[j] = IF j <= Len(u) THEN u[j] ELSE v[j - Len(u)]
    BY <2>1, <2>2, ConcatProperties
  <2>6. Len(t) = L - 1 /\ DOMAIN t = 1..(L - 1)
    BY <2>2, <2>5, <1>1, LenProperties
  <2>7. \A j \in 1..(i - 1) : t[j] = fs[j]
    BY <2>2, <2>3, <2>5, <1>1
  <2>8. \A j \in i..(L - 1) : t[j] = fs[j + 1]
    <3> TAKE j \in i..(L - 1)
    <3>1. j - (i - 1) \in 1..(L - i) /\ ~(j <= i - 1) /\ i + (j - (i - 1)) = j + 1
          /\ j \in 1..(Len(u) + Len(v))
      BY <1>1, <2>2
    <3>2. t[j] = v[j - (i - 1)]
      BY <3>1, <2>2, <2>5
    <3> QED BY <3>1, <3>2, <2>4
  <2> QED BY <2>5, <2>6, <2>7, <2>8
<1> HIDE DEF t, L
<1>5. \A j \in 1..L : j # i => \E k \in 1..(L - 1) : t[k] = fs[j]
  <2> TAKE j \in 1..L
  <2>1. CASE j < i
    BY <2>1, <1>1, <1>4
  <2>2. CASE j > i
    <3>1. j - 1 \in i..(L - 1) /\ j - 1 \in 1..(L - 1) /\ (j - 1) + 1 = j
      BY <2>2, <1>1
    <3> QED BY <3>1, <1>4
  <2> QED BY <2>1, <2>2, <1>1
<1>6. \A k \in 1..(L - 1) : \E j \in 1..L : j # i /\ t[k] = fs[j] /\ j = IF k < i THEN k ELSE k + 1
  BY <1>1, <1>4
<1>7. IsInjective(t)
  <2> SUFFICES ASSUME NEW k \in 1..(L - 1), NEW m \in 1..(L - 1), t[k] = t[m] PROVE k = m
    BY <1>4 DEF IsInjective
  <2> QED BY <1>1, <1>6 DEF IsInjective
<1>8. ToSet(t) = ToSet(fs) \ {fs[i]}
  <2>1. ToSet(t) \subseteq ToSet(fs) \ {fs[i]}
    <3> SUFFICES ASSUME NEW k \in 1..(L - 1) PROVE t[k] \in ToSet(fs) \ {fs[i]}
      BY <1>4 DEF ToSet
    <3>1. PICK j \in 1..L : j # i /\ t[k] = fs[j]
      BY <1>6
    <3>2. fs[j] # fs[i]
      BY <1>1, <3>1 DEF IsInjective
    <3> QED BY <1>1, <3>1, <3>2 DEF ToSet
  <2>2. ToSet(fs) \ {fs[i]} \subseteq ToSet(t)
    <3> SUFFICES ASSUME NEW j \in 1..L, fs[j] # fs[i] PROVE fs[j] \in ToSet(t)
      BY <1>1 DEF ToSet
    <3>1. PICK k \in 1..(L - 1) : t[k] = fs[j]
      BY <1>5
    <3> QED BY <1>4, <3>1 DEF ToSet
  <2> QED BY <2>1, <2>2
<1> QED BY <1>4, <1>7, <1>8 DEF t
-----------------------------------------------------------------------------
\* A body is at one place: to be written, being written, or a whole file; and
\* its id was drawn for a request.
Placed ==
  /\ writers \subseteq Used /\ ToSet(files) \subseteq Used
  /\ mu \in Bodies => mu \in Used /\ mu \notin writers \union ToSet(files)
  /\ writers \intersect ToSet(files) = {}
  /\ ToSet(files) \subseteq whole

\* A record takes its request's bodies into the ring; those of the record it
\* pushes out go to the removers.
LEMMA RecordFacts ==
  ASSUME TypeOK, NEW q \in Handlers, RecordRequest(q)
  PROVE  /\ spilled' \in [Handlers -> SUBSET Bodies]
         /\ ring' \in Seq(SUBSET Bodies) /\ Len(ring') <= RingCap
         /\ evicted' \subseteq Bodies /\ evicted \subseteq evicted'
         /\ removers' \subseteq Bodies /\ removers \subseteq removers'
         /\ InFlight \union Recorded \subseteq
              InFlight' \union Recorded' \union (removers' \intersect evicted')
<1> DEFINE full == Len(ring) >= RingCap
           oldest == IF full THEN Head(ring) ELSE {}
           rest == IF full THEN Tail(ring) ELSE ring
<1>1. /\ ring' = Append(rest, spilled[q]) /\ evicted' = evicted \union oldest
      /\ removers' = removers \union oldest /\ spilled' = [spilled EXCEPT ![q] = {}]
  BY DEF RecordRequest
<1>2. /\ ring \in Seq(SUBSET Bodies) /\ Len(ring) \in Nat /\ Len(ring) <= RingCap
      /\ RingCap \in Nat \ {0} /\ spilled \in [Handlers -> SUBSET Bodies]
      /\ DOMAIN ring = 1..Len(ring) /\ spilled[q] \in SUBSET Bodies
  BY BodyAssumption, LenProperties DEF TypeOK, BodyAssumption
<1>3. /\ rest \in Seq(SUBSET Bodies) /\ Len(rest) < RingCap
      /\ oldest \in SUBSET Bodies
      /\ ToSet(ring) \subseteq ToSet(rest) \union {oldest}
  <2>1. CASE ~full
    BY <2>1, <1>2
  <2>2. CASE full
    <3>1. ring # <<>>
      BY <2>2, <1>2
    <3>2. /\ Head(ring) \in SUBSET Bodies /\ Tail(ring) \in Seq(SUBSET Bodies)
          /\ Len(Tail(ring)) = Len(ring) - 1
          /\ \A i \in 1..Len(Tail(ring)) : Tail(ring)[i] = ring[i + 1]
      BY <3>1, <1>2, HeadTailProperties
    <3>3. DOMAIN Tail(ring) = 1..(Len(ring) - 1)
      BY <3>2, LenProperties
    <3>4. \A i \in 1..Len(ring) : ring[i] = Head(ring) \/ ring[i] \in ToSet(Tail(ring))
      <4> TAKE i \in 1..Len(ring)
      <4>1. CASE i = 1
        BY <4>1, <3>1, <1>2
      <4>2. CASE i # 1
        <5>1. i - 1 \in 1..(Len(ring) - 1) /\ (i - 1) + 1 = i
          BY <4>2, <1>2
        <5>2. Tail(ring)[i - 1] = ring[i]
          BY <5>1, <3>2
        <5> QED BY <5>1, <5>2, <3>3 DEF ToSet
      <4> QED BY <4>1, <4>2
    <3>5. ToSet(ring) \subseteq ToSet(Tail(ring)) \union {Head(ring)}
      BY <3>4, <1>2 DEF ToSet
    <3>6. Len(Tail(ring)) < RingCap
      BY <3>2, <1>2
    <3> QED BY <2>2, <3>2, <3>5, <3>6
  <2> QED BY <2>1, <2>2
<1> HIDE DEF full, oldest, rest
<1>4. /\ ring' \in Seq(SUBSET Bodies) /\ ToSet(ring') = ToSet(rest) \union {spilled[q]}
      /\ Len(ring') = Len(rest) + 1
  BY <1>1, <1>2, <1>3, AppendFacts, AppendProperties
<1>5. Len(ring') <= RingCap
  BY <1>2, <1>3, <1>4, LenProperties
<1>6. spilled' \in [Handlers -> SUBSET Bodies]
  BY <1>1, <1>2
<1>7. InFlight \subseteq InFlight' \union spilled[q]
  BY <1>1, <1>2 DEF InFlight
<1>8. Recorded \subseteq Recorded' \union oldest /\ spilled[q] \subseteq Recorded'
  BY <1>3, <1>4 DEF Recorded
<1>9. oldest \subseteq removers' \intersect evicted'
  BY <1>1
<1>10. /\ evicted' \subseteq Bodies /\ evicted \subseteq evicted'
       /\ removers' \subseteq Bodies /\ removers \subseteq removers'
  BY <1>1, <1>3 DEF TypeOK
<1> QED BY <1>4, <1>5, <1>6, <1>7, <1>8, <1>9, <1>10

\* A new body is put under an id nobody used, and nothing else changes hands.
LEMMA PutFacts ==
  ASSUME TypeOK, NEW q \in Handlers, NEW b \in Bodies, Put(q, b)
  PROVE  /\ spilled' \in [Handlers -> SUBSET Bodies]
         /\ InFlight' = InFlight \union {b}
         /\ Recorded' = Recorded /\ evicted' = evicted
<1>1. spilled \in [Handlers -> SUBSET Bodies]
  BY DEF TypeOK
<1>2. /\ spilled' = [spilled EXCEPT ![q] = spilled[q] \union {b}]
      /\ ring' = ring /\ evicted' = evicted
  BY DEF Put
<1>3. InFlight' = InFlight \union {b}
  BY <1>1, <1>2 DEF InFlight
<1> QED BY <1>1, <1>2, <1>3 DEF Recorded

\* Which files a step of the store leaves, and that they are files still.
LEMMA FileFacts ==
  ASSUME TypeOK, Placed, NEW b \in Bodies, WriteEnd(b) \/ DeleteFile(b)
  PROVE  /\ files' \in Seq(Bodies) /\ IsInjective(files')
         /\ WriteEnd(b) => ToSet(files') \subseteq ToSet(files) \union {b}
         /\ DeleteFile(b) => /\ ToSet(files') \subseteq ToSet(files)
                             /\ ~closed => b \notin ToSet(files')
<1>0. files \in Seq(Bodies) /\ IsInjective(files) /\ DOMAIN files = 1..Len(files)
  BY LenProperties DEF TypeOK
<1>1. CASE WriteEnd(b)
  <2> DEFINE all == Append(files, b)
  <2>1. b \notin ToSet(files)
    BY <1>1 DEF WriteEnd, Placed
  <2>2. /\ all \in Seq(Bodies) /\ IsInjective(all)
        /\ ToSet(all) = ToSet(files) \union {b}
    BY <1>0, <2>1, AppendFacts
  <2>3. PICK n \in 0..Len(all) : files' = Newest(all, n)
    BY <1>1 DEF WriteEnd
  <2> HIDE DEF all
  <2>4. /\ files' \in Seq(Bodies) /\ IsInjective(files') /\ ToSet(files') \subseteq ToSet(all)
    BY <2>2, <2>3, NewestFacts
  <2>5. mu = b /\ ~DeleteFile(b)
    BY <1>1, BodyAssumption DEF WriteEnd, DeleteFile, BodyAssumption
  <2> QED BY <2>2, <2>4, <2>5
<1>2. CASE DeleteFile(b) /\ (closed \/ b \notin ToSet(files))
  <2>1. files' = files /\ mu = "none"
    BY <1>2 DEF DeleteFile
  <2>2. ~WriteEnd(b)
    BY <2>1, BodyAssumption DEF WriteEnd, BodyAssumption
  <2> QED BY <1>0, <1>2, <2>1, <2>2
<1>3. CASE DeleteFile(b) /\ ~(closed \/ b \notin ToSet(files))
  <2>1. PICK i \in DOMAIN files : files[i] = b /\ files' = RemoveAt(files, i)
    BY <1>3 DEF DeleteFile
  <2>2. mu = "none"
    BY <1>3 DEF DeleteFile
  <2>3. ~WriteEnd(b)
    BY <2>2, BodyAssumption DEF WriteEnd, BodyAssumption
  <2> QED BY <1>0, <2>1, <2>3, RemoveFacts
<1> QED BY <1>1, <1>2, <1>3
-----------------------------------------------------------------------------
\* Every step keeps the types, and each body at one place.
LEMMA PlacedInductive ==
  ASSUME TypeOK, Placed, [Next]_vars
  PROVE  TypeOK' /\ Placed'
<1> DEFINE P == TypeOK' /\ Placed'
<1>0. "none" \notin Bodies /\ "shredder" \notin Bodies
  BY BodyAssumption DEF BodyAssumption
<1>1. ASSUME NEW q \in Handlers, RecordRequest(q) PROVE P
  <2>1. UNCHANGED <<writers, mu, files, whole, closed, shred>>
    BY <1>1 DEF RecordRequest
  <2>2. TypeOK'
    BY <1>1, <2>1, RecordFacts DEF TypeOK
  <2>3. Used \subseteq Used'
    BY <1>1, RecordFacts DEF Used
  <2> QED BY <2>1, <2>2, <2>3 DEF Placed
<1>2. ASSUME NEW q \in Handlers, NEW b \in Bodies, Put(q, b) PROVE P
  <2>1. /\ UNCHANGED <<ring, evicted, removers, mu, files, whole, closed, shred>>
        /\ writers' = writers \union {b} /\ b \notin Used
    BY <1>2 DEF Put
  <2>2. TypeOK'
    BY <1>2, <2>1, PutFacts DEF TypeOK
  <2>3. Used' = Used \union {b}
    BY <1>2, PutFacts DEF Used
  <2> QED BY <2>1, <2>2, <2>3 DEF Placed
<1>3. ASSUME NEW b \in Bodies, StoreStep(b) PROVE P
  <2>1. Used' = Used /\ UNCHANGED <<spilled, ring, evicted>>
    BY <1>3 DEF StoreStep, WriteBegin, WriteEnd, WriteFail, DeleteFile, Used, InFlight, Recorded
  <2>2. CASE WriteBegin(b)
    BY <2>1, <2>2, <1>0 DEF WriteBegin, Placed, TypeOK
  <2>3. CASE WriteEnd(b)
    <3>1. mu = b /\ mu' = "none" /\ whole' = whole \union {b}
          /\ UNCHANGED <<spilled, ring, evicted, writers, removers, closed, shred>>
      BY <2>3 DEF WriteEnd
    <3>2. /\ files' \in Seq(Bodies) /\ IsInjective(files')
          /\ ToSet(files') \subseteq ToSet(files) \union {b}
      BY <2>3, FileFacts
    <3>3. TypeOK'
      BY <3>1, <3>2 DEF TypeOK
    <3> QED BY <3>1, <3>2, <3>3, <2>1, <1>0 DEF Placed
  <2>4. CASE WriteFail(b)
    BY <2>1, <2>4, <1>0 DEF WriteFail, Placed, TypeOK
  <2>5. CASE DeleteFile(b)
    <3>1. /\ removers' = removers \ {b}
          /\ UNCHANGED <<spilled, ring, evicted, writers, mu, whole, closed, shred>>
      BY <2>5 DEF DeleteFile
    <3>2. /\ files' \in Seq(Bodies) /\ IsInjective(files') /\ ToSet(files') \subseteq ToSet(files)
      BY <2>5, FileFacts
    <3>3. TypeOK'
      BY <3>1, <3>2 DEF TypeOK
    <3> QED BY <3>1, <3>2, <3>3, <2>1 DEF Placed
  <2> QED BY <1>3, <2>2, <2>3, <2>4, <2>5 DEF StoreStep
<1>4. CASE ShredBegin \/ ShredWaited
  <2>1. /\ UNCHANGED <<spilled, ring, evicted, writers, removers, mu, files, whole>>
        /\ closed' \in BOOLEAN /\ shred' \in {"idle", "waiting", "wiping", "done"}
    BY <1>4 DEF ShredBegin, ShredWaited, TypeOK
  <2>2. Used' = Used
    BY <2>1 DEF Used, InFlight, Recorded
  <2> QED BY <2>1, <2>2 DEF TypeOK, Placed
<1>5. CASE ShredEnd
  <2>1. /\ UNCHANGED <<spilled, ring, evicted, writers, removers, mu, whole, closed>>
        /\ files' = <<>> /\ shred' = "done"
    BY <1>5 DEF ShredEnd
  <2>2. Used' = Used /\ ToSet(files') = {} /\ IsInjective(files') /\ files' \in Seq(Bodies)
    BY <2>1 DEF Used, InFlight, Recorded, ToSet, IsInjective
  <2> QED BY <2>1, <2>2 DEF TypeOK, Placed
<1>6. CASE UNCHANGED vars
  <2>1. UNCHANGED <<spilled, ring, evicted, writers, removers, mu, files, whole, closed, shred>>
    BY <1>6 DEF vars
  <2>2. Used' = Used
    BY <2>1 DEF Used, InFlight, Recorded
  <2> QED BY <2>1, <2>2 DEF TypeOK, Placed
<1> QED BY <1>1, <1>2, <1>3, <1>4, <1>5, <1>6 DEF Next

LEMMA PlacedInvariant == Spec => [](TypeOK /\ Placed)
<1>1. Init => TypeOK /\ Placed
  <2> SUFFICES ASSUME Init PROVE TypeOK /\ Placed
    OBVIOUS
  <2>1. files = <<>> /\ ring = <<>> /\ writers = {} /\ mu = "none"
    BY DEF Init
  <2>2. ToSet(files) = {} /\ IsInjective(files) /\ files \in Seq(Bodies)
    BY <2>1 DEF ToSet, IsInjective
  <2>3. ring \in Seq(SUBSET Bodies) /\ Len(ring) <= RingCap
    BY <2>1, BodyAssumption DEF BodyAssumption
  <2> QED BY <2>1, <2>2, <2>3, BodyAssumption DEF Init, TypeOK, Placed, BodyAssumption
<1>2. TypeOK /\ Placed /\ [Next]_vars => TypeOK' /\ Placed'
  BY PlacedInductive
<1> QED BY <1>1, <1>2, PTL DEF Spec

\* The store's state keeps its types; no body has two files.
THEOREM TypeCorrect == Spec => []TypeOK
BY PlacedInvariant, PTL

\* A reader that opens a body's file at any moment reads all of it: only a
\* rename of a whole file puts one there.
THEOREM ReaderSeesWhole == Spec => [](ToSet(files) \subseteq whole)
<1>1. Placed => ToSet(files) \subseteq whole
  BY DEF Placed
<1> QED BY <1>1, PlacedInvariant, PTL

-----------------------------------------------------------------------------
\* Before the shred, a body on its way to disk or there is in use, or its
\* remover is still to run.  From the shred on nobody writes.
OwnedInv ==
  /\ ~closed => /\ writers \union ToSet(files) \subseteq InFlight \union Recorded \union removers
                /\ mu \in Bodies => mu \in InFlight \union Recorded \union removers
  /\ mu # "shredder"
  /\ shred # "idle" => closed
  /\ shred \in {"wiping", "done"} => mu = "none"
  /\ shred = "done" => files = <<>>

\* A remover that runs after its body's writer leaves no file behind, so every
\* step keeps the account.
LEMMA OwnedInductive ==
  ASSUME InOrder, TypeOK, Placed, OwnedInv, [Next]_vars
  PROVE  OwnedInv'
<1>0. "none" \notin Bodies /\ "shredder" \notin Bodies
  BY BodyAssumption DEF BodyAssumption
<1>1. ASSUME NEW q \in Handlers, RecordRequest(q) PROVE OwnedInv'
  <2>1. UNCHANGED <<writers, mu, files, whole, closed, shred>>
    BY <1>1 DEF RecordRequest
  <2>2. InFlight \union Recorded \union removers \subseteq InFlight' \union Recorded' \union removers'
    BY <1>1, RecordFacts
  <2> QED BY <2>1, <2>2 DEF OwnedInv
<1>2. ASSUME NEW q \in Handlers, NEW b \in Bodies, Put(q, b) PROVE OwnedInv'
  <2>1. /\ UNCHANGED <<ring, evicted, removers, mu, files, whole, closed, shred>>
        /\ writers' = writers \union {b}
    BY <1>2 DEF Put
  <2> QED BY <1>2, <2>1, PutFacts DEF OwnedInv
<1>3. ASSUME NEW b \in Bodies, StoreStep(b) PROVE OwnedInv'
  <2>1. InFlight' = InFlight /\ Recorded' = Recorded
    BY <1>3 DEF StoreStep, WriteBegin, WriteEnd, WriteFail, DeleteFile, InFlight, Recorded
  <2>2. CASE WriteBegin(b)
    BY <2>1, <2>2, <1>0 DEF WriteBegin, OwnedInv
  <2>3. CASE WriteEnd(b)
    <3>1. mu = b /\ mu' = "none" /\ UNCHANGED <<writers, removers, closed, shred>>
      BY <2>3 DEF WriteEnd
    <3>2. ToSet(files') \subseteq ToSet(files) \union {b}
      BY <2>3, FileFacts
    <3> QED BY <3>1, <3>2, <2>1, <1>0 DEF OwnedInv
  <2>4. CASE WriteFail(b)
    BY <2>1, <2>4, <1>0 DEF WriteFail, OwnedInv
  <2>5. CASE DeleteFile(b)
    <3>1. /\ removers' = removers \ {b} /\ mu = "none" /\ b \notin writers
          /\ UNCHANGED <<writers, mu, closed, shred>>
      BY <2>5 DEF DeleteFile
    <3>2. ToSet(files') \subseteq ToSet(files) /\ (~closed => b \notin ToSet(files'))
      BY <2>5, FileFacts
    <3>3. closed => files' = files
      BY <2>5 DEF DeleteFile
    <3> QED BY <3>1, <3>2, <3>3, <2>1, <1>0 DEF OwnedInv
  <2> QED BY <1>3, <2>2, <2>3, <2>4, <2>5 DEF StoreStep
<1>4. CASE ShredBegin BY <1>4 DEF ShredBegin, OwnedInv
<1>5. CASE ShredWaited BY <1>5 DEF ShredWaited, OwnedInv
<1>6. CASE ShredEnd BY <1>6 DEF ShredEnd, OwnedInv
<1>7. CASE UNCHANGED vars
  BY <1>7 DEF vars, OwnedInv, InFlight, Recorded
<1> QED BY <1>1, <1>2, <1>3, <1>4, <1>5, <1>6, <1>7 DEF Next

\* Evictions leave no file behind once the goroutines have run, and the shred
\* leaves none at all, when a body's remover runs after its writer.
THEOREM NoOrphanFileHolds == ASSUME InOrder PROVE Spec => []NoOrphanFile
<1>1. Init => OwnedInv
  <2> SUFFICES ASSUME Init PROVE OwnedInv
    OBVIOUS
  <2>1. ToSet(files) = {}
    BY DEF Init, ToSet
  <2> QED BY <2>1, BodyAssumption DEF Init, OwnedInv, BodyAssumption
<1>2. InOrder /\ TypeOK /\ Placed /\ OwnedInv /\ [Next]_vars => OwnedInv'
  BY OwnedInductive
<1>3. OwnedInv => NoOrphanFile
  BY DEF OwnedInv, NoOrphanFile, Settled
<1>4. TypeOK /\ Placed /\ OwnedInv /\ [Next]_vars => OwnedInv'
  BY <1>2
<1> QED BY <1>1, <1>3, <1>4, PlacedInvariant, PTL DEF Spec

-----------------------------------------------------------------------------
\* What the sizes of a set of bodies add up to, as the fold adds them: Adds says
\* that f does so for every subset of ids.
Pick(ids) == CHOOSE b \in ids : TRUE
Adds(f, ids) ==
  f = [s \in SUBSET ids |-> IF s = {} THEN 0 ELSE Size[Pick(s)] + f[s \ {Pick(s)}]]

\* Among sets of finite sets of bodies there is one that no other is inside of.
LEMMA LeastSet ==
  ASSUME NEW X, X # {}, \A s \in X : IsFiniteSet(s) /\ s \subseteq Bodies
  PROVE  \E s \in X : \A t \in X : t \subseteq s => t = s
<1> DEFINE R == StrictSubsetOrdering(Bodies)
<1>1. IsWellFoundedOn(R, FiniteSubsetsOf(Bodies))
  BY FS_StrictSubsetOrderingWellFounded, Zenon
<1>2. X \subseteq FiniteSubsetsOf(Bodies)
  BY DEF FiniteSubsetsOf
<1>3. \A s, t \in X : t \subseteq s /\ t # s => <<t, s>> \in R
  BY DEF StrictSubsetOrdering
<1> HIDE DEF R
<1>4. PICK s \in X : \A t \in X : ~(<<t, s>> \in R)
  BY <1>1, <1>2, WFMin, Zenon
<1> QED BY <1>3, <1>4

\* What is added of a set does not depend on the set it is a part of.
LEMMA AddsOneWay ==
  ASSUME NEW f, NEW g, NEW A \in SUBSET Bodies, NEW B \in SUBSET Bodies, IsFiniteSet(A),
         Adds(f, A), Adds(g, B), NEW c \in SUBSET A, c \subseteq B
  PROVE  f[c] = g[c]
<1> DEFINE X == {s \in SUBSET A : s \subseteq B /\ f[s] # g[s]}
<1> SUFFICES ASSUME X # {} PROVE FALSE
  OBVIOUS
<1>1. \A s \in X : IsFiniteSet(s) /\ s \subseteq Bodies
  BY FS_Subset
<1>2. \E s \in X : \A t \in X : t \subseteq s => t = s
  <2> HIDE DEF X
  <2> QED BY <1>1, LeastSet
<1>3. PICK s \in X : \A t \in X : t \subseteq s => t = s
  BY <1>2
<1> DEFINE p == Pick(s)
<1>4. /\ f[s] = IF s = {} THEN 0 ELSE Size[p] + f[s \ {p}]
      /\ g[s] = IF s = {} THEN 0 ELSE Size[p] + g[s \ {p}]
  BY DEF Adds
<1>5. CASE s = {}
  BY <1>4, <1>5
<1>6. CASE s # {}
  <2>1. p \in s
    BY <1>6 DEF Pick
  <2>2. s \ {p} \notin X
    BY <1>3, <2>1
  <2>3. f[s \ {p}] = g[s \ {p}]
    BY <2>2
  <2> QED BY <1>4, <1>6, <2>3
<1> QED BY <1>5, <1>6

\* What ids add up to, whichever function adds them.
SumOf(ids) == (CHOOSE f : Adds(f, ids))[ids]

\* There is a function that adds the sizes of every finite set.
LEMMA SomethingAdds ==
  ASSUME NEW A \in SUBSET Bodies, IsFiniteSet(A)
  PROVE  \E f : Adds(f, A)
<1> DEFINE X == {s \in SUBSET A : ~\E f : Adds(f, s)}
<1> SUFFICES ASSUME X # {} PROVE FALSE
  OBVIOUS
<1>1. \A s \in X : IsFiniteSet(s) /\ s \subseteq Bodies
  BY FS_Subset
<1>2. \E s \in X : \A t \in X : t \subseteq s => t = s
  <2> HIDE DEF X
  <2> QED BY <1>1, LeastSet
<1>3. PICK s \in X : \A t \in X : t \subseteq s => t = s
  BY <1>2
<1>4. \A t \in SUBSET s : t # s => Adds(CHOOSE f : Adds(f, t), t)
  BY <1>3
<1> DEFINE h == [t \in SUBSET s |-> IF t = {} THEN 0 ELSE Size[Pick(t)] + SumOf(t \ {Pick(t)})]
<1>5. ASSUME NEW t \in SUBSET s, t # {}
      PROVE  /\ Pick(t) \in t
             /\ h[t \ {Pick(t)}] = SumOf(t \ {Pick(t)})
  <2> DEFINE p == Pick(t)
             r == t \ {p}
             f == CHOOSE f : Adds(f, r)
  <2>1. p \in t
    BY <1>5 DEF Pick
  <2>2. r \in SUBSET s /\ r # s /\ Adds(f, r)
    BY <1>4, <2>1
  <2>3. h[r] = IF r = {} THEN 0 ELSE Size[Pick(r)] + SumOf(r \ {Pick(r)})
    BY <2>2
  <2>4. f[r] = IF r = {} THEN 0 ELSE Size[Pick(r)] + f[r \ {Pick(r)}]
    <3> HIDE DEF f, r
    <3> QED BY <2>2 DEF Adds
  <2>9. SumOf(r) = f[r]
    BY DEF SumOf
  <2>5. CASE r = {}
    <3> HIDE DEF r, f, h, p
    <3>1. h[r] = SumOf(r)
      BY <2>3, <2>4, <2>5, <2>9
    <3> QED BY <2>1, <3>1 DEF r, p
  <2>6. CASE r # {}
    <3> DEFINE u == r \ {Pick(r)}
               g == CHOOSE g : Adds(g, u)
    <3>1. u \in SUBSET s /\ u # s /\ u \in SUBSET r /\ u \subseteq u /\ r \in SUBSET Bodies /\ u \in SUBSET Bodies
      BY <2>1, <2>2
    <3>2. Adds(g, u)
      BY <1>4, <3>1
    <3>3. IsFiniteSet(r)
      BY <2>2, FS_Subset
    <3> HIDE DEF f, g, r
    <3>4. f[u] = g[u]
      <4> HIDE DEF u
      <4> QED BY <2>2, <3>1, <3>2, <3>3, AddsOneWay
    <3>5. SumOf(u) = g[u]
      BY DEF SumOf, g
    <3> HIDE DEF h, p
    <3>6. h[r] = SumOf(r)
      BY <2>3, <2>4, <2>6, <2>9, <3>4, <3>5 DEF r, f, g
    <3> QED BY <2>1, <3>6 DEF r, p
  <2> QED BY <2>1, <2>5, <2>6
<1>6. \A t \in SUBSET s : h[t] = IF t = {} THEN 0 ELSE Size[Pick(t)] + h[t \ {Pick(t)}]
  BY <1>5
<1>7. Adds(h, s)
  BY <1>6 DEF Adds
<1> QED BY <1>3, <1>7

\* The sum of a set is the size of the picked body and the sum of the others.
LEMMA SumStep ==
  ASSUME NEW A \in SUBSET Bodies, IsFiniteSet(A)
  PROVE  /\ A = {} => SumOf(A) = 0
         /\ A # {} => Pick(A) \in A /\ SumOf(A) = Size[Pick(A)] + SumOf(A \ {Pick(A)})
<1> DEFINE p == Pick(A)
           B == A \ {p}
           f == CHOOSE f : Adds(f, A)
           g == CHOOSE g : Adds(g, B)
<1>1. IsFiniteSet(B) /\ B \in SUBSET Bodies /\ B \in SUBSET A
  BY FS_Subset
<1>2. Adds(f, A) /\ Adds(g, B)
  BY <1>1, SomethingAdds
<1> HIDE DEF f, g
<1>3. f[A] = IF A = {} THEN 0 ELSE Size[p] + f[B]
  BY <1>2 DEF Adds
<1>4. f[B] = g[B]
  BY <1>1, <1>2, AddsOneWay
<1>5. A # {} => p \in A
  BY DEF Pick
<1> QED BY <1>3, <1>4, <1>5 DEF SumOf, f, g

\* The sum of a finite set is a number, and any of its bodies can be counted first.
LEMMA SumAny ==
  ASSUME NEW A \in SUBSET Bodies, IsFiniteSet(A)
  PROVE  /\ SumOf(A) \in Nat
         /\ \A b \in A : SumOf(A) = Size[b] + SumOf(A \ {b})
<1> DEFINE Good(s) == SumOf(s) \in Nat /\ \A b \in s : SumOf(s) = Size[b] + SumOf(s \ {b})
           X == {s \in SUBSET A : ~Good(s)}
<1> SUFFICES ASSUME X # {} PROVE FALSE
  OBVIOUS
<1>1. \A s \in X : IsFiniteSet(s) /\ s \subseteq Bodies
  BY FS_Subset
<1>2. \E s \in X : \A t \in X : t \subseteq s => t = s
  <2> HIDE DEF X
  <2> QED BY <1>1, LeastSet
<1>3. PICK s \in X : \A t \in X : t \subseteq s => t = s
  BY <1>2
<1>4. \A t \in SUBSET s : t # s => Good(t)
  BY <1>3
<1>5. IsFiniteSet(s) /\ s \in SUBSET Bodies /\ ~Good(s)
  BY <1>1
<1>6. Size \in [Bodies -> Nat]
  BY BodyAssumption DEF BodyAssumption
<1> HIDE DEF X
<1>7. s # {}
  <2>1. s = {} => SumOf(s) = 0
    BY <1>5, SumStep
  <2> QED BY <1>5, <2>1
<1> DEFINE p == Pick(s)
<1>8. p \in s /\ SumOf(s) = Size[p] + SumOf(s \ {p})
  BY <1>5, <1>7, SumStep
<1>9. SumOf(s) \in Nat
  BY <1>4, <1>5, <1>6, <1>8
<1>10. ASSUME NEW b \in s, b # p PROVE SumOf(s) = Size[b] + SumOf(s \ {b})
  <2> HIDE DEF p
  <2>1. (s \ {p}) \ {b} = (s \ {b}) \ {p}
    OBVIOUS
  <2>2. SumOf(s \ {p}) = Size[b] + SumOf((s \ {p}) \ {b})
    BY <1>4, <1>8, <1>10
  <2>3. SumOf(s \ {b}) = Size[p] + SumOf((s \ {p}) \ {b})
    BY <1>4, <1>8, <1>10, <2>1
  <2>4. SumOf((s \ {p}) \ {b}) \in Nat /\ Size[p] \in Nat /\ Size[b] \in Nat
    BY <1>4, <1>5, <1>6, <1>8
  <2> QED BY <1>8, <2>2, <2>3, <2>4
<1> QED BY <1>5, <1>8, <1>9, <1>10

\* A part of a finite set adds up to no more than the set.
LEMMA TotalSizeGrows ==
  ASSUME NEW B \in SUBSET Bodies, IsFiniteSet(B), NEW A \in SUBSET B
  PROVE  TotalSize(A) <= TotalSize(B)
<1>0. \A s : TotalSize(s) = SumOf(s)
  BY DEF TotalSize, MapThenSumSet, MapThenFoldSet, SumOf, Adds, Pick
<1> DEFINE X == {s \in SUBSET B : A \subseteq s /\ ~(SumOf(A) <= SumOf(s))}
<1> SUFFICES ASSUME X # {} PROVE FALSE
  BY <1>0
<1>1. \A s \in X : IsFiniteSet(s) /\ s \subseteq Bodies
  BY FS_Subset
<1>2. \E s \in X : \A t \in X : t \subseteq s => t = s
  <2> HIDE DEF X
  <2> QED BY <1>1, LeastSet
<1>3. PICK s \in X : \A t \in X : t \subseteq s => t = s
  BY <1>2
<1>4. IsFiniteSet(A) /\ A \in SUBSET Bodies /\ SumOf(A) \in Nat
  BY FS_Subset, SumAny
<1>5. A # s
  BY <1>4
<1>6. PICK b \in s : b \notin A
  BY <1>5
<1>7. IsFiniteSet(s \ {b}) /\ s \ {b} \in SUBSET Bodies /\ IsFiniteSet(s) /\ s \in SUBSET Bodies
  BY <1>1, FS_Subset
<1>8. SumOf(s) = Size[b] + SumOf(s \ {b}) /\ SumOf(s \ {b}) \in Nat /\ SumOf(s) \in Nat
  BY <1>7, SumAny
<1>9. Size[b] \in Nat
  BY <1>7, BodyAssumption DEF BodyAssumption
<1>10. SumOf(A) <= SumOf(s \ {b})
  BY <1>3, <1>6
<1> QED BY <1>4, <1>8, <1>9, <1>10

\* What the sizes of finitely many bodies add up to is a number.
LEMMA TotalSizeType ==
  ASSUME NEW A \in SUBSET Bodies, IsFiniteSet(A)
  PROVE  TotalSize(A) \in Nat
<1>0. TotalSize(A) = SumOf(A)
  BY DEF TotalSize, MapThenSumSet, MapThenFoldSet, SumOf, Adds, Pick
<1> QED BY <1>0, SumAny

\* A set of no bodies has no size.
LEMMA TotalSizeOfNone == TotalSize({}) = 0
<1>0. TotalSize({}) = SumOf({})
  BY DEF TotalSize, MapThenSumSet, MapThenFoldSet, SumOf, Adds, Pick
<1> QED BY <1>0, SumStep, FS_EmptySet

\* The files on disk are finitely many.
LEMMA FilesFinite == ASSUME NEW fs \in Seq(Bodies) PROVE IsFiniteSet(ToSet(fs)) /\ ToSet(fs) \subseteq Bodies
<1>1. Len(fs) \in Nat /\ DOMAIN fs = 1..Len(fs) /\ \A i \in 1..Len(fs) : fs[i] \in Bodies
  BY LenProperties, ElementOfSeq
<1>2. fs \in Surjection(1..Len(fs), ToSet(fs))
  <2>1. fs = [i \in 1..Len(fs) |-> fs[i]]
    BY <1>1
  <2>2. fs \in [1..Len(fs) -> ToSet(fs)]
    BY <1>1, <2>1 DEF ToSet
  <2> QED BY <1>1, <2>2 DEF Surjection, ToSet
<1>3. IsFiniteSet(1..Len(fs))
  BY <1>1, FS_Interval
<1>4. IsFiniteSet(ToSet(fs))
  BY <1>2, <1>3, FS_Surjection DEF ExistsSurjection
<1> QED BY <1>1, <1>4 DEF ToSet

\* The files fit the budget at every moment, while a writer writes included: the
\* file it adds is counted before it gives the lock back.
BudgetInv == TotalSize(ToSet(files)) <= Budget

\* A writer adds its file and deletes the oldest until the rest fit; every other
\* step leaves some of the files that fitted.
LEMMA BudgetInductive ==
  ASSUME TypeOK, Placed, BudgetInv, [Next]_vars
  PROVE  BudgetInv'
<1>1. files \in Seq(Bodies) /\ IsFiniteSet(ToSet(files)) /\ ToSet(files) \subseteq Bodies
  BY FilesFinite DEF TypeOK
<1>2. ASSUME ToSet(files') \subseteq ToSet(files) PROVE BudgetInv'
  <2>1. TotalSize(ToSet(files')) <= TotalSize(ToSet(files))
    BY <1>1, <1>2, TotalSizeGrows
  <2>2. /\ TotalSize(ToSet(files)) \in Nat /\ TotalSize(ToSet(files')) \in Nat /\ Budget \in Nat
    <3>1. IsFiniteSet(ToSet(files')) /\ ToSet(files') \in SUBSET Bodies
      BY <1>1, <1>2, FS_Subset
    <3> QED BY <1>1, <3>1, TotalSizeType, BodyAssumption DEF BodyAssumption
  <2> QED BY <2>1, <2>2 DEF BudgetInv
<1>3. ASSUME NEW b \in Bodies, WriteEnd(b) PROVE BudgetInv'
  <2>1. PICK n \in 0..Len(Append(files, b)) :
          Enforces(Append(files, b), n) /\ files' = Newest(Append(files, b), n)
    BY <1>3 DEF WriteEnd
  <2>2. TotalSize(ToSet(Newest(Append(files, b), n))) <= Budget
    BY <2>1 DEF Enforces
  <2> QED BY <2>1, <2>2 DEF BudgetInv
<1>4. ASSUME NEW b \in Bodies, DeleteFile(b) PROVE BudgetInv'
  <2>1. ToSet(files') \subseteq ToSet(files)
    BY <1>4, FileFacts
  <2> QED BY <1>2, <2>1
<1>5. ASSUME UNCHANGED files PROVE BudgetInv'
  BY <1>5, <1>2
<1>6. CASE ShredEnd
  <2>1. ToSet(files') = {}
    BY <1>6 DEF ShredEnd, ToSet
  <2> QED BY <1>2, <2>1
<1>7. ASSUME NEW b \in Bodies, StoreStep(b) PROVE BudgetInv'
  <2>1. WriteBegin(b) \/ WriteFail(b) => UNCHANGED files
    BY DEF WriteBegin, WriteFail
  <2> QED BY <1>3, <1>4, <1>5, <1>7, <2>1 DEF StoreStep
<1>8. ASSUME NEW q \in Handlers, RecordRequest(q) \/ \E b \in Bodies : Put(q, b) PROVE BudgetInv'
  <2>1. UNCHANGED files
    BY <1>8 DEF RecordRequest, Put
  <2> QED BY <1>5, <2>1
<1>9. CASE ShredBegin \/ ShredWaited \/ UNCHANGED vars
  <2>1. UNCHANGED files
    BY <1>9 DEF ShredBegin, ShredWaited, vars
  <2> QED BY <1>5, <2>1
<1> QED BY <1>6, <1>7, <1>8, <1>9 DEF Next

\* Whoever opens a body's file at any moment reads all of it, and the files fit
\* the budget, however many writers spill at once and whatever their bodies weigh.
THEOREM SpecDiskHolds == Spec => []DiskHolds
<1>1. Init => BudgetInv
  <2> SUFFICES ASSUME Init PROVE BudgetInv
    OBVIOUS
  <2>1. ToSet(files) = {}
    BY DEF Init, ToSet
  <2> QED BY <2>1, TotalSizeOfNone, BodyAssumption DEF BudgetInv, BodyAssumption
<1>2. TypeOK /\ Placed /\ BudgetInv /\ [Next]_vars => BudgetInv'
  BY BudgetInductive
<1>3. TypeOK /\ Placed /\ BudgetInv => DiskHolds
  BY DEF DiskHolds, Placed, BudgetInv
<1> QED BY <1>1, <1>2, <1>3, PlacedInvariant, PTL DEF Spec

-----------------------------------------------------------------------------
(* UiInstance. *)

Holding == {"locked", "bound", "answering", "serving", "noting", "stopping", "closed", "cleared"}

\* The lock is a service's from its taking to its exit, and a command's while
\* it probes.
LockInv ==
  /\ \A s \in Services : svc[s].pc \in Holding <=> dir.lock = s
  /\ \A c \in Callers : call[c].pc = "probing" <=> dir.lock = c

FilesInv == UiInstanceTypeOK /\ LockInv

\* Only a service that has begun to answer can have been asked to stop.
AskedInv ==
  /\ \A s \in Services :
       svc[s].asked => svc[s].pc \in Answering \union {"closed", "cleared", "exited"}
  /\ mishaps = {} =>
       \A s \in Services : svc[s].pc \in {"stopping", "closed", "cleared"} => svc[s].asked

\* What excuses an Ensure that found nothing.
Excused ==
  \/ mishaps # {}
  \/ \E d \in Callers : call[d].pc = "unstopped"
  \/ \E d \in Callers : Want[d] = "stop" /\ call[d].pc # "idle"

\* A service is on its way or stays, or a command will start one.
Sound(s) ==
  ~svc[s].asked /\ svc[s].pc \in {"spawned", "locked", "bound", "answering", "serving", "noting"}
OnTheWay ==
  \/ \E s \in Services : Sound(s)
  \/ \E d \in Callers : call[d].pc \in {"probe", "probing", "start"}

\* Whoever asked the lock's service to stop waits for its lock; and whoever
\* waits for a service has one that is there or will be.
WaitInv ==
  ~Excused =>
    /\ \A s \in Services : svc[s].asked /\ dir.lock = s =>
                             \E d \in Callers : call[d].pc = "probe"
    /\ (\E c \in Callers : call[c].at = "wait") => OnTheWay
    /\ \A c \in Callers : call[c].pc # "unstarted"

EnsureInv == FilesInv /\ AskedInv /\ WaitInv

Pcs == Alive \union {"none", "exited"}
ServiceType ==
  [pc : Pcs, version : {Want[c] : c \in Callers} \union {"none"},
   asked : BOOLEAN, idle : BOOLEAN, page : BOOLEAN]

\* A service's step to p, seen from the others.
Moves(s, p) ==
  /\ svc' \in [Services -> ServiceType]
  /\ \A x \in Services \ {s} : svc'[x] = svc[x]
  /\ svc'[s].pc = p /\ svc'[s].asked = svc[s].asked

\* What each way of updating a service's record comes to.
LEMMA ServiceEdits ==
  ASSUME svc \in [Services -> ServiceType], NEW s \in Services
  PROVE  /\ \A p \in Pcs : svc' = [svc EXCEPT ![s].pc = p] => Moves(s, p)
         /\ \A p \in Pcs :
              svc' = [svc EXCEPT ![s].pc = p, ![s].page = FALSE] => Moves(s, p)
         /\ \A b \in BOOLEAN : svc' = [svc EXCEPT ![s].idle = b] => Moves(s, svc[s].pc)
         /\ \A b \in BOOLEAN : svc' = [svc EXCEPT ![s].page = b] => Moves(s, svc[s].pc)
         /\ svc' = [svc EXCEPT ![s].page = TRUE, ![s].idle = FALSE] => Moves(s, svc[s].pc)
<1> USE DEF ServiceType, Moves
<1>1. \A p \in Pcs : svc' = [svc EXCEPT ![s].pc = p] => Moves(s, p)
  OBVIOUS
<1>2. \A p \in Pcs : svc' = [svc EXCEPT ![s].pc = p, ![s].page = FALSE] => Moves(s, p)
  <2>1. SUFFICES ASSUME NEW p \in Pcs, svc' = [svc EXCEPT ![s].pc = p, ![s].page = FALSE]
                 PROVE  Moves(s, p)
    OBVIOUS
  <2> QED  BY <2>1
<1>3. \A b \in BOOLEAN : svc' = [svc EXCEPT ![s].idle = b] => Moves(s, svc[s].pc)
  OBVIOUS
<1>4. \A b \in BOOLEAN : svc' = [svc EXCEPT ![s].page = b] => Moves(s, svc[s].pc)
  OBVIOUS
<1>5. ASSUME svc' = [svc EXCEPT ![s].page = TRUE, ![s].idle = FALSE]
      PROVE  Moves(s, svc[s].pc)
  <2> DEFINE r == [svc[s] EXCEPT !.page = TRUE, !.idle = FALSE]
  <2>1. r \in ServiceType /\ r.pc = svc[s].pc /\ r.asked = svc[s].asked
    OBVIOUS
  <2>2. svc' = [svc EXCEPT ![s] = r]
    BY <1>5
  <2> QED  BY <2>1, <2>2
<1> QED  BY <1>1, <1>2, <1>3, <1>4, <1>5

\* Where each step of a service goes.
LEMMA ServiceMoves ==
  ASSUME svc \in [Services -> ServiceType], NEW s \in Services
  PROVE
         /\ TakeLock(s) => Moves(s, IF dir.lock = "free" THEN "locked" ELSE "exited")
         /\ Bind(s) => Moves(s, "bound") \/ Moves(s, "exited")
         /\ StartServing(s) => Moves(s, "answering")
         /\ WriteInfo(s) => Moves(s, "serving")
         /\ NoteAlone(s) => Moves(s, "noting")
         /\ NoteActivity(s) => Moves(s, IF svc[s].idle THEN "stopping" ELSE "serving")
         /\ Touch(s) => Moves(s, svc[s].pc)
         /\ HearShutdown(s) => Moves(s, "stopping")
         /\ CloseServers(s) => Moves(s, "closed")
         /\ ClearFiles(s) => Moves(s, "cleared")
         /\ Unlock(s) => Moves(s, "exited")
         /\ TimePasses(s) => Moves(s, svc[s].pc)
         /\ OpenPage(s) => Moves(s, svc[s].pc)
         /\ ClosePage(s) => Moves(s, svc[s].pc)
         /\ Kill(s) => Moves(s, "exited")
<1> USE DEF Pcs, Alive
<1>1. TakeLock(s) => Moves(s, IF dir.lock = "free" THEN "locked" ELSE "exited")
  BY ServiceEdits DEF TakeLock, Goes
<1>2. Bind(s) => Moves(s, "bound") \/ Moves(s, "exited")
  BY ServiceEdits DEF Bind, Goes, Mishap
<1>3. StartServing(s) => Moves(s, "answering")
  BY ServiceEdits DEF StartServing, Goes
<1>4. WriteInfo(s) => Moves(s, "serving")
  BY ServiceEdits DEF WriteInfo, Goes, Mishap
<1>5. NoteAlone(s) => Moves(s, "noting")
  BY ServiceEdits DEF NoteAlone, Goes
<1>6. NoteActivity(s) => Moves(s, IF svc[s].idle THEN "stopping" ELSE "serving")
  BY ServiceEdits DEF NoteActivity, Goes
<1>7. Touch(s) => Moves(s, svc[s].pc)
  BY ServiceEdits DEF Touch
<1>8. HearShutdown(s) => Moves(s, "stopping")
  BY ServiceEdits DEF HearShutdown, Goes
<1>9. CloseServers(s) => Moves(s, "closed")
  BY ServiceEdits DEF CloseServers
<1>10. ClearFiles(s) => Moves(s, "cleared")
  BY ServiceEdits DEF ClearFiles, Goes
<1>11. Unlock(s) => Moves(s, "exited")
  BY ServiceEdits DEF Unlock, Goes
<1>12. TimePasses(s) => Moves(s, svc[s].pc)
  BY ServiceEdits DEF TimePasses
<1>13. OpenPage(s) => Moves(s, svc[s].pc)
  BY ServiceEdits DEF OpenPage
<1>14. ClosePage(s) => Moves(s, svc[s].pc)
  BY ServiceEdits DEF ClosePage
<1>15. Kill(s) => Moves(s, "exited")
  BY ServiceEdits DEF Kill, Mishap
<1> QED  BY <1>1, <1>2, <1>3, <1>4, <1>5, <1>6, <1>7, <1>8, <1>9, <1>10, <1>11, <1>12, <1>13,
           <1>14, <1>15

\* A step of a service keeps every kind of thing what it is.
LEMMA DirMoves ==
  ASSUME UiInstanceTypeOK, NEW s \in Services, ServiceStep(s) \/ UserStep(s)
  PROVE UiInstanceTypeOK'
<1>1. svc \in [Services -> ServiceType]
  BY DEF UiInstanceTypeOK, ServiceType, Pcs
<1>2. svc' \in [Services -> ServiceType]
  BY <1>1, ServiceMoves DEF Moves, ServiceStep, UserStep
<1>3. /\ dir' \in [lock : Services \union Callers \union {"free"},
                    sock : Services \union {"none"}, info : Services \union {"none"}]
      /\ call' = call /\ busy' = busy /\ mishaps' \subseteq Services
  <2>1. CASE TakeLock(s)  BY <2>1 DEF UiInstanceTypeOK, TakeLock, Goes
  <2>2. CASE Bind(s)  BY <2>2 DEF UiInstanceTypeOK, Bind, Goes, Mishap
  <2>3. CASE StartServing(s)  BY <2>3 DEF UiInstanceTypeOK, StartServing, Goes
  <2>4. CASE WriteInfo(s)  BY <2>4 DEF UiInstanceTypeOK, WriteInfo, Goes, Mishap
  <2>5. CASE NoteAlone(s)  BY <2>5 DEF UiInstanceTypeOK, NoteAlone, Goes
  <2>6. CASE NoteActivity(s)  BY <2>6 DEF UiInstanceTypeOK, NoteActivity, Goes
  <2>7. CASE Touch(s)  BY <2>7 DEF UiInstanceTypeOK, Touch
  <2>8. CASE HearShutdown(s)  BY <2>8 DEF UiInstanceTypeOK, HearShutdown, Goes
  <2>9. CASE CloseServers(s)  BY <2>9 DEF UiInstanceTypeOK, CloseServers
  <2>10. CASE ClearFiles(s)  BY <2>10 DEF UiInstanceTypeOK, ClearFiles, Goes
  <2>11. CASE Unlock(s)  BY <2>11 DEF UiInstanceTypeOK, Unlock, Goes
  <2>12. CASE TimePasses(s)  BY <2>12 DEF UiInstanceTypeOK, TimePasses
  <2>13. CASE OpenPage(s)  BY <2>13 DEF UiInstanceTypeOK, OpenPage
  <2>14. CASE ClosePage(s)  BY <2>14 DEF UiInstanceTypeOK, ClosePage
  <2>15. CASE Kill(s)  BY <2>15 DEF UiInstanceTypeOK, Kill, Mishap
  <2> QED  BY <2>1, <2>2, <2>3, <2>4, <2>5, <2>6, <2>7, <2>8, <2>9, <2>10, <2>11, <2>12, <2>13,
             <2>14, <2>15 DEF ServiceStep, UserStep
<1> QED  BY <1>2, <1>3 DEF UiInstanceTypeOK, ServiceType, Pcs

\* The lock stays with whom it belongs when a step takes or drops it only for
\* the service that makes it.
LEMMA LockAfter ==
  ASSUME FilesInv, NEW s \in Services, NEW p, Moves(s, p), call' = call,
         p \in Holding <=> dir'.lock = s,
         \A x \in (Services \union Callers) \ {s} : dir'.lock = x <=> dir.lock = x
  PROVE  LockInv'
<1>1. s \notin Callers
  BY UiInstanceAssumption
<1> QED  BY <1>1 DEF FilesInv, LockInv, Moves

\* That is what each step of a service does.
LEMMA LockMoves ==
  ASSUME FilesInv, NEW s \in Services, ServiceStep(s) \/ UserStep(s)
  PROVE LockInv'
<1>1. svc \in [Services -> ServiceType] /\ svc[s].pc \in Pcs
  BY DEF FilesInv, UiInstanceTypeOK, ServiceType, Pcs
<1>2. call' = call
  BY DEF ServiceStep, UserStep, TakeLock, Bind, StartServing, WriteInfo, NoteAlone,
     NoteActivity, Touch, HearShutdown, CloseServers, ClearFiles, Unlock, TimePasses, OpenPage,
     ClosePage, Kill
<1>3. /\ dir \in [lock : Services \union Callers \union {"free"},
                  sock : Services \union {"none"}, info : Services \union {"none"}]
      /\ svc[s].pc \in Holding <=> dir.lock = s
      /\ "free" \notin Services \union Callers
  BY UiInstanceAssumption DEF FilesInv, UiInstanceTypeOK, LockInv
<1>4. CASE TakeLock(s)
  <2> DEFINE p == IF dir.lock = "free" THEN "locked" ELSE "exited"
  <2>1. Moves(s, p)
    BY <1>4, <1>1, ServiceMoves
  <2>2. /\ p \in Holding <=> dir'.lock = s
        /\ \A x \in (Services \union Callers) \ {s} : dir'.lock = x <=> dir.lock = x
    BY <1>4, <1>1, <1>3 DEF Holding, Pcs, Alive, TakeLock, Goes
  <2> HIDE DEF p
  <2> QED  BY <2>1, <2>2, <1>2, LockAfter
<1>5. CASE Bind(s)
  <2>1. PICK p \in {"bound", "exited"} :
          Moves(s, p) /\ dir'.lock = IF p = "bound" THEN dir.lock ELSE "free"
    BY <1>5, <1>1, <1>3, ServiceEdits DEF Bind, Goes, Pcs, Alive
  <2>2. dir.lock = s
    BY <1>5, <1>3 DEF Bind, Goes, Holding
  <2> QED  BY <2>1, <2>2, <1>2, <1>3, LockAfter DEF Holding
<1>6. CASE StartServing(s)
  <2> DEFINE p == "answering"
  <2>1. Moves(s, p)
    BY <1>6, <1>1, ServiceMoves
  <2>2. /\ p \in Holding <=> dir'.lock = s
        /\ \A x \in (Services \union Callers) \ {s} : dir'.lock = x <=> dir.lock = x
    BY <1>6, <1>1, <1>3 DEF Holding, Pcs, Alive, StartServing, Goes
  <2> HIDE DEF p
  <2> QED  BY <2>1, <2>2, <1>2, LockAfter
<1>7. CASE WriteInfo(s)
  <2> DEFINE p == "serving"
  <2>1. Moves(s, p)
    BY <1>7, <1>1, ServiceMoves
  <2>2. /\ p \in Holding <=> dir'.lock = s
        /\ \A x \in (Services \union Callers) \ {s} : dir'.lock = x <=> dir.lock = x
    BY <1>7, <1>1, <1>3 DEF Holding, Pcs, Alive, WriteInfo, Goes, Mishap
  <2> HIDE DEF p
  <2> QED  BY <2>1, <2>2, <1>2, LockAfter
<1>8. CASE NoteAlone(s)
  <2> DEFINE p == "noting"
  <2>1. Moves(s, p)
    BY <1>8, <1>1, ServiceMoves
  <2>2. /\ p \in Holding <=> dir'.lock = s
        /\ \A x \in (Services \union Callers) \ {s} : dir'.lock = x <=> dir.lock = x
    BY <1>8, <1>1, <1>3 DEF Holding, Pcs, Alive, NoteAlone, Goes
  <2> HIDE DEF p
  <2> QED  BY <2>1, <2>2, <1>2, LockAfter
<1>9. CASE NoteActivity(s)
  <2> DEFINE p == IF svc[s].idle THEN "stopping" ELSE "serving"
  <2>1. Moves(s, p)
    BY <1>9, <1>1, ServiceMoves
  <2>2. /\ p \in Holding <=> dir'.lock = s
        /\ \A x \in (Services \union Callers) \ {s} : dir'.lock = x <=> dir.lock = x
    BY <1>9, <1>1, <1>3 DEF Holding, Pcs, Alive, NoteActivity, Goes
  <2> HIDE DEF p
  <2> QED  BY <2>1, <2>2, <1>2, LockAfter
<1>10. CASE Touch(s)
  <2> DEFINE p == svc[s].pc
  <2>1. Moves(s, p)
    BY <1>10, <1>1, ServiceMoves
  <2>2. /\ p \in Holding <=> dir'.lock = s
        /\ \A x \in (Services \union Callers) \ {s} : dir'.lock = x <=> dir.lock = x
    BY <1>10, <1>1, <1>3 DEF Holding, Pcs, Alive, Touch
  <2> HIDE DEF p
  <2> QED  BY <2>1, <2>2, <1>2, LockAfter
<1>11. CASE HearShutdown(s)
  <2> DEFINE p == "stopping"
  <2>1. Moves(s, p)
    BY <1>11, <1>1, ServiceMoves
  <2>2. /\ p \in Holding <=> dir'.lock = s
        /\ \A x \in (Services \union Callers) \ {s} : dir'.lock = x <=> dir.lock = x
    BY <1>11, <1>1, <1>3 DEF Holding, Pcs, Alive, HearShutdown, Goes
  <2> HIDE DEF p
  <2> QED  BY <2>1, <2>2, <1>2, LockAfter
<1>12. CASE CloseServers(s)
  <2> DEFINE p == "closed"
  <2>1. Moves(s, p)
    BY <1>12, <1>1, ServiceMoves
  <2>2. /\ p \in Holding <=> dir'.lock = s
        /\ \A x \in (Services \union Callers) \ {s} : dir'.lock = x <=> dir.lock = x
    BY <1>12, <1>1, <1>3 DEF Holding, Pcs, Alive, CloseServers
  <2> HIDE DEF p
  <2> QED  BY <2>1, <2>2, <1>2, LockAfter
<1>13. CASE ClearFiles(s)
  <2> DEFINE p == "cleared"
  <2>1. Moves(s, p)
    BY <1>13, <1>1, ServiceMoves
  <2>2. /\ p \in Holding <=> dir'.lock = s
        /\ \A x \in (Services \union Callers) \ {s} : dir'.lock = x <=> dir.lock = x
    BY <1>13, <1>1, <1>3 DEF Holding, Pcs, Alive, ClearFiles, Goes
  <2> HIDE DEF p
  <2> QED  BY <2>1, <2>2, <1>2, LockAfter
<1>14. CASE Unlock(s)
  <2> DEFINE p == "exited"
  <2>1. Moves(s, p)
    BY <1>14, <1>1, ServiceMoves
  <2>2. /\ p \in Holding <=> dir'.lock = s
        /\ \A x \in (Services \union Callers) \ {s} : dir'.lock = x <=> dir.lock = x
    BY <1>14, <1>1, <1>3 DEF Holding, Pcs, Alive, Unlock, Goes
  <2> HIDE DEF p
  <2> QED  BY <2>1, <2>2, <1>2, LockAfter
<1>15. CASE TimePasses(s)
  <2> DEFINE p == svc[s].pc
  <2>1. Moves(s, p)
    BY <1>15, <1>1, ServiceMoves
  <2>2. /\ p \in Holding <=> dir'.lock = s
        /\ \A x \in (Services \union Callers) \ {s} : dir'.lock = x <=> dir.lock = x
    BY <1>15, <1>1, <1>3 DEF Holding, Pcs, Alive, TimePasses
  <2> HIDE DEF p
  <2> QED  BY <2>1, <2>2, <1>2, LockAfter
<1>16. CASE OpenPage(s)
  <2> DEFINE p == svc[s].pc
  <2>1. Moves(s, p)
    BY <1>16, <1>1, ServiceMoves
  <2>2. /\ p \in Holding <=> dir'.lock = s
        /\ \A x \in (Services \union Callers) \ {s} : dir'.lock = x <=> dir.lock = x
    BY <1>16, <1>1, <1>3 DEF Holding, Pcs, Alive, OpenPage
  <2> HIDE DEF p
  <2> QED  BY <2>1, <2>2, <1>2, LockAfter
<1>17. CASE ClosePage(s)
  <2> DEFINE p == svc[s].pc
  <2>1. Moves(s, p)
    BY <1>17, <1>1, ServiceMoves
  <2>2. /\ p \in Holding <=> dir'.lock = s
        /\ \A x \in (Services \union Callers) \ {s} : dir'.lock = x <=> dir.lock = x
    BY <1>17, <1>1, <1>3 DEF Holding, Pcs, Alive, ClosePage
  <2> HIDE DEF p
  <2> QED  BY <2>1, <2>2, <1>2, LockAfter
<1>18. CASE Kill(s)
  <2> DEFINE p == "exited"
  <2>1. Moves(s, p)
    BY <1>18, <1>1, ServiceMoves
  <2>2. /\ p \in Holding <=> dir'.lock = s
        /\ \A x \in (Services \union Callers) \ {s} : dir'.lock = x <=> dir.lock = x
    BY <1>18, <1>1, <1>3 DEF Holding, Pcs, Alive, Kill, Mishap
  <2> HIDE DEF p
  <2> QED  BY <2>1, <2>2, <1>2, LockAfter
<1> QED  BY <1>4, <1>5, <1>6, <1>7, <1>8, <1>9, <1>10, <1>11, <1>12, <1>13, <1>14, <1>15, <1>16,
           <1>17, <1>18 DEF ServiceStep, UserStep

CallPcs == {"idle", "read", "ask", "shutdown", "probe", "probing", "start", "found", "done",
            "unstopped", "unstarted"}
CallType ==
  [pc : CallPcs, at : {"ensure", "stop", "wait"}, saw : Services \union {"none"}]

\* A command's turn to p, for a, seen from the others.
Turned(c, p, a) ==
  /\ call' \in [Callers -> CallType]
  /\ \A x \in Callers \ {c} : call'[x] = call[x]
  /\ call'[c].pc = p /\ call'[c].at = a

\* What each way of updating a command's record comes to.
LEMMA CallEdits ==
  ASSUME call \in [Callers -> CallType], NEW c \in Callers, NEW p \in CallPcs,
         NEW a \in {"ensure", "stop", "wait"}, NEW w \in Services \union {"none"}
  PROVE  /\ call' = [call EXCEPT ![c].pc = p] => Turned(c, p, call[c].at)
         /\ call' = [call EXCEPT ![c].saw = w, ![c].pc = p] => Turned(c, p, call[c].at)
         /\ call' = [call EXCEPT ![c].pc = p, ![c].at = a] => Turned(c, p, a)
<1> USE DEF CallType, Turned
<1>1. call' = [call EXCEPT ![c].pc = p] => Turned(c, p, call[c].at)
  OBVIOUS
<1>2. ASSUME call' = [call EXCEPT ![c].saw = w, ![c].pc = p]
      PROVE  Turned(c, p, call[c].at)
  <2> DEFINE r == [call[c] EXCEPT !.saw = w, !.pc = p]
  <2>1. r \in CallType /\ r.pc = p /\ r.at = call[c].at
    OBVIOUS
  <2>2. call' = [call EXCEPT ![c] = r]
    BY <1>2
  <2> QED  BY <2>1, <2>2
<1>3. ASSUME call' = [call EXCEPT ![c].pc = p, ![c].at = a]
      PROVE  Turned(c, p, a)
  <2> DEFINE r == [call[c] EXCEPT !.pc = p, !.at = a]
  <2>1. r \in CallType /\ r.pc = p /\ r.at = a
    OBVIOUS
  <2>2. call' = [call EXCEPT ![c] = r]
    BY <1>3
  <2> QED  BY <2>1, <2>2
<1> QED  BY <1>1, <1>2, <1>3

\* Where each step of a command goes.
LEMMA CallTurns ==
  ASSUME UiInstanceTypeOK, NEW c \in Callers
  PROVE  /\ Begin(c) => \E a \in {"ensure", "stop"} : Turned(c, "read", a)
         /\ ReadInfo(c) => \E p \in {"ask", "start", "read", "done"} : Turned(c, p, call[c].at)
         /\ Ask(c) => \E p \in {"start", "read", "done", "shutdown", "found"},
                         a \in {call[c].at, "stop"} : Turned(c, p, a)
         /\ AskShutdown(c) => Turned(c, IF Reached(c) THEN "probe" ELSE "unstopped", call[c].at)
         /\ ProbeTakes(c) => Turned(c, "probing", call[c].at)
         /\ ProbeLets(c) => Turned(c, IF Want[c] = "stop" THEN "done" ELSE "start", call[c].at)
         /\ ProbeTimesOut(c) => Turned(c, "unstopped", call[c].at)
         /\ Start(c) => Turned(c, "read", "wait")
         /\ WaitTimesOut(c) => Turned(c, "unstarted", call[c].at)
<1>1. call \in [Callers -> CallType] /\ dir.info \in Services \union {"none"}
  BY DEF UiInstanceTypeOK, CallType, CallPcs
<1>2. call[c].at \in {"ensure", "stop", "wait"}
  BY <1>1 DEF CallType
<1> USE DEF CallPcs
<1>3. Begin(c) => \E a \in {"ensure", "stop"} : Turned(c, "read", a)
  BY <1>1, CallEdits DEF Begin
<1>4. ReadInfo(c) => \E p \in {"ask", "start", "read", "done"} : Turned(c, p, call[c].at)
  <2>1. SUFFICES ASSUME ReadInfo(c)
                 PROVE  \E p \in {"ask", "start", "read", "done"} : Turned(c, p, call[c].at)
    OBVIOUS
  <2>2. PICK p \in {"ask", "start", "read", "done"} :
          call' = [call EXCEPT ![c].saw = dir.info, ![c].pc = p]
    BY <2>1 DEF ReadInfo, NotRunning
  <2> QED  BY <2>2, <1>1, <1>2, CallEdits
<1>5. Ask(c) => \E p \in {"start", "read", "done", "shutdown", "found"},
                   a \in {call[c].at, "stop"} : Turned(c, p, a)
  <2>1. SUFFICES ASSUME Ask(c)
                 PROVE  \E p \in {"start", "read", "done", "shutdown", "found"},
                           a \in {call[c].at, "stop"} : Turned(c, p, a)
    OBVIOUS
  <2>2. PICK p \in {"start", "read", "done", "shutdown", "found"}, a \in {call[c].at, "stop"} :
          call' = [call EXCEPT ![c].pc = p, ![c].at = a]
    BY <2>1 DEF Ask, NotRunning
  <2> QED  BY <2>2, <1>1, <1>2, CallEdits
<1>6. AskShutdown(c) => Turned(c, IF Reached(c) THEN "probe" ELSE "unstopped", call[c].at)
  BY <1>1, CallEdits DEF AskShutdown, Turns
<1>7. ProbeTakes(c) => Turned(c, "probing", call[c].at)
  BY <1>1, CallEdits DEF ProbeTakes, Turns
<1>8. ProbeLets(c) => Turned(c, IF Want[c] = "stop" THEN "done" ELSE "start", call[c].at)
  BY <1>1, CallEdits DEF ProbeLets, Turns
<1>9. ProbeTimesOut(c) => Turned(c, "unstopped", call[c].at)
  BY <1>1, CallEdits DEF ProbeTimesOut, Turns
<1>10. Start(c) => Turned(c, "read", "wait")
  BY <1>1, CallEdits DEF Start
<1>11. WaitTimesOut(c) => Turned(c, "unstarted", call[c].at)
  BY <1>1, CallEdits DEF WaitTimesOut, Turns
<1> QED  BY <1>3, <1>4, <1>5, <1>6, <1>7, <1>8, <1>9, <1>10, <1>11

\* What a command's step does to the services.
Started(s) == svc[s].pc = "none" /\ svc'[s].pc = "spawned" /\ svc'[s].asked = svc[s].asked

\* It starts a service, or asks the one that listens to stop, and no more.
LEMMA CallServices ==
  ASSUME UiInstanceTypeOK, NEW c \in Callers, Begin(c) \/ CallStep(c)
  PROVE  /\ svc' \in [Services -> ServiceType]
         /\ IF Start(c)
              THEN \E s \in Services : Started(s) /\ \A x \in Services \ {s} : svc'[x] = svc[x]
              ELSE \A s \in Services : svc'[s].pc = svc[s].pc
         /\ \A s \in Services :
              svc'[s].asked # svc[s].asked =>
                AskShutdown(c) /\ Reached(c) /\ s = dir.sock
<1>1. svc \in [Services -> ServiceType] /\ Want[c] \in {Want[d] : d \in Callers}
      /\ dir.sock \in Services \union {"none"}
  BY DEF UiInstanceTypeOK, ServiceType, Pcs
<1>2. CASE Ask(c)
  <2>1. CASE Reached(c)
    <3>1. dir.sock \in Services /\ Moves(dir.sock, svc[dir.sock].pc)
      BY <1>1, <1>2, <2>1, ServiceEdits DEF Ask, Reached
    <3>2. call[c].pc # "start"
      BY <1>2 DEF Ask
    <3> QED  BY <3>1, <3>2 DEF Moves, Start
  <2>2. CASE ~Reached(c)  BY <1>1, <1>2, <2>2 DEF Ask, Start
  <2> QED  BY <2>1, <2>2
<1>3. CASE AskShutdown(c)
  <2>1. call[c].pc # "start"
    BY <1>3 DEF AskShutdown, Turns
  <2>2. CASE Reached(c)
    <3> DEFINE t == dir.sock
    <3>1. t \in Services /\ svc' = [svc EXCEPT ![t].asked = TRUE]
      BY <1>1, <1>3, <2>2 DEF AskShutdown, Reached
    <3> HIDE DEF t
    <3>2. svc' \in [Services -> ServiceType] /\ svc'[t].pc = svc[t].pc
      BY <1>1, <3>1 DEF ServiceType
    <3>3. \A x \in Services \ {t} : svc'[x] = svc[x]
      BY <1>1, <3>1
    <3> QED  BY <3>1, <3>2, <3>3, <2>1, <2>2, <1>3 DEF Start, t
  <2>3. CASE ~Reached(c)  BY <1>1, <1>3, <2>1, <2>3 DEF AskShutdown, Start
  <2> QED  BY <2>2, <2>3
<1>4. CASE Start(c)
  <2>1. PICK s \in Services :
          /\ svc[s].pc = "none"
          /\ svc' = [svc EXCEPT ![s].pc = "spawned", ![s].version = Want[c]]
    BY <1>4 DEF Start
  <2> DEFINE r == [svc[s] EXCEPT !.pc = "spawned", !.version = Want[c]]
  <2>2. r \in ServiceType /\ r.pc = "spawned" /\ r.asked = svc[s].asked
    BY <1>1 DEF ServiceType, Pcs, Alive
  <2>3. svc' = [svc EXCEPT ![s] = r]
    BY <2>1
  <2> HIDE DEF r
  <2>4. Started(s) /\ \A x \in Services \ {s} : svc'[x] = svc[x]
    BY <1>1, <2>1, <2>2, <2>3 DEF Started
  <2>5. svc' \in [Services -> ServiceType]
    BY <1>1, <2>2, <2>3
  <2> QED  BY <1>4, <2>4, <2>5 DEF Started
<1>5. CASE svc' = svc /\ ~Start(c)
  BY <1>1, <1>5
<1>6. CASE svc' = svc /\ Start(c)
  BY <1>4, <1>6
<1> QED  BY <1>2, <1>3, <1>4, <1>5 DEF CallStep, Begin, ReadInfo, ProbeTakes, ProbeLets,
            ProbeTimesOut, WaitTimesOut

\* Nor does a command take a lock that is not free, or leave one it has taken.
LEMMA CallFiles ==
  ASSUME FilesInv, NEW c \in Callers, Begin(c) \/ CallStep(c)
  PROVE  FilesInv'
<1>1. UiInstanceTypeOK /\ c \notin Services /\ "free" \notin Services \union Callers
      /\ dir.lock \in Services \union Callers \union {"free"}
  BY UiInstanceAssumption DEF FilesInv, UiInstanceTypeOK
<1>2. \E p, a : Turned(c, p, a)
  BY <1>1, CallTurns DEF CallStep
<1>3. dir' \in [lock : Services \union Callers \union {"free"},
                 sock : Services \union {"none"}, info : Services \union {"none"}]
      /\ busy' = busy /\ mishaps' = mishaps
  BY <1>1 DEF UiInstanceTypeOK, CallStep, Begin, ReadInfo, Ask, AskShutdown, ProbeTakes, ProbeLets,
       ProbeTimesOut, Start, WaitTimesOut
<1>4. UiInstanceTypeOK'
  BY <1>1, <1>2, <1>3, CallServices DEF UiInstanceTypeOK, Turned, CallType, CallPcs,
     ServiceType, Pcs
<1>5. \A s \in Services : svc'[s].pc \in Holding <=> svc[s].pc \in Holding
  BY <1>1, CallServices DEF Started, Holding
<1>6. (call'[c].pc = "probing" <=> dir'.lock = c)
      /\ \A x \in (Services \union Callers) \ {c} : dir'.lock = x <=> dir.lock = x
  <2>1. CASE ProbeTakes(c)
    <3>1. call'[c].pc = "probing"
      BY <1>1, <2>1, CallTurns DEF Turned
    <3> QED  BY <1>1, <2>1, <3>1 DEF ProbeTakes, UiInstanceTypeOK
  <2>2. CASE ProbeLets(c)
    <3>1. call'[c].pc # "probing"
      BY <1>1, <2>2, CallTurns DEF Turned
    <3>2. dir.lock = c
      BY <2>2 DEF ProbeLets, Turns, FilesInv, LockInv
    <3> QED  BY <1>1, <2>2, <3>1, <3>2 DEF ProbeLets, UiInstanceTypeOK
  <2>3. CASE Begin(c) \/ ReadInfo(c) \/ Ask(c) \/ AskShutdown(c) \/ ProbeTimesOut(c) \/ Start(c)
             \/ WaitTimesOut(c)
    <3>1. call'[c].pc # "probing"
      BY <1>1, <2>3, CallTurns DEF Turned
    <3>2. call[c].pc # "probing" /\ dir' = dir
      BY <2>3 DEF Begin, ReadInfo, Ask, AskShutdown, ProbeTimesOut, Start, WaitTimesOut, Turns
    <3> QED  BY <1>1, <3>1, <3>2 DEF FilesInv, LockInv
  <2> QED  BY <2>1, <2>2, <2>3 DEF CallStep
<1>7. LockInv'
  BY <1>1, <1>2, <1>5, <1>6 DEF FilesInv, LockInv, Turned
<1> QED  BY <1>4, <1>7 DEF FilesInv

\* A service's step, seen from those who wait: where it goes, whose the lock is.
Progress(s, p) ==
  /\ Moves(s, p) /\ call' = call /\ mishaps \subseteq mishaps'
  /\ \A x \in Services : dir'.lock = x => dir.lock = x \/ (x = s /\ svc[s].pc = "spawned")
  /\ \/ p = svc[s].pc
     \/ svc[s].pc = "spawned" /\ (p = "locked" \/ (p = "exited" /\ dir.lock # "free"))
     \/ <<svc[s].pc, p>> \in {<<"locked", "bound">>, <<"bound", "answering">>,
          <<"answering", "serving">>, <<"serving", "noting">>, <<"noting", "serving">>,
          <<"stopping", "closed">>, <<"closed", "cleared">>, <<"cleared", "exited">>}
     \/ svc[s].pc = "serving" /\ p = "stopping" /\ svc[s].asked
     \/ mishaps' # {} /\ p \in {"exited", "serving", "stopping"}

\* Every step of a service is one of those.
LEMMA ServiceProgress ==
  ASSUME FilesInv, NEW s \in Services, ServiceStep(s) \/ UserStep(s)
  PROVE  \E p \in Pcs : Progress(s, p)
<1>1. svc \in [Services -> ServiceType] /\ svc[s].pc \in Pcs /\ mishaps \subseteq Services
      /\ "free" \notin Services
      /\ dir \in [lock : Services \union Callers \union {"free"},
                  sock : Services \union {"none"}, info : Services \union {"none"}]
  BY UiInstanceAssumption DEF FilesInv, UiInstanceTypeOK, ServiceType, Pcs
<1> DEFINE Free == \A x \in Services :
                     dir'.lock = x => dir.lock = x \/ (x = s /\ svc[s].pc = "spawned")
<1>2. CASE TakeLock(s)
  <2> DEFINE p == IF dir.lock = "free" THEN "locked" ELSE "exited"
  <2>1. Moves(s, p) /\ p \in Pcs
    BY <1>2, <1>1, ServiceMoves DEF Pcs, Alive
  <2>2. call' = call /\ mishaps \subseteq mishaps' /\ Free
    BY <1>2, <1>1 DEF TakeLock, Goes
  <2> HIDE DEF Free
  <2>3. svc[s].pc = "spawned" /\ (p = "locked" \/ (p = "exited" /\ dir.lock # "free"))
    BY <1>2 DEF TakeLock, Goes
  <2> HIDE DEF p
  <2>4. Progress(s, p)
    BY <2>1, <2>2, <2>3 DEF Progress, Free
  <2> QED  BY <2>1, <2>4
<1>3. CASE Bind(s)
  <2>1. PICK p \in {"bound", "exited"} :
          Moves(s, p) /\ (p = "exited" => mishaps' # {})
    BY <1>3, <1>1, ServiceEdits DEF Bind, Goes, Mishap, Pcs, Alive
  <2>2. /\ svc[s].pc = "locked" /\ call' = call /\ mishaps \subseteq mishaps'
        /\ Free
    BY <1>3, <1>1 DEF Bind, Goes, Mishap
  <2> HIDE DEF Free
  <2>3. Progress(s, p)
    BY <2>1, <2>2 DEF Progress, Free
  <2> QED  BY <2>1, <2>3 DEF Pcs, Alive
<1>4. CASE StartServing(s)
  <2> DEFINE p == "answering"
  <2>1. Moves(s, p) /\ p \in Pcs
    BY <1>4, <1>1, ServiceMoves DEF Pcs, Alive
  <2>2. call' = call /\ mishaps \subseteq mishaps' /\ Free
    BY <1>4, <1>1 DEF StartServing, Goes
  <2> HIDE DEF Free
  <2>3. Progress(s, p)
    BY <1>4, <2>1, <2>2 DEF Progress, Free, StartServing, Goes
  <2> QED  BY <2>1, <2>3
<1>5. CASE WriteInfo(s)
  <2> DEFINE p == "serving"
  <2>1. Moves(s, p) /\ p \in Pcs
    BY <1>5, <1>1, ServiceMoves DEF Pcs, Alive
  <2>2. call' = call /\ mishaps \subseteq mishaps' /\ Free
    BY <1>5, <1>1 DEF WriteInfo, Goes, Mishap
  <2> HIDE DEF Free
  <2>3. Progress(s, p)
    BY <1>5, <2>1, <2>2 DEF Progress, Free, WriteInfo, Goes, Mishap
  <2> QED  BY <2>1, <2>3
<1>6. CASE NoteAlone(s)
  <2> DEFINE p == "noting"
  <2>1. Moves(s, p) /\ p \in Pcs
    BY <1>6, <1>1, ServiceMoves DEF Pcs, Alive
  <2>2. call' = call /\ mishaps \subseteq mishaps' /\ Free
    BY <1>6, <1>1 DEF NoteAlone, Goes
  <2> HIDE DEF Free
  <2>3. Progress(s, p)
    BY <1>6, <2>1, <2>2 DEF Progress, Free, NoteAlone, Goes
  <2> QED  BY <2>1, <2>3
<1>7. CASE NoteActivity(s)
  <2> DEFINE p == IF svc[s].idle THEN "stopping" ELSE "serving"
  <2>1. Moves(s, p) /\ p \in Pcs
    BY <1>7, <1>1, ServiceMoves DEF Pcs, Alive
  <2>2. call' = call /\ mishaps \subseteq mishaps' /\ Free
    BY <1>7, <1>1 DEF NoteActivity, Goes
  <2> HIDE DEF Free
  <2>3. Progress(s, p)
    BY <1>7, <2>1, <2>2 DEF Progress, Free, NoteActivity, Goes
  <2> QED  BY <2>1, <2>3
<1>8. CASE Touch(s)
  <2> DEFINE p == svc[s].pc
  <2>1. Moves(s, p) /\ p \in Pcs
    BY <1>8, <1>1, ServiceMoves DEF Pcs, Alive
  <2>2. call' = call /\ mishaps \subseteq mishaps' /\ Free
    BY <1>8, <1>1 DEF Touch
  <2> HIDE DEF Free
  <2>3. Progress(s, p)
    BY <1>8, <2>1, <2>2 DEF Progress, Free, Touch
  <2> QED  BY <2>1, <2>3
<1>9. CASE HearShutdown(s)
  <2> DEFINE p == "stopping"
  <2>1. Moves(s, p) /\ p \in Pcs
    BY <1>9, <1>1, ServiceMoves DEF Pcs, Alive
  <2>2. call' = call /\ mishaps \subseteq mishaps' /\ Free
    BY <1>9, <1>1 DEF HearShutdown, Goes
  <2> HIDE DEF Free
  <2>3. Progress(s, p)
    BY <1>9, <2>1, <2>2 DEF Progress, Free, HearShutdown, Goes
  <2> QED  BY <2>1, <2>3
<1>10. CASE CloseServers(s)
  <2> DEFINE p == "closed"
  <2>1. Moves(s, p) /\ p \in Pcs
    BY <1>10, <1>1, ServiceMoves DEF Pcs, Alive
  <2>2. call' = call /\ mishaps \subseteq mishaps' /\ Free
    BY <1>10, <1>1 DEF CloseServers
  <2> HIDE DEF Free
  <2>3. Progress(s, p)
    BY <1>10, <2>1, <2>2 DEF Progress, Free, CloseServers
  <2> QED  BY <2>1, <2>3
<1>11. CASE ClearFiles(s)
  <2> DEFINE p == "cleared"
  <2>1. Moves(s, p) /\ p \in Pcs
    BY <1>11, <1>1, ServiceMoves DEF Pcs, Alive
  <2>2. call' = call /\ mishaps \subseteq mishaps' /\ Free
    BY <1>11, <1>1 DEF ClearFiles, Goes
  <2> HIDE DEF Free
  <2>3. Progress(s, p)
    BY <1>11, <2>1, <2>2 DEF Progress, Free, ClearFiles, Goes
  <2> QED  BY <2>1, <2>3
<1>12. CASE Unlock(s)
  <2> DEFINE p == "exited"
  <2>1. Moves(s, p) /\ p \in Pcs
    BY <1>12, <1>1, ServiceMoves DEF Pcs, Alive
  <2>2. call' = call /\ mishaps \subseteq mishaps' /\ Free
    BY <1>12, <1>1 DEF Unlock, Goes
  <2> HIDE DEF Free
  <2>3. Progress(s, p)
    BY <1>12, <2>1, <2>2 DEF Progress, Free, Unlock, Goes
  <2> QED  BY <2>1, <2>3
<1>13. CASE TimePasses(s)
  <2> DEFINE p == svc[s].pc
  <2>1. Moves(s, p) /\ p \in Pcs
    BY <1>13, <1>1, ServiceMoves DEF Pcs, Alive
  <2>2. call' = call /\ mishaps \subseteq mishaps' /\ Free
    BY <1>13, <1>1 DEF TimePasses
  <2> HIDE DEF Free
  <2>3. Progress(s, p)
    BY <1>13, <2>1, <2>2 DEF Progress, Free, TimePasses
  <2> QED  BY <2>1, <2>3
<1>14. CASE OpenPage(s)
  <2> DEFINE p == svc[s].pc
  <2>1. Moves(s, p) /\ p \in Pcs
    BY <1>14, <1>1, ServiceMoves DEF Pcs, Alive
  <2>2. call' = call /\ mishaps \subseteq mishaps' /\ Free
    BY <1>14, <1>1 DEF OpenPage
  <2> HIDE DEF Free
  <2>3. Progress(s, p)
    BY <1>14, <2>1, <2>2 DEF Progress, Free, OpenPage
  <2> QED  BY <2>1, <2>3
<1>15. CASE ClosePage(s)
  <2> DEFINE p == svc[s].pc
  <2>1. Moves(s, p) /\ p \in Pcs
    BY <1>15, <1>1, ServiceMoves DEF Pcs, Alive
  <2>2. call' = call /\ mishaps \subseteq mishaps' /\ Free
    BY <1>15, <1>1 DEF ClosePage
  <2> HIDE DEF Free
  <2>3. Progress(s, p)
    BY <1>15, <2>1, <2>2 DEF Progress, Free, ClosePage
  <2> QED  BY <2>1, <2>3
<1>16. CASE Kill(s)
  <2> DEFINE p == "exited"
  <2>1. Moves(s, p) /\ p \in Pcs
    BY <1>16, <1>1, ServiceMoves DEF Pcs, Alive
  <2>2. call' = call /\ mishaps \subseteq mishaps' /\ Free
    BY <1>16, <1>1 DEF Kill, Mishap
  <2> HIDE DEF Free
  <2>3. Progress(s, p)
    BY <1>16, <2>1, <2>2 DEF Progress, Free, Kill, Mishap
  <2> QED  BY <2>1, <2>3
<1> QED  BY <1>2, <1>3, <1>4, <1>5, <1>6, <1>7, <1>8, <1>9, <1>10, <1>11, <1>12, <1>13, <1>14,
           <1>15, <1>16 DEF ServiceStep, UserStep

\* No service is asked before it answers, and none stops unasked but for a mishap.
LEMMA AskedSteps ==
  ASSUME FilesInv, AskedInv, UiInstanceNext
  PROVE  AskedInv'
<1>1. ASSUME NEW s \in Services, ServiceStep(s) \/ UserStep(s)
      PROVE  AskedInv'
  <2>1. PICK p \in Pcs : Progress(s, p)
    BY <1>1, ServiceProgress
  <2>2. mishaps' = {} => mishaps = {}
    BY <2>1 DEF Progress
  <2>3. svc'[s].asked => svc'[s].pc \in Answering \union {"closed", "cleared", "exited"}
    BY <2>1 DEF Progress, Moves, AskedInv, Answering
  <2>4. mishaps' = {} /\ svc'[s].pc \in {"stopping", "closed", "cleared"} => svc'[s].asked
    BY <2>1, <2>2 DEF Progress, Moves, AskedInv
  <2> QED  BY <2>1, <2>2, <2>3, <2>4 DEF Progress, Moves, AskedInv
<1>2. ASSUME NEW c \in Callers, Begin(c) \/ CallStep(c)
      PROVE  AskedInv'
  <2>1. mishaps' = mishaps
    BY <1>2 DEF CallStep, Begin, ReadInfo, Ask, AskShutdown, ProbeTakes, ProbeLets, ProbeTimesOut,
         Start, WaitTimesOut
  <2>2. UiInstanceTypeOK
    BY DEF FilesInv
  <2>3. ASSUME NEW s \in Services
        PROVE  /\ svc'[s].asked => svc'[s].pc \in Answering \union {"closed", "cleared", "exited"}
               /\ mishaps' = {} /\ svc'[s].pc \in {"stopping", "closed", "cleared"} => svc'[s].asked
    <3>1. CASE svc'[s].asked # svc[s].asked
      <4>1. Reached(c) /\ s = dir.sock /\ ~Start(c)
        BY <1>2, <2>2, <3>1, CallServices DEF AskShutdown, Turns, Start
      <4>2. svc'[s].pc = svc[s].pc /\ svc[s].pc \in Answering
        BY <1>2, <2>2, <4>1, CallServices DEF Reached
      <4>3. svc'[s].asked
        <5>1. AskShutdown(c)
          BY <1>2, <2>2, <3>1, CallServices
        <5> QED  BY <4>1, <5>1 DEF AskShutdown, FilesInv, UiInstanceTypeOK
      <4> QED  BY <4>2, <4>3
    <3>2. CASE svc'[s].asked = svc[s].asked /\ svc'[s].pc = svc[s].pc
      BY <2>1, <3>2 DEF AskedInv
    <3>3. CASE svc'[s].asked = svc[s].asked /\ svc[s].pc = "none" /\ svc'[s].pc = "spawned"
      BY <2>1, <3>3 DEF AskedInv, Answering
    <3>4. svc'[s].pc = svc[s].pc \/ (svc[s].pc = "none" /\ svc'[s].pc = "spawned")
      BY <1>2, <2>2, CallServices DEF Started
    <3> QED  BY <3>1, <3>2, <3>3, <3>4
  <2> QED  BY <2>3 DEF AskedInv
<1>3. CASE SessionsComeAndGo  BY <1>3 DEF SessionsComeAndGo, AskedInv
<1> QED  BY <1>1, <1>2, <1>3 DEF UiInstanceNext

\* A service that finds the lock taken may give up: its holder answers for it,
\* or whoever waits for the holder will start another.
LEMMA ServiceWait ==
  ASSUME EnsureInv, NEW s \in Services, ServiceStep(s) \/ UserStep(s)
  PROVE  WaitInv'
<1>1. PICK p \in Pcs : Progress(s, p)
  BY ServiceProgress DEF EnsureInv
<1>2. SUFFICES ASSUME ~Excused'
               PROVE  /\ \A x \in Services : svc'[x].asked /\ dir'.lock = x =>
                                               \E d \in Callers : call'[d].pc = "probe"
                      /\ (\E c \in Callers : call'[c].at = "wait") => OnTheWay'
                      /\ \A c \in Callers : call'[c].pc # "unstarted"
  BY DEF WaitInv
<1>3. mishaps' = {} /\ mishaps = {} /\ call' = call /\ ~Excused
  BY <1>1, <1>2 DEF Excused, Progress
<1>4. \A x \in Services : svc'[x].asked = svc[x].asked
  BY <1>1 DEF Progress, Moves
<1>5. ASSUME NEW x \in Services, svc'[x].asked, dir'.lock = x
      PROVE  \E d \in Callers : call'[d].pc = "probe"
  <2>1. svc[x].pc # "spawned"
    BY <1>4, <1>5 DEF EnsureInv, AskedInv, Answering
  <2>2. dir.lock = x
    BY <1>1, <1>5, <2>1 DEF Progress
  <2> QED  BY <1>3, <1>4, <1>5, <2>2 DEF EnsureInv, WaitInv
<1>6. ASSUME OnTheWay
      PROVE  OnTheWay'
  <2>1. CASE \E d \in Callers : call[d].pc \in {"probe", "probing", "start"}
    BY <1>3, <2>1 DEF OnTheWay
  <2>2. ASSUME NEW x \in Services, Sound(x), x # s
        PROVE  OnTheWay'
    BY <1>1, <2>2 DEF Progress, Moves, OnTheWay, Sound
  <2>3. ASSUME Sound(s)
        PROVE  OnTheWay'
    <3>1. CASE svc[s].pc = "spawned" /\ p = "exited" /\ dir.lock # "free"
      <4>1. CASE dir.lock \in Callers
        BY <1>3, <4>1 DEF EnsureInv, FilesInv, LockInv, OnTheWay
      <4>2. CASE dir.lock \in Services
        <5> DEFINE x == dir.lock
        <5>1. x \in Services /\ svc[x].pc \in Holding /\ x # s
          BY <3>1, <4>2 DEF EnsureInv, FilesInv, LockInv, Holding
        <5>2. CASE svc[x].asked
          BY <1>3, <5>1, <5>2 DEF EnsureInv, WaitInv, OnTheWay
        <5>3. CASE ~svc[x].asked
          <6>1. svc[x].pc \notin {"stopping", "closed", "cleared"}
            BY <1>3, <5>1, <5>3 DEF EnsureInv, AskedInv
          <6>2. Sound(x)
            BY <5>1, <5>3, <6>1 DEF Sound, Holding
          <6> QED  BY <2>2, <5>1, <6>2
        <5> QED  BY <5>2, <5>3
      <4>3. dir.lock \in Services \union Callers \union {"free"}
        BY DEF EnsureInv, FilesInv, UiInstanceTypeOK
      <4> QED  BY <3>1, <4>1, <4>2, <4>3
    <3>2. CASE ~(svc[s].pc = "spawned" /\ p = "exited" /\ dir.lock # "free")
      <4>1. p \in {"spawned", "locked", "bound", "answering", "serving", "noting"}
        BY <1>1, <1>3, <2>3, <3>2 DEF Progress, Sound
      <4>2. Sound(s)'
        BY <1>1, <1>4, <2>3, <4>1 DEF Progress, Moves, Sound
      <4> QED  BY <4>2 DEF OnTheWay
    <3> QED  BY <3>1, <3>2
  <2> QED  BY <1>6, <2>1, <2>2, <2>3 DEF OnTheWay
<1> QED  BY <1>3, <1>5, <1>6 DEF EnsureInv, WaitInv

\* A command stops no service without waiting for its lock, and starts one then.
LEMMA CallWait ==
  ASSUME EnsureInv, NEW c \in Callers, Begin(c) \/ CallStep(c)
  PROVE  WaitInv'
<1>1. UiInstanceTypeOK /\ c \notin Services /\ "free" \notin Services
      /\ dir.lock \in Services \union Callers \union {"free"}
  BY UiInstanceAssumption DEF EnsureInv, FilesInv, UiInstanceTypeOK
<1>2. SUFFICES ASSUME ~Excused'
               PROVE  /\ \A x \in Services : svc'[x].asked /\ dir'.lock = x =>
                                               \E d \in Callers : call'[d].pc = "probe"
                      /\ (\E d \in Callers : call'[d].at = "wait") => OnTheWay'
                      /\ \A d \in Callers : call'[d].pc # "unstarted"
  BY DEF WaitInv
<1>3. PICK p \in CallPcs \ {"idle"}, a \in {"ensure", "stop", "wait"} : Turned(c, p, a)
  <2>1. call[c].at \in {"ensure", "stop", "wait"}
    BY <1>1 DEF UiInstanceTypeOK
  <2> QED  BY <1>1, <2>1, CallTurns DEF CallStep, CallPcs
<1>4. mishaps = {} /\ ~Excused /\ Want[c] # "stop" /\ call[c].pc # "unstopped"
  <2>1. mishaps' = mishaps /\ call[c].pc # "unstopped"
    BY DEF CallStep, Begin, ReadInfo, Ask, AskShutdown, ProbeTakes, ProbeLets, ProbeTimesOut,
         Start, WaitTimesOut, Turns
  <2>2. Want[c] # "stop"
    BY <1>2, <1>3 DEF Turned, Excused
  <2>3. \A d \in Callers \ {c} : call'[d] = call[d]
    BY <1>3 DEF Turned
  <2> QED  BY <1>2, <2>1, <2>2, <2>3 DEF Excused
<1>5. /\ \A x \in Services : svc[x].asked /\ dir.lock = x => \E d \in Callers : call[d].pc = "probe"
      /\ (\E d \in Callers : call[d].at = "wait") => OnTheWay
      /\ \A d \in Callers : call[d].pc # "unstarted"
  BY <1>4 DEF EnsureInv, WaitInv
<1>6. CASE Begin(c) \/ ReadInfo(c) \/ Ask(c)
  <2>1. PICK q \in CallPcs \ {"unstarted"}, b \in {call[c].at, "ensure", "stop"} : Turned(c, q, b)
    BY <1>1, <1>6, CallTurns DEF CallPcs
  <2>2. dir' = dir /\ call[c].pc \in {"idle", "read", "ask"}
    BY <1>6 DEF Begin, ReadInfo, Ask
  <2>3. \A s \in Services : svc'[s].pc = svc[s].pc /\ svc'[s].asked = svc[s].asked
    BY <1>1, <1>6, <2>2, CallServices DEF Start, AskShutdown, Turns
  <2>4. \A d \in Callers : call[d].pc \in {"probe", "probing", "start"} => call'[d].pc = call[d].pc
    BY <2>1, <2>2 DEF Turned
  <2>5. OnTheWay => OnTheWay'
    BY <2>3, <2>4 DEF OnTheWay, Sound
  <2>6. (\E d \in Callers : call'[d].at = "wait") => (\E d \in Callers : call[d].at = "wait")
    BY <2>1 DEF Turned
  <2>7. \A d \in Callers : call'[d].pc # "unstarted"
    BY <1>5, <2>1 DEF Turned
  <2> QED  BY <1>5, <2>2, <2>3, <2>4, <2>5, <2>6, <2>7
<1>7. CASE AskShutdown(c)
  <2>1. Turned(c, "probe", call[c].at)
    <3>1. CASE ~Reached(c)
      <4>1. call'[c].pc = "unstopped"
        BY <1>1, <1>7, <3>1, CallTurns DEF Turned
      <4> QED  BY <1>2, <4>1 DEF Excused
    <3>2. CASE Reached(c)  BY <1>1, <1>7, <3>2, CallTurns
    <3> QED  BY <3>1, <3>2
  <2> QED  BY <1>5, <2>1 DEF Turned, OnTheWay
<1>8. CASE ProbeTakes(c)
  <2>1. Turned(c, "probing", call[c].at)
    BY <1>1, <1>8, CallTurns
  <2>2. dir'.lock = c
    BY <1>8 DEF ProbeTakes, EnsureInv, FilesInv, UiInstanceTypeOK
  <2> QED  BY <1>1, <1>5, <2>1, <2>2 DEF Turned, OnTheWay
<1>9. CASE ProbeLets(c)
  <2>1. Turned(c, "start", call[c].at)
    BY <1>1, <1>4, <1>9, CallTurns
  <2>2. dir'.lock = "free"
    BY <1>9 DEF ProbeLets, EnsureInv, FilesInv, UiInstanceTypeOK
  <2> QED  BY <1>1, <1>5, <2>1, <2>2 DEF Turned, OnTheWay
<1>10. CASE ProbeTimesOut(c)
  <2>1. call'[c].pc = "unstopped"
    BY <1>1, <1>10, CallTurns DEF Turned
  <2> QED  BY <1>2, <2>1 DEF Excused
<1>11. CASE Start(c)
  <2>1. Turned(c, "read", "wait")
    BY <1>1, <1>11, CallTurns
  <2>2. dir' = dir /\ call[c].pc = "start"
    BY <1>11 DEF Start
  <2>3. PICK s \in Services : Started(s)
    BY <1>1, <1>11, CallServices
  <2>4. Sound(s)'
    BY <2>3 DEF Started, Sound, EnsureInv, AskedInv, Answering
  <2>5. \A x \in Services : svc'[x].asked = svc[x].asked
    BY <1>1, <2>2, <1>11, CallServices DEF AskShutdown, Turns
  <2> QED  BY <1>5, <2>1, <2>2, <2>4, <2>5 DEF Turned, OnTheWay
<1>12. CASE WaitTimesOut(c)
  <2>1. OnTheWay
    BY <1>5, <1>12 DEF WaitTimesOut
  <2> QED  BY <1>4, <1>12, <2>1 DEF WaitTimesOut, OnTheWay, Sound, Alive
<1> QED  BY <1>6, <1>7, <1>8, <1>9, <1>10, <1>11, <1>12 DEF CallStep

\* In every state the lock is one's own, and whoever waits for a service has one
\* that is there or will be (instance.go:151, server.go:90).
THEOREM EnsureInvariant == UiInstanceSpec => []EnsureInv
<1>1. UiInstanceInit => EnsureInv
  <2>1. SUFFICES ASSUME UiInstanceInit  PROVE  EnsureInv
    OBVIOUS
  <2>2. UiInstanceTypeOK
    BY <2>1 DEF UiInstanceInit, UiInstanceTypeOK, Alive
  <2> QED  BY <2>1, <2>2, UiInstanceAssumption
      DEF UiInstanceInit, EnsureInv, FilesInv, LockInv, AskedInv, WaitInv, Holding, Answering
<1>2. EnsureInv /\ [UiInstanceNext]_uiVars => EnsureInv'
  <2>1. SUFFICES ASSUME EnsureInv, [UiInstanceNext]_uiVars  PROVE  EnsureInv'
    OBVIOUS
  <2>2. ASSUME NEW s \in Services, ServiceStep(s) \/ UserStep(s)  PROVE  EnsureInv'
    <3>1. FilesInv'
      BY <2>1, <2>2, DirMoves, LockMoves DEF EnsureInv, FilesInv
    <3>2. AskedInv'
      BY <2>1, <2>2, AskedSteps DEF EnsureInv, UiInstanceNext
    <3> QED  BY <2>1, <2>2, <3>1, <3>2, ServiceWait DEF EnsureInv
  <2>3. ASSUME NEW c \in Callers, Begin(c) \/ CallStep(c)  PROVE  EnsureInv'
    <3>1. FilesInv'
      BY <2>1, <2>3, CallFiles DEF EnsureInv
    <3>2. AskedInv'
      BY <2>1, <2>3, AskedSteps DEF EnsureInv, UiInstanceNext
    <3> QED  BY <2>1, <2>3, <3>1, <3>2, CallWait DEF EnsureInv
  <2>4. CASE SessionsComeAndGo
    BY <2>1, <2>4 DEF SessionsComeAndGo, EnsureInv, FilesInv, UiInstanceTypeOK, LockInv, AskedInv,
         WaitInv, Excused, OnTheWay, Sound
  <2>5. CASE UNCHANGED uiVars
    BY <2>1, <2>5 DEF uiVars, EnsureInv, FilesInv, UiInstanceTypeOK, LockInv, AskedInv,
         WaitInv, Excused, OnTheWay, Sound
  <2> QED  BY <2>1, <2>2, <2>3, <2>4, <2>5 DEF UiInstanceNext
<1> QED  BY <1>1, <1>2, PTL DEF UiInstanceSpec

\* EnsureFindsOne (UiInstance), for any commands, versions and services: of several
\* Ensures and Stops at once none waits in vain but for a breakdown, an idle
\* exit, a `ui stop` or an Ensure that gave up.
THEOREM SpecEnsureFindsOne == UiInstanceSpec => []EnsureFindsOne
<1>1. EnsureInv => EnsureFindsOne
  BY DEF EnsureInv, WaitInv, Excused, EnsureFindsOne
<1> QED  BY <1>1, EnsureInvariant, PTL


\* While a service answers it alone touches its socket and its ui.json: everyone
\* else would need the lock it holds.
LEMMA FilesOfOneStay ==
  ASSUME FilesInv, UiInstanceNext, NEW s \in Services,
         svc[s].pc \in Answering, svc'[s].pc \in Answering
  PROVE  (dir.sock = s => dir'.sock = s) /\ (dir.info = s => dir'.info = s)
<1>1. /\ dir.lock = s /\ s # "free" /\ svc \in [Services -> ServiceType]
      /\ dir \in [lock : Services \union Callers \union {"free"},
                  sock : Services \union {"none"}, info : Services \union {"none"}]
  BY UiInstanceAssumption
  DEF FilesInv, LockInv, UiInstanceTypeOK, ServiceType, Pcs, Answering, Holding
<1>2. ASSUME NEW x \in Services, ServiceStep(x) \/ UserStep(x), x # s
      PROVE  (dir.sock = s => dir'.sock = s) /\ dir'.info = dir.info
  <2>1. svc[x].pc \notin Holding
    BY <1>1, <1>2 DEF FilesInv, LockInv
  <2>2. dir' = dir \/ Kill(x)
    BY <1>1, <1>2, <2>1
    DEF ServiceStep, UserStep, Holding, Goes, TakeLock, Bind, StartServing, WriteInfo, NoteAlone,
        NoteActivity, Touch, HearShutdown, CloseServers, ClearFiles, Unlock, TimePasses, OpenPage,
        ClosePage
  <2>3. Kill(x) => (dir.sock = s => dir'.sock = s) /\ dir'.info = dir.info
    BY <1>1, <1>2 DEF Kill
  <2> QED  BY <2>2, <2>3
<1>3. ASSUME ServiceStep(s) \/ UserStep(s)
      PROVE  dir'.sock = dir.sock /\ dir'.info \in {dir.info, s}
  <2>1. ~CloseServers(s) /\ ~Kill(s)
    BY <1>1, ServiceMoves DEF Moves, Answering
  <2>2. dir' = dir \/ WriteInfo(s)
    BY <1>1, <1>3, <2>1
    DEF ServiceStep, UserStep, Answering, Goes, TakeLock, Bind, StartServing, NoteAlone,
        NoteActivity, Touch, HearShutdown, ClearFiles, Unlock, TimePasses, OpenPage, ClosePage
  <2> QED  BY <1>1, <2>2 DEF WriteInfo
<1>4. ASSUME NEW c \in Callers, Begin(c) \/ CallStep(c)
      PROVE  dir'.sock = dir.sock /\ dir'.info = dir.info
  BY <1>1, <1>4
  DEF CallStep, Begin, ReadInfo, Ask, AskShutdown, ProbeTakes, ProbeLets, ProbeTimesOut, Start,
      WaitTimesOut
<1> QED  BY <1>2, <1>3, <1>4 DEF UiInstanceNext, SessionsComeAndGo

\* FilesStay (UiInstance), for any commands, versions and services: the files keep
\* their kinds, and one service never undoes another's (server.go:112, 120, 175).
THEOREM SpecFilesStay == UiInstanceSpec => FilesStay
<1> DEFINE Stays == \A s \in Services :
                      svc[s].pc \in Answering /\ svc'[s].pc \in Answering =>
                        /\ dir.sock = s => dir'.sock = s
                        /\ dir.info = s => dir'.info = s
<1>1. EnsureInv => UiInstanceTypeOK
  BY DEF EnsureInv, FilesInv
<1>2. EnsureInv /\ [UiInstanceNext]_uiVars => [Stays]_uiVars
  BY FilesOfOneStay DEF EnsureInv
<1> QED  BY <1>1, <1>2, EnsureInvariant, PTL DEF UiInstanceSpec, FilesStay

-----------------------------------------------------------------------------
(* UiHub. *)

\* The types of what the hub keeps of a follower, a refresh and the page.
FollowerType ==
  [pc : {"none", "opening", "relaying", "ending"}, cancelled : BOOLEAN, pipe : Seq(States)]
RefreshType ==
  [pc : {"idle", "ask", "tell"}, found : SUBSET Sessions,
   sums : [Sessions -> States \union {"none", "silent"}], changed : BOOLEAN]
PageType ==
  [pc : {"away", "open"}, queue : Seq(Events), view : Lists, answer : Lists,
   get : {"due", "asked", "answered", "read"}, lost : BOOLEAN, late : BOOLEAN]

\* Nothing is listed where there is no list, and one state where there is one.
LEMMA ListTypes ==
  /\ NoList \in Lists
  /\ \A l \in Lists : Whole(l) \in Events
  /\ \A s \in Sessions, state \in States : One(s, state) \in Events
<1>1. NoList \in Lists
  BY DEF NoList, Lists
<1>2. \A l \in Lists : Whole(l) \in Events
  BY DEF Whole, Events
<1>3. ASSUME NEW s \in Sessions, NEW state \in States PROVE One(s, state) \in Events
  <2>1. [NoList EXCEPT ![s] = state] \in Lists
    BY DEF NoList, Lists, States
  <2> QED BY <2>1 DEF One, Events
<1> QED BY <1>1, <1>2, <1>3

\* A page is told within its queue.
LEMMA QueuedType ==
  ASSUME UiHubAssumption, NEW p \in PageType, Len(p.queue) <= QueueCap, NEW e \in Events
  PROVE  Queued(p, e) \in PageType /\ Len(Queued(p, e).queue) <= QueueCap
<1>1. CASE p.pc = "away"
  BY <1>1 DEF Queued
<1>2. CASE p.pc # "away" /\ Len(p.queue) < QueueCap
  <2>1. Append(p.queue, e) \in Seq(Events) /\ Len(Append(p.queue, e)) = Len(p.queue) + 1
    BY DEF PageType
  <2>2. Len(p.queue) \in Nat
    BY DEF PageType
  <2>3. Len(p.queue) + 1 <= QueueCap
    BY <1>2, <2>2 DEF UiHubAssumption
  <2> DEFINE q == Append(p.queue, e)
             r == [p EXCEPT !.queue = q]
  <2>4. Queued(p, e) = r
    BY <1>2 DEF Queued
  <2> HIDE DEF q
  <2>5. r \in PageType /\ r.queue = q
    BY <2>1 DEF PageType, q
  <2> QED BY <2>1, <2>3, <2>4, <2>5 DEF q
<1>3. CASE p.pc # "away" /\ ~(Len(p.queue) < QueueCap)
  <2>1. Queued(p, e) = [p EXCEPT !.lost = TRUE]
    BY <1>3 DEF Queued
  <2> QED BY <2>1 DEF PageType
<1> QED BY <1>1, <1>2, <1>3

\* What a session says of itself goes to those who listen.
LEMMA SentType ==
  ASSUME follower \in [Sessions -> [Names -> FollowerType]], NEW s \in Sessions,
         NEW state \in States, Sent(s, state)
  PROVE  follower' \in [Sessions -> [Names -> FollowerType]]
<1>1. ASSUME NEW f \in Names PROVE Hears(follower[s][f], state) \in FollowerType
  <2>1. follower[s][f] \in FollowerType
    OBVIOUS
  <2>2. Append(follower[s][f].pipe, state) \in Seq(States)
    BY <2>1, AppendProperties DEF FollowerType
  <2> DEFINE pipe == Append(follower[s][f].pipe, state)
  <2> HIDE DEF pipe
  <2>3. [follower[s][f] EXCEPT !.pipe = pipe] \in FollowerType
    BY <2>1, <2>2 DEF FollowerType, pipe
  <2> QED BY <2>1, <2>3 DEF Hears, pipe
<1> DEFINE new(f) == Hears(follower[s][f], state)
<1>2. \A f \in Names : new(f) \in FollowerType
  BY <1>1
<1>3. \E g : follower' = [follower EXCEPT ![s] = g]
  BY DEF Sent
<1>4. \E g : follower'[s] = [f \in Names |-> g[f]]
  BY DEF Sent
<1>5. \A f \in Names : follower'[s][f] = new(f)
  BY DEF Sent
<1> HIDE DEF new
<1>6. follower'[s] \in [Names -> FollowerType]
  BY <1>2, <1>4, <1>5
<1> QED BY <1>3, <1>6

\* One follower changes.
LEMMA BecomesType ==
  ASSUME follower \in [Sessions -> [Names -> FollowerType]], NEW s \in Sessions,
         NEW f \in Names, NEW to \in FollowerType, Becomes(s, f, to)
  PROVE  follower' \in [Sessions -> [Names -> FollowerType]]
BY DEF Becomes

\* The hub keeps its types: no queue is longer than its room, and everything the
\* page is told or shows is a list of sessions.
LEMMA HubTypeInductive ==
  ASSUME UiHubTypeOK, [UiHubNext]_hubVars
  PROVE  UiHubTypeOK'
<1> USE UiHubAssumption
<1>1. /\ real \in [Sessions -> {"running", "ended", "gone"}]
      /\ trouble \in 0..MaxTrouble /\ missed \subseteq Sessions /\ aged \subseteq Sessions
      /\ turn \in Refreshes \union {"none"}
      /\ refresh \in [Refreshes -> RefreshType]
      /\ list \in Lists
      /\ follows \in [Sessions -> Names \union {0}]
      /\ follower \in [Sessions -> [Names -> FollowerType]]
      /\ page \in PageType /\ Len(page.queue) <= QueueCap
  BY DEF UiHubTypeOK, FollowerType, RefreshType, PageType
<1>2. ASSUME real' \in [Sessions -> {"running", "ended", "gone"}],
             trouble' \in 0..MaxTrouble, missed' \subseteq Sessions, aged' \subseteq Sessions,
             turn' \in Refreshes \union {"none"},
             refresh' \in [Refreshes -> RefreshType],
             list' \in Lists, follows' \in [Sessions -> Names \union {0}],
             follower' \in [Sessions -> [Names -> FollowerType]],
             page' \in PageType, Len(page'.queue) <= QueueCap
      PROVE  UiHubTypeOK'
  BY <1>2 DEF UiHubTypeOK, FollowerType, RefreshType, PageType
<1>3. ASSUME NEW n \in Nat, Troubled(n) PROVE trouble' \in 0..MaxTrouble
  BY <1>1, <1>3 DEF Troubled, UiHubAssumption
<1>4. \A s \in Sessions : Answers(s) => real[s] \in States
  BY DEF Answers, States
<1>5. ASSUME NEW s \in Sessions, Updates(s) PROVE UiHubTypeOK'
  <2>1. follower' \in [Sessions -> [Names -> FollowerType]]
    BY <1>1, <1>5, SentType DEF Updates, States
  <2> QED BY <1>1, <1>2, <1>5, <2>1 DEF Updates, world
<1>6. ASSUME NEW s \in Sessions, Ends(s) PROVE UiHubTypeOK'
  <2>1. follower' \in [Sessions -> [Names -> FollowerType]]
    BY <1>1, <1>6, SentType DEF Ends, States
  <2>2. real' \in [Sessions -> {"running", "ended", "gone"}]
    BY <1>1, <1>6 DEF Ends
  <2> QED BY <1>1, <1>2, <1>6, <2>1, <2>2 DEF Ends
<1>7. ASSUME NEW s \in Sessions, Leaves(s) PROVE UiHubTypeOK'
  <2>1. real' \in [Sessions -> {"running", "ended", "gone"}]
    BY <1>1, <1>7 DEF Leaves
  <2> QED BY <1>1, <1>2, <1>7, <2>1 DEF Leaves, relays
<1>8. ASSUME NEW s \in Sessions, Age(s) PROVE UiHubTypeOK'
  BY <1>1, <1>2, <1>8 DEF Age, world, relays
<1>9. ASSUME NEW s \in Sessions, NEW f \in Names, FollowStep(s, f) PROVE UiHubTypeOK'
  <2>1. follower[s][f] \in FollowerType
    BY <1>1
  <2>2. NoFollower \in FollowerType
    BY DEF NoFollower, FollowerType
  <2>3. CASE Opens(s, f)
    <3> DEFINE pc == IF Answers(s) /\ ~follower[s][f].cancelled THEN "relaying" ELSE "ending"
               to == [follower[s][f] EXCEPT !.pc = pc]
    <3>1. to \in FollowerType
      BY <2>1 DEF FollowerType
    <3>2. Becomes(s, f, to)
      BY <2>3 DEF Opens
    <3> HIDE DEF to
    <3>3. follower' \in [Sessions -> [Names -> FollowerType]]
      BY <1>1, <3>1, <3>2, BecomesType
    <3> QED BY <1>1, <1>2, <2>3, <3>3 DEF Opens, world
  <2>4. CASE Relay(s, f)
    <3>1. /\ Tail(follower[s][f].pipe) \in Seq(States) /\ Head(follower[s][f].pipe) \in States
      BY <2>1, <2>4 DEF Relay, FollowerType
    <3> DEFINE to == [follower[s][f] EXCEPT !.pipe = Tail(@)]
    <3>2. to \in FollowerType
      BY <2>1, <3>1 DEF FollowerType
    <3>3. Becomes(s, f, to)
      BY <2>4 DEF Relay
    <3> HIDE DEF to
    <3>4. follower' \in [Sessions -> [Names -> FollowerType]]
      BY <1>1, <3>2, <3>3, BecomesType
    <3>5. page' \in PageType /\ Len(page'.queue) <= QueueCap
      <4>1. One(s, Head(follower[s][f].pipe)) \in Events
        BY <3>1, ListTypes
      <4> QED BY <1>1, <2>4, <4>1, QueuedType DEF Relay
    <3> QED BY <1>1, <1>2, <2>4, <3>4, <3>5 DEF Relay, world
  <2>5. CASE StreamEnds(s, f)
    <3> DEFINE to == [follower[s][f] EXCEPT !.pc = "ending", !.pipe = <<>>]
    <3>1. to \in FollowerType
      <4>1. <<>> \in Seq(States)
        BY EmptySeq
      <4> QED BY <2>1, <4>1 DEF FollowerType
    <3>2. Becomes(s, f, to)
      BY <2>5 DEF StreamEnds
    <3> HIDE DEF to
    <3>3. follower' \in [Sessions -> [Names -> FollowerType]]
      BY <1>1, <3>1, <3>2, BecomesType
    <3>4. trouble' \in 0..MaxTrouble
      BY <1>1, <1>3, <2>5 DEF StreamEnds
    <3> QED BY <1>1, <1>2, <2>5, <3>3, <3>4 DEF StreamEnds
  <2>6. CASE FollowEnds(s, f)
    <3>1. follower' \in [Sessions -> [Names -> FollowerType]]
      BY <1>1, <2>2, <2>6, BecomesType DEF FollowEnds
    <3>2. follows' \in [Sessions -> Names \union {0}]
      BY <1>1, <2>6 DEF FollowEnds
    <3> QED BY <1>1, <1>2, <2>6, <3>1, <3>2 DEF FollowEnds, world
  <2> QED BY <1>9, <2>3, <2>4, <2>5, <2>6 DEF FollowStep
<1>10. ASSUME NEW r \in Refreshes, RefreshStep(r) PROVE UiHubTypeOK'
  <2>1. refresh[r] \in RefreshType
    BY <1>1
  <2>2. NoRefresh \in RefreshType
    BY DEF NoRefresh, RefreshType, NoList
  <2>3. CASE Scan(r)
    <3>1. PICK slow \in SUBSET {s \in Sessions : Answers(s)} :
            /\ Troubled(Cardinality(slow))
            /\ missed' = missed \union slow
            /\ refresh' = [refresh EXCEPT ![r].pc = "ask",
                             ![r].found = {s \in Sessions \ slow : Answers(s)}]
      BY <2>3 DEF Scan
    <3>2. Cardinality(slow) \in Nat
      BY FS_Subset, FS_CardinalityType DEF UiHubAssumption
    <3>3. trouble' \in 0..MaxTrouble
      BY <1>3, <3>1, <3>2
    <3> DEFINE found == {s \in Sessions \ slow : Answers(s)}
               to == [refresh[r] EXCEPT !.pc = "ask", !.found = found]
    <3>4. to \in RefreshType
      BY <2>1 DEF RefreshType
    <3>5. refresh' = [refresh EXCEPT ![r] = to]
      BY <3>1
    <3> HIDE DEF to
    <3>6. refresh' \in [Refreshes -> RefreshType]
      BY <1>1, <3>4, <3>5
    <3>7. page' \in PageType /\ Len(page'.queue) <= QueueCap
      BY <1>1, <2>3 DEF Scan, PageType
    <3>8. turn' \in Refreshes \union {"none"} /\ missed' \subseteq Sessions
      BY <1>1, <2>3, <3>1 DEF Scan
    <3> QED BY <1>1, <1>2, <2>3, <3>3, <3>6, <3>7, <3>8 DEF Scan, relays
  <2>4. ASSUME NEW s \in Sessions, Summarize(r, s) PROVE UiHubTypeOK'
    <3>1. PICK sum \in States \union {"silent"} : refresh' = [refresh EXCEPT ![r].sums[s] = sum]
      BY <1>4, <2>4 DEF Summarize
    <3> DEFINE to == [refresh[r] EXCEPT !.sums[s] = sum]
    <3>2. to \in RefreshType
      BY <2>1 DEF RefreshType
    <3>3. refresh' = [refresh EXCEPT ![r] = to]
      BY <3>1
    <3> HIDE DEF to
    <3>4. refresh' \in [Refreshes -> RefreshType]
      BY <1>1, <3>2, <3>3
    <3>5. trouble' \in 0..MaxTrouble /\ missed' \subseteq Sessions
      BY <1>1, <1>3, <2>4 DEF Summarize
    <3> QED BY <1>1, <1>2, <2>4, <3>4, <3>5 DEF Summarize, relays
  <2>5. CASE Commit(r)
    <3>1. list' \in Lists
      <4>1. \A s \in Sessions : Listed(r, s) \in States \union {"none"}
        BY <1>1 DEF Listed, Lists, States
      <4> QED BY <2>5, <4>1 DEF Commit, Lists
    <3>2. aged' \subseteq Sessions
      BY <1>1, <2>5 DEF Commit
    <3>3. follows' \in [Sessions -> Names \union {0}]
      <4>1. \A s \in Sessions : Idle(s) \subseteq Names
        BY DEF Idle
      <4> DEFINE new == {s \in refresh[r].found : refresh[r].sums[s] \in States /\ follows[s] = 0}
                 gone == {s \in Sessions \ refresh[r].found : follows[s] # 0}
      <4>2. \A s \in new : (CHOOSE f \in Idle(s) : TRUE) \in Idle(s)
        BY <2>5 DEF Commit
      <4>3. new \subseteq Sessions
        BY <2>1 DEF RefreshType
      <4>4. follows' = [s \in Sessions |->
              IF s \in new THEN CHOOSE f \in Idle(s) : TRUE
              ELSE IF s \in gone THEN 0 ELSE follows[s]]
        BY <2>5 DEF Commit
      <4> HIDE DEF new, gone
      <4> QED BY <1>1, <4>1, <4>2, <4>3, <4>4
    <3>4. follower' \in [Sessions -> [Names -> FollowerType]]
      <4>1. [NoFollower EXCEPT !.pc = "opening"] \in FollowerType
        <5>1. <<>> \in Seq(States)
          BY EmptySeq
        <5> QED BY <5>1 DEF NoFollower, FollowerType
      <4>2. \A s \in Sessions, f \in Names : [follower[s][f] EXCEPT !.cancelled = TRUE] \in FollowerType
        <5>1. \A to \in FollowerType : [to EXCEPT !.cancelled = TRUE] \in FollowerType
          BY DEF FollowerType
        <5> QED BY <1>1, <5>1
      <4> DEFINE new == {s \in refresh[r].found : refresh[r].sums[s] \in States /\ follows[s] = 0}
                 gone == {s \in Sessions \ refresh[r].found : follows[s] # 0}
      <4>3. follower' = [s \in Sessions |-> [f \in Names |->
           IF s \in new /\ f = follows'[s] THEN [NoFollower EXCEPT !.pc = "opening"]
           ELSE IF s \in gone /\ f = follows[s] THEN [follower[s][f] EXCEPT !.cancelled = TRUE]
           ELSE follower[s][f]]]
        BY <2>5 DEF Commit
      <4> HIDE DEF new, gone, FollowerType
      <4> QED BY <1>1, <4>1, <4>2, <4>3
    <3>5. refresh' \in [Refreshes -> RefreshType]
      <4> DEFINE changed == list' # list
                 to == [NoRefresh EXCEPT !.pc = "tell", !.changed = changed]
      <4>1. changed \in BOOLEAN
        OBVIOUS
      <4>2. refresh' = [refresh EXCEPT ![r] = to]
        BY <2>5 DEF Commit
      <4> HIDE DEF changed
      <4>3. to \in RefreshType
        BY <2>2, <4>1 DEF RefreshType, NoRefresh
      <4> HIDE DEF to
      <4> QED BY <1>1, <4>2, <4>3
    <3> QED BY <1>1, <1>2, <2>5, <3>1, <3>2, <3>3, <3>4, <3>5 DEF Commit, world
  <2>6. CASE Tell(r)
    <3> DEFINE told == IF refresh[r].changed THEN Queued(page, Whole(list)) ELSE page
    <3>1. told \in PageType /\ Len(told.queue) <= QueueCap
      <4>1. Queued(page, Whole(list)) \in PageType /\ Len(Queued(page, Whole(list)).queue) <= QueueCap
        BY <1>1, ListTypes, QueuedType
      <4> QED BY <1>1, <4>1
    <3>2. page' = IF r = "request" /\ told.get = "asked"
                  THEN [told EXCEPT !.get = "answered", !.answer = list] ELSE told
      BY <2>6 DEF Tell
    <3> HIDE DEF told
    <3>3. page' \in PageType /\ Len(page'.queue) <= QueueCap
      BY <1>1, <3>1, <3>2 DEF PageType
    <3>4. refresh' \in [Refreshes -> RefreshType] /\ turn' \in Refreshes \union {"none"}
      BY <1>1, <2>2, <2>6 DEF Tell
    <3> QED BY <1>1, <1>2, <2>6, <3>3, <3>4 DEF Tell, world, relays
  <2> QED BY <1>10, <2>3, <2>4, <2>5, <2>6 DEF RefreshStep
<1>11. ASSUME Connect PROVE UiHubTypeOK'
  <2>1. page' \in PageType /\ Len(page'.queue) <= QueueCap
    BY <1>1, <1>11 DEF Connect, PageType
  <2> QED BY <1>1, <1>2, <1>11, <2>1 DEF Connect, world, relays
<1>12. ASSUME Deliver PROVE UiHubTypeOK'
  <2> DEFINE e == Head(page.queue)
             view == IF e.typ = "list" THEN e.list
                     ELSE [s \in Sessions |-> IF page.view[s] # "none" /\ e.list[s] # "none"
                                              THEN e.list[s] ELSE page.view[s]]
             late == IF e.typ = "list" THEN FALSE ELSE page.late
  <2>1. e \in Events /\ Tail(page.queue) \in Seq(Events) /\ Len(Tail(page.queue)) <= QueueCap
    <3>1. page.queue \in Seq(Events) /\ page.queue # <<>>
      BY <1>1, <1>12 DEF Deliver, PageType
    <3>2. /\ Head(page.queue) \in Events /\ Tail(page.queue) \in Seq(Events)
          /\ Len(Tail(page.queue)) = Len(page.queue) - 1 /\ Len(page.queue) \in Nat
      BY <3>1
    <3> QED BY <1>1, <3>2 DEF UiHubAssumption
  <2>2. view \in Lists /\ late \in BOOLEAN
    <3>1. e.list \in Lists /\ page.view \in Lists /\ page.late \in BOOLEAN
      BY <1>1, <2>1 DEF Events, PageType
    <3> HIDE DEF e
    <3> QED BY <3>1 DEF Lists
  <2>3. page' = [page EXCEPT !.queue = Tail(@), !.view = view, !.late = late]
    BY <1>12 DEF Deliver
  <2> HIDE DEF view, late, e
  <2>4. page' \in PageType /\ page'.queue = Tail(page.queue)
    BY <1>1, <2>1, <2>2, <2>3 DEF PageType
  <2> QED BY <1>1, <1>2, <1>12, <2>1, <2>4 DEF Deliver, world, relays
<1>13. ASSUME ReadAnswer PROVE UiHubTypeOK'
  <2> DEFINE late == page.answer # list
  <2>1. page' = [page EXCEPT !.get = "read", !.view = page.answer, !.late = late]
    BY <1>13 DEF ReadAnswer
  <2>2. late \in BOOLEAN
    OBVIOUS
  <2> HIDE DEF late
  <2>3. page' \in PageType /\ Len(page'.queue) <= QueueCap
    BY <1>1, <2>1, <2>2 DEF PageType
  <2> QED BY <1>1, <1>2, <1>13, <2>3 DEF ReadAnswer, world, relays
<1>14. ASSUME Break PROVE UiHubTypeOK'
  <2>1. page' \in PageType /\ Len(page'.queue) <= QueueCap
    <3>1. <<>> \in Seq(Events) /\ Len(<<>>) = 0
      BY EmptySeq
    <3>2. page' = [page EXCEPT !.pc = "away", !.queue = <<>>]
      BY <1>14 DEF Break
    <3> DEFINE none == <<>>
               p == [page EXCEPT !.pc = "away", !.queue = none]
    <3> HIDE DEF none
    <3>3. none \in Seq(Events)
      BY <3>1 DEF none
    <3>4. p \in PageType /\ p.queue = none
      BY <1>1, <3>3 DEF PageType
    <3> QED BY <3>1, <3>2, <3>4 DEF UiHubAssumption, none
  <2>2. trouble' \in 0..MaxTrouble
    BY <1>3, <1>14 DEF Break
  <2> QED BY <1>1, <1>2, <1>14, <2>1, <2>2 DEF Break, relays
<1>15. ASSUME UNCHANGED hubVars PROVE UiHubTypeOK'
  BY <1>1, <1>2, <1>15 DEF hubVars
<1> QED BY <1>5, <1>6, <1>7, <1>8, <1>9, <1>10, <1>11, <1>12, <1>13, <1>14, <1>15
        DEF UiHubNext, PageStep

\* One stream of a session counts, whatever ends, vanishes from a scan or is
\* followed anew.
LEMMA OneRelayInductive ==
  ASSUME UiHubTypeOK, OneRelay, [UiHubNext]_hubVars
  PROVE  OneRelay'
<1>1. /\ follows \in [Sessions -> Names \union {0}]
      /\ follower \in [Sessions -> [Names -> FollowerType]]
  BY DEF UiHubTypeOK, FollowerType
<1> DEFINE Counts(f) == f.pc \in {"opening", "relaying"} /\ ~f.cancelled
<1>2. ASSUME UNCHANGED follows,
             \A s \in Sessions, f \in Names : Counts(follower'[s][f]) => Counts(follower[s][f])
      PROVE  OneRelay'
  BY <1>2 DEF OneRelay
\* One follower moves, and counts only if it did.
<1>3. ASSUME NEW s \in Sessions, NEW f \in Names, NEW to, Becomes(s, f, to),
             Counts(to) => Counts(follower[s][f]), UNCHANGED follows
      PROVE  OneRelay'
  <2>1. \A p \in Sessions, g \in Names :
          follower'[p][g] = IF p = s /\ g = f THEN to ELSE follower[p][g]
    BY <1>1, <1>3 DEF Becomes
  <2> QED BY <1>2, <1>3, <2>1
<1>4. ASSUME NEW s \in Sessions, NEW state, Sent(s, state), UNCHANGED follows PROVE OneRelay'
  <2>1. ASSUME NEW p \in Sessions, NEW f \in Names PROVE Counts(follower'[p][f]) => Counts(follower[p][f])
    <3>1. follower[p][f] \in FollowerType
      BY <1>1
    <3>2. \/ follower'[p][f] = follower[p][f]
          \/ follower'[p][f] = Hears(follower[p][f], state)
      BY <1>1, <1>4 DEF Sent
    <3> DEFINE pipe == Append(follower[p][f].pipe, state)
    <3>3. Hears(follower[p][f], state) \in {follower[p][f], [follower[p][f] EXCEPT !.pipe = pipe]}
      BY DEF Hears
    <3> HIDE DEF pipe
    <3>4. Counts([follower[p][f] EXCEPT !.pipe = pipe]) => Counts(follower[p][f])
      BY <3>1 DEF FollowerType
    <3> QED BY <3>2, <3>3, <3>4
  <2> QED BY <1>2, <1>4, <2>1
<1>5. ASSUME NEW s \in Sessions, Updates(s) \/ Ends(s) PROVE OneRelay'
  BY <1>4, <1>5 DEF Updates, Ends
<1>6. ASSUME UNCHANGED relays PROVE OneRelay'
  BY <1>2, <1>6 DEF relays
<1>7. ASSUME NEW s \in Sessions, Leaves(s) \/ Age(s) PROVE OneRelay'
  BY <1>6, <1>7 DEF Leaves, Age
<1>8. ASSUME NEW s \in Sessions, NEW f \in Names, FollowStep(s, f) PROVE OneRelay'
  <2>1. follower[s][f] \in FollowerType
    BY <1>1
  <2>2. CASE Opens(s, f)
    <3> DEFINE pc == IF Answers(s) /\ ~follower[s][f].cancelled THEN "relaying" ELSE "ending"
               to == [follower[s][f] EXCEPT !.pc = pc]
    <3>1. Becomes(s, f, to) /\ follower[s][f].pc = "opening" /\ UNCHANGED follows
      BY <2>2 DEF Opens
    <3>2. Counts(to) => Counts(follower[s][f])
      BY <2>1, <3>1 DEF FollowerType
    <3> HIDE DEF to
    <3> QED BY <1>3, <3>1, <3>2
  <2>3. CASE Relay(s, f)
    <3> DEFINE pipe == Tail(follower[s][f].pipe)
               to == [follower[s][f] EXCEPT !.pipe = pipe]
    <3>1. Becomes(s, f, to) /\ UNCHANGED follows
      BY <2>3 DEF Relay
    <3> HIDE DEF pipe
    <3>2. Counts(to) => Counts(follower[s][f])
      BY <2>1 DEF FollowerType
    <3> HIDE DEF to
    <3> QED BY <1>3, <3>1, <3>2
  <2>4. CASE StreamEnds(s, f)
    <3> DEFINE to == [follower[s][f] EXCEPT !.pc = "ending", !.pipe = <<>>]
    <3>1. Becomes(s, f, to) /\ UNCHANGED follows
      BY <2>4 DEF StreamEnds
    <3>2. ~Counts(to)
      BY <2>1 DEF FollowerType
    <3> HIDE DEF to
    <3> QED BY <1>3, <3>1, <3>2
  <2>5. CASE FollowEnds(s, f)
    <3>1. /\ follower[s][f].pc = "ending"
          /\ follower' = [follower EXCEPT ![s][f] = NoFollower]
          /\ follows' = [follows EXCEPT ![s] = IF @ = f THEN 0 ELSE @]
      BY <2>5 DEF FollowEnds, Becomes
    <3>2. ASSUME NEW p \in Sessions, NEW g \in Names, Counts(follower'[p][g]) PROVE follows'[p] = g
      <4>1. CASE p = s /\ g = f
        <5>1. follower'[p][g] = NoFollower
          BY <1>1, <3>1, <4>1
        <5> QED BY <3>2, <5>1 DEF NoFollower
      <4>2. CASE ~(p = s /\ g = f)
        <5>1. follower'[p][g] = follower[p][g]
          BY <1>1, <3>1, <4>2
        <5>2. follows[p] = g
          BY <3>2, <5>1 DEF OneRelay
        <5> QED BY <1>1, <3>1, <4>2, <5>2
      <4> QED BY <4>1, <4>2
    <3> QED BY <3>2 DEF OneRelay
  <2> QED BY <1>8, <2>2, <2>3, <2>4, <2>5 DEF FollowStep
<1>9. ASSUME NEW r \in Refreshes, Commit(r) PROVE OneRelay'
  <2> DEFINE new == {s \in refresh[r].found : refresh[r].sums[s] \in States /\ follows[s] = 0}
             gone == {s \in Sessions \ refresh[r].found : follows[s] # 0}
             opened == [NoFollower EXCEPT !.pc = "opening"]
             stopped(f) == [f EXCEPT !.cancelled = TRUE]
  <2>1. /\ follows' = [s \in Sessions |->
             IF s \in new THEN CHOOSE f \in Idle(s) : TRUE
             ELSE IF s \in gone THEN 0 ELSE follows[s]]
        /\ follower' = [s \in Sessions |-> [f \in Names |->
             IF s \in new /\ f = follows'[s] THEN opened
             ELSE IF s \in gone /\ f = follows[s] THEN stopped(follower[s][f])
             ELSE follower[s][f]]]
    BY <1>9 DEF Commit
  <2>2. \A s \in new : follows[s] = 0
    OBVIOUS
  <2>3. \A f \in FollowerType : ~Counts(stopped(f))
    BY DEF FollowerType
  <2> HIDE DEF new, gone, opened, stopped
  <2>4. ASSUME NEW s \in Sessions, NEW f \in Names, Counts(follower'[s][f]) PROVE follows'[s] = f
    <3>1. follower'[s][f] = IF s \in new /\ f = follows'[s] THEN opened
                            ELSE IF s \in gone /\ f = follows[s] THEN stopped(follower[s][f])
                            ELSE follower[s][f]
      BY <2>1
    <3>2. CASE s \in new /\ f = follows'[s]
      BY <3>2
    <3>3. CASE ~(s \in new /\ f = follows'[s]) /\ s \in gone /\ f = follows[s]
      <4>1. ~Counts(follower'[s][f])
        BY <1>1, <2>3, <3>1, <3>3
      <4> QED BY <2>4, <4>1
    <3>4. CASE ~(s \in new /\ f = follows'[s]) /\ ~(s \in gone /\ f = follows[s])
      <4>1. follows[s] = f
        BY <2>4, <3>1, <3>4 DEF OneRelay
      <4>2. s \notin new /\ s \notin gone
        BY <2>2, <3>4, <4>1 DEF Names
      <4> QED BY <2>1, <4>1, <4>2
    <3> QED BY <3>2, <3>3, <3>4
  <2> QED BY <2>4 DEF OneRelay
<1>10. ASSUME NEW r \in Refreshes, RefreshStep(r) PROVE OneRelay'
  BY <1>6, <1>9, <1>10 DEF RefreshStep, Scan, Summarize, Tell
<1>11. ASSUME PageStep \/ Break PROVE OneRelay'
  BY <1>6, <1>11 DEF PageStep, Connect, Deliver, ReadAnswer, Break
<1>12. ASSUME UNCHANGED hubVars PROVE OneRelay'
  BY <1>6, <1>12 DEF hubVars, relays
<1> QED BY <1>5, <1>7, <1>8, <1>10, <1>11, <1>12 DEF UiHubNext

\* Unless a refresh missed the session: one listed as ended is over; and of a
\* refresh at work, what it did not find or heard was over is over, and what it
\* heard was running is not listed as ended.
ListInv ==
  /\ \A r \in Refreshes :
       /\ refresh[r].pc # "idle" => turn = r
       /\ refresh[r].pc # "ask" => refresh[r].sums = NoList
  /\ \A s \in Sessions \ missed :
       /\ list[s] = "ended" => real[s] # "running"
       /\ \A r \in Refreshes : refresh[r].pc = "ask" =>
            /\ s \notin refresh[r].found \/ refresh[r].sums[s] = "ended" => real[s] # "running"
            /\ refresh[r].sums[s] = "running" => list[s] # "ended"

\* Refreshes have their turns, and sessions do not come back.
LEMMA ListInductive ==
  ASSUME UiHubTypeOK, ListInv, [UiHubNext]_hubVars
  PROVE  ListInv'
<1>1. /\ real \in [Sessions -> {"running", "ended", "gone"}]
      /\ missed \subseteq Sessions
      /\ refresh \in [Refreshes -> RefreshType]
      /\ list \in Lists
  BY DEF UiHubTypeOK, RefreshType
<1>2. ASSUME UNCHANGED <<turn, refresh, list>>, missed \subseteq missed',
             \A s \in Sessions : real'[s] = "running" => real[s] = "running"
      PROVE  ListInv'
  BY <1>2 DEF ListInv
<1>3. ASSUME NEW s \in Sessions, Updates(s) \/ Ends(s) \/ Leaves(s) \/ Age(s) PROVE ListInv'
  <2>1. \A p \in Sessions : real'[p] = "running" => real[p] = "running"
    BY <1>1, <1>3 DEF Updates, Ends, Leaves, Age, world
  <2> QED BY <1>2, <1>3, <2>1 DEF Updates, Ends, Leaves, Age, world
<1>4. ASSUME NEW s \in Sessions, NEW f \in Names, FollowStep(s, f) PROVE ListInv'
  BY <1>2, <1>4 DEF FollowStep, Opens, Relay, StreamEnds, FollowEnds, world
<1>5. ASSUME PageStep \/ Break PROVE ListInv'
  BY <1>2, <1>5 DEF PageStep, Connect, Deliver, ReadAnswer, Break, world
<1>6. ASSUME UNCHANGED hubVars PROVE ListInv'
  BY <1>2, <1>6 DEF hubVars
\* The refresh that has its turn moves; the other stays idle.
<1>7. ASSUME NEW r \in Refreshes, NEW to \in RefreshType, refresh' = [refresh EXCEPT ![r] = to],
             UNCHANGED real, missed \subseteq missed',
             turn \in {"none", r}, to.pc # "idle" => turn' = r,
             to.pc # "ask" => to.sums = NoList,
             \A s \in Sessions \ missed' :
               /\ list'[s] = "ended" => real[s] # "running"
               /\ to.pc = "ask" =>
                    /\ s \notin to.found \/ to.sums[s] = "ended" => real[s] # "running"
                    /\ to.sums[s] = "running" => list'[s] # "ended"
      PROVE  ListInv'
  <2>1. ASSUME NEW o \in Refreshes, o # r PROVE refresh'[o] = refresh[o] /\ refresh[o].pc = "idle"
    <3>1. refresh'[o] = refresh[o]
      BY <1>1, <1>7, <2>1
    <3>2. turn # o
      BY <1>7, <2>1 DEF Refreshes
    <3> QED BY <3>1, <3>2 DEF ListInv
  <2>2. refresh'[r] = to
    BY <1>1, <1>7
  <2>3. ASSUME NEW o \in Refreshes
        PROVE  /\ refresh'[o].pc # "idle" => turn' = o
               /\ refresh'[o].pc # "ask" => refresh'[o].sums = NoList
               /\ refresh'[o].pc = "ask" => o = r
    BY <1>7, <2>1, <2>2 DEF ListInv
  <2> QED BY <1>7, <2>2, <2>3 DEF ListInv
<1>8. ASSUME NEW r \in Refreshes, Scan(r) PROVE ListInv'
  <2>1. PICK slow \in SUBSET {s \in Sessions : Answers(s)} :
          /\ missed' = missed \union slow
          /\ refresh' = [refresh EXCEPT ![r].pc = "ask",
                           ![r].found = {s \in Sessions \ slow : Answers(s)}]
    BY <1>8 DEF Scan
  <2>2. turn = "none" /\ turn' = r /\ UNCHANGED <<real, list>> /\ refresh[r].pc = "idle"
    BY <1>8 DEF Scan
  <2> DEFINE found == {s \in Sessions \ slow : Answers(s)}
             to == [refresh[r] EXCEPT !.pc = "ask", !.found = found]
  <2>3. found \in SUBSET Sessions /\ \A s \in Sessions \ slow : s \notin found => real[s] # "running"
    BY DEF Answers
  <2>4. refresh' = [refresh EXCEPT ![r] = to]
    BY <2>1
  <2> HIDE DEF found
  <2>5. to \in RefreshType /\ to.pc = "ask" /\ to.found = found /\ to.sums = refresh[r].sums
    BY <1>1, <2>3 DEF RefreshType
  <2>6. refresh[r].sums = NoList
    BY <2>2 DEF ListInv
  <2> HIDE DEF to
  <2>7. \A s \in Sessions \ missed' :
          /\ s \notin to.found \/ to.sums[s] = "ended" => real[s] # "running"
          /\ to.sums[s] = "running" => list'[s] # "ended"
          /\ list'[s] = "ended" => real[s] # "running"
    BY <2>1, <2>2, <2>3, <2>5, <2>6 DEF NoList, ListInv
  <2> QED BY <1>7, <2>1, <2>2, <2>4, <2>5, <2>7
<1>9. ASSUME NEW r \in Refreshes, NEW s \in Sessions, Summarize(r, s) PROVE ListInv'
  <2>1. PICK sum \in States \union {"silent"} :
          /\ refresh' = [refresh EXCEPT ![r].sums[s] = sum]
          /\ sum \in States => sum = real[s]
    BY <1>1, <1>9 DEF Summarize, Answers, States
  <2>2. /\ refresh[r].pc = "ask" /\ s \in refresh[r].found /\ refresh[r].sums[s] = "none"
        /\ UNCHANGED <<real, turn, list>> /\ missed \subseteq missed'
    BY <1>9 DEF Summarize
  <2> DEFINE to == [refresh[r] EXCEPT !.sums[s] = sum]
  <2>3. refresh' = [refresh EXCEPT ![r] = to]
    BY <2>1
  <2>4. /\ to \in RefreshType /\ to.pc = "ask" /\ to.found = refresh[r].found
        /\ to.sums = [refresh[r].sums EXCEPT ![s] = sum]
        /\ refresh[r].sums \in [Sessions -> States \union {"none", "silent"}]
    BY <1>1, <2>2 DEF RefreshType
  <2> HIDE DEF to
  <2>5. turn = r
    BY <2>2 DEF ListInv
  <2>6. ASSUME NEW p \in Sessions \ missed'
        PROVE  /\ p \notin to.found \/ to.sums[p] = "ended" => real[p] # "running"
               /\ to.sums[p] = "running" => list'[p] # "ended"
               /\ list'[p] = "ended" => real[p] # "running"
    <3>1. /\ p \notin refresh[r].found \/ refresh[r].sums[p] = "ended" => real[p] # "running"
          /\ refresh[r].sums[p] = "running" => list[p] # "ended"
          /\ list[p] = "ended" => real[p] # "running"
      BY <2>2, <2>6 DEF ListInv
    <3>2. CASE p = s
      BY <2>1, <2>2, <2>4, <3>1, <3>2 DEF States
    <3>3. CASE p # s
      BY <2>2, <2>4, <3>1, <3>3
    <3> QED BY <3>2, <3>3
  <2> QED BY <1>7, <2>2, <2>3, <2>4, <2>5, <2>6
<1>10. ASSUME NEW r \in Refreshes, Commit(r) PROVE ListInv'
  <2> DEFINE changed == list' # list
             to == [NoRefresh EXCEPT !.pc = "tell", !.changed = changed]
  <2>1. /\ refresh[r].pc = "ask" /\ UNCHANGED <<real, missed, turn>>
        /\ \A s \in refresh[r].found : refresh[r].sums[s] # "none"
        /\ list' = [s \in Sessions |-> Listed(r, s)]
        /\ refresh' = [refresh EXCEPT ![r] = to]
    BY <1>10 DEF Commit, world
  <2>2. changed \in BOOLEAN
    OBVIOUS
  <2> HIDE DEF changed
  <2>3. to \in RefreshType /\ to.pc = "tell" /\ to.sums = NoList
    BY <2>2 DEF RefreshType, NoRefresh, NoList
  <2> HIDE DEF to
  <2>4. turn = r
    BY <2>1 DEF ListInv
  <2>5. ASSUME NEW s \in Sessions \ missed', list'[s] = "ended" PROVE real[s] # "running"
    <3>1. /\ s \notin refresh[r].found \/ refresh[r].sums[s] = "ended" => real[s] # "running"
          /\ list[s] = "ended" => real[s] # "running"
      BY <2>1, <2>5 DEF ListInv
    <3>2. Listed(r, s) = "ended"
      BY <2>1, <2>5
    <3>3. \/ refresh[r].sums[s] = "ended"
          \/ list[s] = "ended"
          \/ refresh[r].sums[s] \notin States \union {"silent"}
      BY <3>2 DEF Listed, States
    <3>4. refresh[r].sums[s] \in States \union {"silent", "none"}
      BY <1>1 DEF RefreshType
    <3>5. refresh[r].sums[s] = "none" => s \notin refresh[r].found
      BY <2>1
    <3> QED BY <3>1, <3>3, <3>4, <3>5
  <2> QED BY <1>7, <2>1, <2>3, <2>4, <2>5
<1>11. ASSUME NEW r \in Refreshes, Tell(r) PROVE ListInv'
  <2>1. /\ refresh[r].pc = "tell" /\ UNCHANGED <<real, missed, list>>
        /\ refresh' = [refresh EXCEPT ![r] = NoRefresh]
    BY <1>11 DEF Tell, world
  <2>2. NoRefresh \in RefreshType /\ NoRefresh.pc = "idle" /\ NoRefresh.sums = NoList
    BY DEF RefreshType, NoRefresh, NoList
  <2>3. turn = r
    BY <2>1 DEF ListInv
  <2>4. \A s \in Sessions \ missed' : list'[s] = "ended" => real[s] # "running"
    BY <2>1 DEF ListInv
  <2> HIDE DEF NoRefresh
  <2> QED BY <1>7, <2>1, <2>2, <2>3, <2>4
<1>12. ASSUME NEW r \in Refreshes, RefreshStep(r) PROVE ListInv'
  BY <1>8, <1>9, <1>10, <1>11, <1>12 DEF RefreshStep
<1> QED BY <1>3, <1>4, <1>5, <1>6, <1>12 DEF UiHubNext

\* The hub starts with nothing listed and nobody followed.
LEMMA HubStarts == UiHubInit => UiHubTypeOK /\ OneRelay /\ ListInv
<1> SUFFICES ASSUME UiHubInit PROVE UiHubTypeOK /\ OneRelay /\ ListInv
  OBVIOUS
<1> USE UiHubAssumption DEF UiHubInit
<1>1. UiHubTypeOK
  <2>1. NoFollower \in FollowerType /\ NoList \in Lists
    <3>1. <<>> \in Seq(States)
      BY EmptySeq
    <3> QED BY <3>1, ListTypes DEF NoFollower, FollowerType
  <2>2. NoRefresh \in RefreshType
    BY DEF NoRefresh, RefreshType, NoList
  <2>3. page \in PageType /\ Len(page.queue) <= QueueCap
    <3>1. <<>> \in Seq(Events) /\ Len(<<>>) = 0
      BY EmptySeq
    <3>2. NoPage \in PageType /\ NoPage.queue = <<>>
      BY <2>1, <3>1 DEF NoPage, PageType
    <3>3. [NoPage EXCEPT !.get = "read"] \in PageType /\ [NoPage EXCEPT !.get = "read"].queue = <<>>
      BY <3>2 DEF PageType
    <3>4. page \in {[NoPage EXCEPT !.get = "read"], NoPage}
      OBVIOUS
    <3>5. page \in PageType /\ page.queue = <<>>
      BY <3>2, <3>3, <3>4
    <3> QED BY <3>1, <3>5 DEF UiHubAssumption
  <2>4. /\ follower \in [Sessions -> [Names -> FollowerType]]
        /\ refresh \in [Refreshes -> RefreshType]
    BY <2>1, <2>2
  <2> QED BY <2>1, <2>3, <2>4 DEF UiHubTypeOK, FollowerType, RefreshType, PageType
<1>2. OneRelay
  BY DEF OneRelay, NoFollower
<1>3. ListInv
  BY DEF ListInv, NoRefresh, NoList
<1> QED BY <1>1, <1>2, <1>3

\* The hub keeps its types, for any sessions, room and number of troubles: no
\* queue is longer than its room, and what the page shows is a list of sessions.
THEOREM HubTypeCorrect == UiHubSpec => []UiHubTypeOK
<1>1. UiHubInit => UiHubTypeOK
  BY HubStarts
<1> QED BY <1>1, HubTypeInductive, PTL DEF UiHubSpec

\* One stream of a session is relayed at a time, so a page hears nothing twice.
THEOREM SpecOneRelay == UiHubSpec => []OneRelay
<1>1. UiHubInit => OneRelay
  BY HubStarts
<1> QED BY <1>1, HubTypeCorrect, OneRelayInductive, PTL DEF UiHubSpec

\* No refresh brings a session that is over back to the list as running, unless
\* one had failed to reach it.
THEOREM SpecListGoesForward == UiHubSpec => ListGoesForward
<1> DEFINE Forward == \A s \in Sessions : list[s] = "ended" /\ real[s] # "running" /\ s \notin missed
                        => list'[s] # "running"
<1>1. UiHubInit => ListInv
  BY HubStarts
<1>2. UiHubTypeOK /\ ListInv /\ [UiHubNext]_hubVars => ListInv'
  BY ListInductive
<1>3. UiHubTypeOK /\ ListInv /\ [UiHubNext]_hubVars => [Forward]_hubVars
  <2> SUFFICES ASSUME UiHubTypeOK, ListInv, UiHubNext, NEW s \in Sessions,
                      list[s] = "ended", s \notin missed
               PROVE  list'[s] # "running"
    OBVIOUS
  <2>1. ASSUME NEW r \in Refreshes, Commit(r) PROVE list'[s] # "running"
    <3>1. list'[s] = Listed(r, s) /\ refresh[r].pc = "ask"
      BY <2>1 DEF Commit
    <3>2. refresh[r].sums[s] # "running"
      BY <3>1 DEF ListInv
    <3> QED BY <3>1, <3>2 DEF Listed, States
  <2>2. UNCHANGED list \/ \E r \in Refreshes : Commit(r)
    BY DEF UiHubNext, Updates, Ends, Leaves, Age, FollowStep, Opens, Relay, StreamEnds, FollowEnds,
           RefreshStep, Scan, Summarize, Tell, PageStep, Connect, Deliver, ReadAnswer, Break
  <2> QED BY <2>1, <2>2
<1> QED BY <1>1, <1>2, <1>3, HubTypeCorrect, PTL DEF UiHubSpec, ListGoesForward
=============================================================================
