------------------------- MODULE StSourcePoolProofs -------------------------
(***************************************************************************)
(* Proofs about StSourcePool for every number of programs, every set of    *)
(* texts and every pool size: the variables keep their types, segments     *)
(* never overlap, every segment always holds one whole text, and the pool  *)
(* does step by step what StSourceStore promises.                          *)
(*                                                                         *)
(* The invariant that carries them describes the compaction half way: the  *)
(* segments already moved lie below the segments still to be moved, with   *)
(* exactly the freed space between them, so the next memmove writes only   *)
(* into that space and into the segment it reads.  The refinement needs    *)
(* also that the segments leave no gaps (Packed): then the end of the last *)
(* one, which the pool compares with its size, is the sum of the sizes,    *)
(* which the store does.                                                   *)
(***************************************************************************)
EXTENDS StSourcePool, FiniteSetTheorems, WellFoundedInduction, TLAPS

\* Segments lie inside the pool.
Inside == \A p \in Programs : Allocated(p) => len[p] >= 1 /\ End(p) <= PoolSize

\* Segments on both sides of the freed one, f its offset and n its size.
LowEnd == job.pc = "move" => \A q \in Programs :
            /\ q # job.p /\ q \notin job.moved
            /\ Allocated(q) /\ off[q] <= off[job.p]
            => End(q) <= off[job.p]
HighStart == job.pc = "move" => \A q \in Behind : End(job.p) <= off[q]
MovedLow == job.pc = "move" => \A m \in job.moved :
              /\ Allocated(m)
              /\ off[job.p] <= off[m]
              /\ \A q \in Behind : End(m) <= off[q] - len[job.p]

\* The call in progress: what is freed was allocated, what is placed is not.
JobOK == /\ job.pc = "move" => Allocated(job.p) /\ job.p \notin job.moved
         /\ job.pc = "place" => ~Allocated(job.p)
         /\ job.pc # "idle" /\ job.t # NoText => SizeOf[job.t] <= PoolSize

IInv == /\ TypeOK /\ Inside /\ Disjoint /\ PoolIntact
        /\ LowEnd /\ HighStart /\ MovedLow /\ JobOK

LEMMA PoolFacts ==
  /\ Programs \subseteq Nat /\ NoText \notin Texts
  /\ SizeOf \in [Texts -> Nat \ {0}] /\ PoolSize \in Nat
BY PoolAssumption, FS_CardinalityType

\* At first nothing is allocated.
LEMMA InitIInv == Init => IInv
BY PoolFacts DEF Init, IInv, TypeOK, Inside, Disjoint, PoolIntact, LowEnd,
   HighStart, MovedLow, JobOK, Idle, Jobs, Bytes, None, Allocated, Behind

-----------------------------------------------------------------------------
\* A call's first step.
LEMMA StartStep == ASSUME IInv, job = Idle, NEW p \in Programs,
                          NEW t \in Texts \cup {NoText},
                          t # NoText => SizeOf[t] <= PoolSize,
                          Start(p, t), UNCHANGED <<cells, off, len>>
                   PROVE  IInv'
<1> USE PoolFacts DEF IInv
<1>1. job' = [pc |-> IF Allocated(p) THEN "move" ELSE "place",
              p |-> p, t |-> t, moved |-> {}]
  BY DEF Start
<1>2. job'.pc \in {"move", "place"} /\ job'.p = p /\ job'.t = t /\ job'.moved = {}
  BY <1>1
<1>3. job' \in Jobs
  BY <1>1 DEF Jobs
<1>4. TypeOK'
  BY <1>3 DEF TypeOK
<1>5. Inside'
  BY DEF Inside, Allocated, End
<1>6. \A q, r \in Programs : q # r /\ Allocated(q) /\ Allocated(r)
        => End(q) <= off[r] \/ End(r) <= off[q]
  BY DEF Disjoint, Freeing, Idle
<1>7. Disjoint'
  BY <1>6 DEF Disjoint, Allocated, End
<1>8. PoolIntact'
  BY DEF PoolIntact, Freeing, Idle, Holds, Allocated
<1>9. \A q \in Programs : Allocated(q) =>
        /\ off[q] \in Nat /\ len[q] \in Nat /\ len[q] >= 1
        /\ End(q) = off[q] + len[q]
  BY DEF Inside, TypeOK, Allocated, None, End
<1>10. LowEnd'
  BY <1>1, <1>2, <1>6, <1>9 DEF LowEnd, Allocated, End
<1>11. HighStart'
  BY <1>1, <1>2, <1>6, <1>9 DEF HighStart, Behind, Allocated, End
<1>12. MovedLow'
  BY <1>2 DEF MovedLow
<1>13. JobOK'
  BY <1>1, <1>2 DEF JobOK, Allocated
<1> QED BY <1>4, <1>5, <1>7, <1>8, <1>10, <1>11, <1>12, <1>13

-----------------------------------------------------------------------------
\* The old segment is given up once nothing lies behind it any more.
LEMMA FreedStep == IInv /\ Freed => IInv'
<1> SUFFICES ASSUME IInv, Freed PROVE IInv'
  OBVIOUS
<1> USE PoolFacts DEF IInv
<1>1. /\ job \in Jobs /\ job.pc = "move" /\ job.p \in Programs
      /\ job.t \in Texts \cup {NoText} /\ job.moved \in SUBSET Programs
  BY DEF TypeOK, Jobs, Freed, Idle
<1>2. /\ job' = [job EXCEPT !.pc = "place"]
      /\ off' = [off EXCEPT ![job.p] = None]
      /\ len' = [len EXCEPT ![job.p] = 0]
      /\ cells' = cells
  BY DEF Freed
<1>3. job' \in Jobs /\ job'.pc = "place" /\ job'.p = job.p /\ job'.t = job.t
  BY <1>1, <1>2 DEF Jobs, Idle
<1>4. \A q \in Programs : q # job.p => off'[q] = off[q] /\ len'[q] = len[q]
  BY <1>1, <1>2 DEF TypeOK
<1>5. off'[job.p] = None
  BY <1>1, <1>2 DEF TypeOK
<1>6. TypeOK'
  <2>1. off' \in [Programs -> {None} \cup 0 .. PoolSize - 1]
    BY <1>1, <1>2 DEF TypeOK
  <2>2. len' \in [Programs -> 0 .. PoolSize]
    BY <1>1, <1>2 DEF TypeOK
  <2> QED BY <1>2, <1>3, <2>1, <2>2 DEF TypeOK
<1>7. Inside'
  BY <1>4, <1>5 DEF Inside, Allocated, End
<1>8. Disjoint'
  BY <1>3, <1>4, <1>5 DEF Disjoint, Allocated, End, Freeing
<1>9. PoolIntact'
  BY <1>2, <1>4, <1>5 DEF PoolIntact, Allocated, Freeing, Holds
<1>10. LowEnd' /\ HighStart' /\ MovedLow'
  BY <1>3 DEF LowEnd, HighStart, MovedLow
<1>11. JobOK'
  BY <1>1, <1>3, <1>5 DEF JobOK, Allocated
<1> QED BY <1>6, <1>7, <1>8, <1>9, <1>10, <1>11

-----------------------------------------------------------------------------
\* The new text is written behind every segment there is.
LEMMA PlaceStep ==
  ASSUME IInv, Place, NEW p, p = job.p, NEW t, t = job.t
  PROVE  /\ IInv'
         /\ Allocated(p)' /\ Holds(p, t)'
         /\ \A q \in Programs \ {job.p} : /\ Allocated(q)' <=> Allocated(q)
                                          /\ \A x \in Texts : Allocated(q) /\ Holds(q, x) => Holds(q, x)'
<1> USE PoolFacts DEF IInv
<1>1. PICK u \in Ends :
        /\ IsUsed(u) /\ Fits(u)
        /\ off' = [off EXCEPT ![job.p] = u]
        /\ len' = [len EXCEPT ![job.p] = SizeOf[job.t]]
        /\ cells' = [i \in 0 .. PoolSize - 1 |->
                       IF u <= i /\ i < u + SizeOf[job.t]
                       THEN <<job.t, (i - u) + 1>> ELSE cells[i]]
  BY DEF Place
<1>2. /\ job.pc = "place" /\ job.p \in Programs /\ job.t \in Texts
      /\ SizeOf[job.t] \in Nat /\ SizeOf[job.t] >= 1 /\ job' = Idle
      /\ ~Allocated(job.p)
  BY DEF TypeOK, Jobs, Place, Idle, JobOK
<1>3. \A q \in Programs : Allocated(q) =>
        /\ off[q] \in Nat /\ len[q] \in Nat /\ len[q] >= 1
        /\ End(q) = off[q] + len[q] /\ End(q) <= PoolSize
  BY DEF Inside, TypeOK, Allocated, None, End
<1>4. u \in Nat /\ \A q \in Programs : Allocated(q) => End(q) <= u
  BY <1>1, <1>3 DEF IsUsed, Ends
<1>5. u + SizeOf[job.t] <= PoolSize
  BY <1>1 DEF Fits
<1>6. off'[job.p] = u /\ len'[job.p] = SizeOf[job.t]
  BY <1>1, <1>2 DEF TypeOK
<1>7. \A q \in Programs : q # job.p => off'[q] = off[q] /\ len'[q] = len[q]
  BY <1>1, <1>2 DEF TypeOK
<1>8. TypeOK'
  <2>1. off' \in [Programs -> {None} \cup 0 .. PoolSize - 1]
    BY <1>1, <1>2, <1>4, <1>5 DEF TypeOK
  <2>2. len' \in [Programs -> 0 .. PoolSize]
    BY <1>1, <1>2, <1>4, <1>5 DEF TypeOK
  <2>3. \A i \in 0 .. PoolSize - 1 : u <= i /\ i < u + SizeOf[job.t]
          => (i - u) + 1 \in 1 .. PoolSize
    BY <1>2, <1>4, <1>5
  <2>4. cells' \in [0 .. PoolSize - 1 -> Bytes]
    BY <1>1, <1>2, <2>3 DEF TypeOK, Bytes
  <2> QED BY <1>2, <2>1, <2>2, <2>4 DEF TypeOK, Jobs
<1>9. Inside'
  BY <1>2, <1>4, <1>5, <1>6, <1>7 DEF Inside, Allocated, End
<1>10. Disjoint'
  BY <1>2, <1>3, <1>4, <1>6, <1>7 DEF Disjoint, Allocated, End, Freeing
<1>11. Allocated(p)' /\ Holds(p, t)'
  <2>1. \A i \in 1 .. SizeOf[job.t] : cells'[(u + i) - 1] = <<job.t, i>>
    BY <1>1, <1>2, <1>4, <1>5
  <2>2. u # None
    BY <1>4 DEF None
  <2> QED BY <1>2, <1>6, <2>1, <2>2 DEF Holds, Allocated
<1>12. ASSUME NEW q \in Programs \ {job.p}
       PROVE  /\ Allocated(q)' <=> Allocated(q)
              /\ \A x \in Texts : Allocated(q) /\ Holds(q, x) => Holds(q, x)'
  <2>1. Allocated(q)' <=> Allocated(q)
    BY <1>7 DEF Allocated
  <2>2. ASSUME Allocated(q), NEW x \in Texts, Holds(q, x)  PROVE Holds(q, x)'
    <3>1. \A i \in 1 .. len[q] : cells'[(off[q] + i) - 1] = cells[(off[q] + i) - 1]
      <4>1. off[q] \in Nat /\ len[q] \in Nat /\ off[q] + len[q] <= u /\ u <= PoolSize
        BY <1>2, <1>3, <1>4, <1>5, <2>2
      <4>2. \A i \in 1 .. len[q] : /\ (off[q] + i) - 1 \in 0 .. PoolSize - 1
                                   /\ ~(u <= (off[q] + i) - 1)
        BY <1>4, <4>1
      <4> QED BY <1>1, <4>2
    <3> QED BY <1>7, <2>2, <3>1 DEF Holds
  <2> QED BY <2>1, <2>2
<1>13. PoolIntact'
  <2> SUFFICES ASSUME NEW q \in Programs, Allocated(q)'
               PROVE  \E x \in Texts : Holds(q, x)'
    BY DEF PoolIntact
  <2>1. CASE q = job.p
    BY <1>2, <1>11, <2>1
  <2>2. CASE q # job.p
    <3>1. Allocated(q) /\ ~Freeing(q)
      BY <1>2, <1>12, <2>2 DEF Freeing
    <3>2. PICK x \in Texts : Holds(q, x)
      BY <3>1 DEF PoolIntact
    <3> QED BY <1>12, <2>2, <3>1, <3>2
  <2> QED BY <2>1, <2>2
<1>14. LowEnd' /\ HighStart' /\ MovedLow' /\ JobOK'
  BY <1>2 DEF LowEnd, HighStart, MovedLow, JobOK, Idle
<1> QED BY <1>8, <1>9, <1>10, <1>11, <1>12, <1>13, <1>14

-----------------------------------------------------------------------------
\* A memmove of the lowest segment behind the freed one.
LEMMA MoveStep ==
  ASSUME IInv, NEW r \in Programs, MoveDown(r)
  PROVE  /\ IInv'
         /\ \A q \in Programs : /\ Allocated(q)' <=> Allocated(q)
                               /\ \A t \in Texts : q # job.p /\ Allocated(q) /\ Holds(q, t)
                                                  => Holds(q, t)'
<1> USE PoolFacts DEF IInv
<1> DEFINE p == job.p
           n == len[p]
           to == off[r] - n
<1>1. /\ job \in Jobs /\ job.pc = "move" /\ p \in Programs
      /\ job.t \in Texts \cup {NoText} /\ job.moved \in SUBSET Programs
      /\ Allocated(p) /\ p \notin job.moved
  BY DEF TypeOK, Jobs, MoveDown, Idle, JobOK
<1>2. r \in Behind /\ \A q \in Behind : off[r] <= off[q]
  BY DEF MoveDown, IsNext
<1>3. r # p /\ r \notin job.moved /\ Allocated(r) /\ off[r] > off[p]
  BY <1>2 DEF Behind
<1>4. /\ cells' = Moved(off[r], to, len[r])
      /\ off' = [off EXCEPT ![r] = to]
      /\ job' = [job EXCEPT !.moved = @ \cup {r}]
      /\ len' = len
  BY DEF MoveDown
<1>5. \A q \in Programs : Allocated(q) =>
        /\ off[q] \in Nat /\ len[q] \in Nat /\ len[q] >= 1
        /\ End(q) = off[q] + len[q] /\ End(q) <= PoolSize
  BY DEF Inside, TypeOK, Allocated, None, End
<1>6. /\ to \in Nat /\ off[p] <= to /\ n \in Nat /\ n >= 1
      /\ to + n = off[r] /\ to + len[r] <= PoolSize
  BY <1>1, <1>2, <1>3, <1>5 DEF HighStart
<1>7. off'[r] = to /\ \A q \in Programs : q # r => off'[q] = off[q]
  BY <1>4 DEF TypeOK
<1>8. /\ job' \in Jobs /\ job'.pc = "move" /\ job'.p = p /\ job'.t = job.t
      /\ job'.moved = job.moved \cup {r}
  BY <1>1, <1>4 DEF Jobs, Idle
<1>9. \A q \in Programs : Allocated(q)' <=> Allocated(q)
  BY <1>3, <1>6, <1>7 DEF Allocated, None
<1>10. Behind' = Behind \ {r}
  BY <1>7, <1>8, <1>9, <1>1, <1>3 DEF Behind
<1>11. \* Every other segment lies below the target or above the source.
       \A q \in Programs : q # r /\ q # p /\ Allocated(q)
         => End(q) <= to \/ End(r) <= off[q]
  <2> SUFFICES ASSUME NEW q \in Programs, q # r, q # p, Allocated(q)
               PROVE  End(q) <= to \/ End(r) <= off[q]
    OBVIOUS
  <2>1. CASE q \in job.moved
    <3>1. End(q) <= off[r] - len[job.p]
      BY <1>1, <1>2, <2>1 DEF MovedLow
    <3> QED BY <3>1
  <2>2. CASE q \in Behind
    <3>1. End(q) <= off[r] \/ End(r) <= off[q]
      BY <1>3 DEF Disjoint, Freeing
    <3> QED BY <1>2, <1>5, <2>2, <3>1, <1>3
  <2>3. CASE q \notin job.moved /\ q \notin Behind
    <3>0. ~(off[q] > off[job.p])
      BY <2>3 DEF Behind
    <3>1. off[q] \in Nat /\ off[job.p] \in Nat
      BY <1>1, <1>5
    <3>2. End(q) <= off[job.p]
      BY <1>1, <2>3, <3>0, <3>1 DEF LowEnd
    <3>3. End(q) \in Nat
      BY <1>5
    <3> QED BY <1>6, <3>1, <3>2, <3>3
  <2> QED BY <2>1, <2>2, <2>3
<1>12. TypeOK'
  <2>1. off' \in [Programs -> {None} \cup 0 .. PoolSize - 1]
    BY <1>3, <1>4, <1>5, <1>6 DEF TypeOK
  <2>2. \A i \in 0 .. PoolSize - 1 : to <= i /\ i < to + len[r]
          => i + (off[r] - to) \in 0 .. PoolSize - 1
    BY <1>3, <1>5, <1>6
  <2>3. cells' \in [0 .. PoolSize - 1 -> Bytes]
    BY <1>4, <2>2 DEF TypeOK, Moved
  <2> QED BY <1>4, <1>8, <2>1, <2>3 DEF TypeOK
<1>13. Inside'
  BY <1>4, <1>5, <1>6, <1>7, <1>9 DEF Inside, End
<1>14. Disjoint'
  <2> SUFFICES ASSUME NEW q \in Programs, q # r, q # p, Allocated(q)
               PROVE  (End(q) <= off[r] \/ End(r) <= off[q])'
    BY <1>4, <1>7, <1>8, <1>9 DEF Disjoint, Freeing, End
  <2> QED BY <1>3, <1>4, <1>5, <1>6, <1>7, <1>11 DEF End
<1>20. ASSUME NEW q \in Programs, q # p, Allocated(q), NEW t \in Texts, Holds(q, t)
       PROVE  Holds(q, t)'
  <2>1. Holds(q, t)
    BY <1>20
  <2>2. CASE q = r
    <3>1. \A i \in 1 .. len[r] : cells'[(to + i) - 1] = cells[(off[r] + i) - 1]
      <4>1. \A i \in 1 .. len[r] :
              /\ (to + i) - 1 \in 0 .. PoolSize - 1
              /\ to <= (to + i) - 1 /\ (to + i) - 1 < to + len[r]
              /\ ((to + i) - 1) + (off[r] - to) = (off[r] + i) - 1
        BY <1>3, <1>5, <1>6
      <4> QED BY <1>4, <4>1 DEF Moved
    <3> QED BY <1>4, <1>7, <2>1, <2>2, <3>1 DEF Holds
  <2>3. CASE q # r
    <3>1. \A i \in 1 .. len[q] : cells'[(off[q] + i) - 1] = cells[(off[q] + i) - 1]
      <4>1. off[q] + len[q] <= to \/ off[r] + len[r] <= off[q]
        BY <1>3, <1>5, <1>11, <1>20, <2>3
      <4>0. /\ off[q] \in Nat /\ len[q] \in Nat /\ off[q] + len[q] <= PoolSize
            /\ len[r] \in Nat /\ off[r] \in Nat /\ to <= off[r]
        BY <1>3, <1>5, <1>6, <1>20
      <4>2. \A i \in 1 .. len[q] :
              /\ (off[q] + i) - 1 \in 0 .. PoolSize - 1
              /\ ~(to <= (off[q] + i) - 1 /\ (off[q] + i) - 1 < to + len[r])
        BY <1>6, <4>0, <4>1
      <4> QED BY <1>4, <4>2 DEF Moved
    <3> QED BY <1>4, <1>7, <2>1, <2>3, <3>1 DEF Holds
  <2> QED BY <2>2, <2>3
<1>15. PoolIntact'
  <2> SUFFICES ASSUME NEW q \in Programs, q # p, Allocated(q)
               PROVE  \E t \in Texts : Holds(q, t)'
    BY <1>8, <1>9 DEF PoolIntact, Freeing
  <2>1. PICK t \in Texts : Holds(q, t)
    BY DEF PoolIntact, Freeing
  <2> QED BY <1>20, <2>1
<1>16. LowEnd'
  BY <1>1, <1>3, <1>4, <1>6, <1>7, <1>8, <1>9 DEF LowEnd, End
<1>17. HighStart'
  BY <1>1, <1>3, <1>4, <1>7, <1>8, <1>10 DEF HighStart, End, Behind
<1>18. MovedLow'
  <2> SUFFICES ASSUME NEW m \in job.moved \cup {r}
               PROVE  /\ Allocated(m)'
                      /\ off'[p] <= off'[m]
                      /\ \A q \in Behind \ {r} : End(m)' <= off'[q] - n
    BY <1>4, <1>8, <1>10 DEF MovedLow
  <2>1. CASE m = r
    <3>1. \A q \in Behind \ {r} : End(r) <= off[q]
      <4> SUFFICES ASSUME NEW q \in Behind, q # r PROVE End(r) <= off[q]
        OBVIOUS
      <4>1. q \in Programs /\ q # p /\ Allocated(q) /\ off[r] <= off[q]
        BY <1>2 DEF Behind
      <4>2. End(q) <= off[r] \/ End(r) <= off[q]
        BY <1>3, <4>1 DEF Disjoint, Freeing
      <4> QED BY <1>3, <1>5, <4>1, <4>2
    <3> QED BY <1>3, <1>4, <1>5, <1>6, <1>7, <1>9, <2>1, <3>1 DEF End, Behind
  <2>2. CASE m # r
    BY <1>1, <1>3, <1>4, <1>7, <1>9, <2>2 DEF MovedLow, End, Behind
  <2> QED BY <2>1, <2>2
<1>19. JobOK'
  BY <1>1, <1>3, <1>8, <1>9 DEF JobOK
<1> QED BY <1>9, <1>12, <1>13, <1>14, <1>15, <1>16, <1>17, <1>18, <1>19, <1>20

-----------------------------------------------------------------------------
LEMMA StepIInv == IInv /\ [Next]_vars => IInv'
<1> SUFFICES ASSUME IInv, [Next]_vars PROVE IInv'
  OBVIOUS
<1>1. ASSUME NEW p \in Programs, NEW t \in Texts, Upload(p, t) PROVE IInv'
  BY <1>1, StartStep, PoolFacts DEF Upload
<1>2. ASSUME NEW p \in Programs, Delete(p) PROVE IInv'
  BY <1>2, StartStep DEF Delete
<1>3. ASSUME NEW q \in Programs, MoveDown(q) PROVE IInv'
  BY <1>3, MoveStep
<1>4. CASE Freed
  BY <1>4, FreedStep
<1>5. CASE Place
  BY <1>5, PlaceStep
<1>6. CASE Refuse \/ Deleted
  <2>1. UNCHANGED <<cells, off, len>> /\ job' = Idle /\ job.pc = "place"
    BY <1>6 DEF Refuse, Deleted
  <2>2. TypeOK' /\ Inside' /\ JobOK' /\ LowEnd' /\ HighStart' /\ MovedLow'
    BY <2>1 DEF IInv, TypeOK, Jobs, Inside, Allocated, End, JobOK, LowEnd,
       HighStart, MovedLow, Idle
  <2>3. Disjoint' /\ PoolIntact'
    BY <2>1 DEF IInv, Disjoint, PoolIntact, Allocated, End, Freeing, Holds
  <2> QED BY <2>2, <2>3 DEF IInv
<1>7. CASE UNCHANGED vars
  <2>1. TypeOK' /\ Inside' /\ JobOK' /\ LowEnd' /\ HighStart' /\ MovedLow'
    BY <1>7 DEF vars, IInv, TypeOK, Inside, Allocated, End, JobOK, LowEnd,
       HighStart, MovedLow, Behind
  <2>2. Disjoint' /\ PoolIntact'
    BY <1>7 DEF vars, IInv, Disjoint, PoolIntact, Allocated, End, Freeing, Holds
  <2> QED BY <2>1, <2>2 DEF IInv
<1> QED BY <1>1, <1>2, <1>3, <1>4, <1>5, <1>6, <1>7 DEF Next, Step

\* What the layout and the job in progress always are.
THEOREM Inductive == Spec => []IInv
BY InitIInv, StepIInv, PTL DEF Spec

\* The state always has its type.
THEOREM TypeCorrect == Spec => []TypeOK
<1>1. IInv => TypeOK
  BY DEF IInv
<1> QED BY <1>1, Inductive, PTL

\* No memmove of the compaction ever damages a text: whatever the order in
\* which texts were stored, replaced and deleted, every allocated segment holds
\* one whole text (st_logic_pool_free).
THEOREM TextsStayIntact == Spec => []PoolIntact
<1>1. IInv => PoolIntact
  BY DEF IInv
<1> QED BY <1>1, Inductive, PTL

\* No two programs ever share a byte of the pool.
THEOREM SegmentsDisjoint == Spec => []Disjoint
<1>1. IInv => Disjoint
  BY DEF IInv
<1> QED BY <1>1, Inductive, PTL

-----------------------------------------------------------------------------
(***************************************************************************)
(* The pool is a store.  Its texts lie without gaps: every byte in front   *)
(* of a segment is in some segment.  While a segment is freed that is so   *)
(* of the layout before: what has been moved was behind by the size of the *)
(* freed segment.                                                          *)
(***************************************************************************)
Before(q) == IF job.pc = "move" /\ q \in job.moved THEN off[q] + len[job.p] ELSE off[q]
Covers(q, i) == Allocated(q) /\ Before(q) <= i /\ i < Before(q) + len[q]
Packed == \A q \in Programs : Allocated(q) => \A i \in 0 .. Before(q) - 1 : \E r \in Programs : Covers(r, i)

LEMMA Segments ==
  ASSUME IInv
  PROVE  /\ \A q \in Programs : Allocated(q) =>
              /\ off[q] \in Nat /\ len[q] \in Nat /\ len[q] >= 1
              /\ End(q) = off[q] + len[q] /\ End(q) <= PoolSize
         /\ job.pc # "idle" => job.p \in Programs /\ job.t \in Texts \cup {NoText}
         /\ job.pc = "move" => job.moved \in SUBSET Programs /\ job.p \notin job.moved /\ Allocated(job.p)
         /\ job \in Jobs
BY DEF IInv, Inside, TypeOK, Allocated, None, End, Jobs, Idle, JobOK

LEMMA PackedStart ==
  ASSUME IInv, Packed, job = Idle, NEW p, NEW t, Start(p, t), UNCHANGED <<cells, off, len>>
  PROVE  Packed'
<1>1. \A q : Before(q) = off[q]
  BY DEF Before, Idle
<1>2. job'.moved = {} /\ \A q : Before(q)' = off[q]
  BY DEF Start, Before
<1>. QED
  BY <1>1, <1>2 DEF Packed, Covers, Allocated

\* A memmove changes nothing of the layout before.
LEMMA PackedMove ==
  ASSUME IInv, Packed, NEW q \in Programs, MoveDown(q)
  PROVE  Packed'
<1>. DEFINE n == len[job.p]
<1>1. /\ job.pc = "move" /\ job.p \in Programs /\ job.moved \in SUBSET Programs
      /\ Allocated(q) /\ q \notin job.moved /\ q # job.p
      /\ job' = [job EXCEPT !.moved = job.moved \cup {q}]
      /\ off' = [off EXCEPT ![q] = off[q] - n] /\ len' = len /\ off[q] > off[job.p] /\ q \in Behind
  BY Segments DEF MoveDown, IsNext, Behind
<1>2. job'.pc = "move" /\ job'.p = job.p /\ job'.moved = job.moved \cup {q}
  BY <1>1, Segments DEF Jobs, Idle
<1>3. off'[q] = off[q] - n /\ \A r \in Programs \ {q} : off'[r] = off[r]
  BY <1>1 DEF IInv, TypeOK
<1>4. off[q] \in Nat /\ n \in Nat
  BY <1>1, Segments
<1>5. \A r \in Programs : Before(r)' = Before(r)
  <2>. TAKE r \in Programs
  <2>1. CASE r = q
    <3>1. Before(r)' = off'[q] + n /\ Before(r) = off[q]
      BY <1>1, <1>2, <2>1 DEF Before
    <3>. QED
      BY <1>3, <1>4, <3>1
  <2>2. CASE r # q
    BY <1>1, <1>2, <1>3, <2>2 DEF Before
  <2>. QED
    BY <2>1, <2>2
<1>6. \A r \in Programs : Allocated(r)' <=> Allocated(r)
  BY MoveStep
<1>7. \A r \in Programs : \A i : Covers(r, i)' <=> Covers(r, i)
  BY <1>1, <1>5, <1>6 DEF Covers
<1>. QED
  BY <1>5, <1>6, <1>7 DEF Packed

\* When nothing is left to be moved the hole is behind all segments.
LEMMA PackedFreed ==
  ASSUME IInv, Packed, Freed
  PROVE  Packed'
<1>. PICK p : p = job.p
  OBVIOUS
<1>. DEFINE f == off[p]
            n == len[p]
<1>1. /\ job.pc = "move" /\ p \in Programs /\ job.moved \in SUBSET Programs /\ p \notin job.moved
      /\ Allocated(p) /\ Behind = {}
      /\ off' = [off EXCEPT ![p] = None] /\ len' = [len EXCEPT ![p] = 0] /\ job'.pc = "place"
  BY Segments DEF Freed, Jobs, Idle
<1>2. /\ off'[p] = None
      /\ \A q \in Programs \ {p} : off'[q] = off[q] /\ len'[q] = len[q]
      /\ \A q \in Programs : Before(q)' = off'[q]
  BY <1>1 DEF IInv, TypeOK, Before
<1>3. \A q \in Programs \ {p} : Allocated(q)' <=> Allocated(q)
  BY <1>2 DEF Allocated
<1>4. ~Allocated(p)'
  BY <1>2 DEF Allocated
<1>5. f \in Nat /\ n \in Nat /\ Before(p) = f
  BY <1>1, Segments DEF Before
<1>6. ASSUME NEW q \in Programs \ {p}, Allocated(q)
      PROVE  /\ off[q] \in Nat /\ len[q] \in Nat
             /\ q \in job.moved => Before(q) = off[q] + n /\ f <= off[q]
             /\ q \notin job.moved => Before(q) = off[q] /\ off[q] + len[q] <= f
  <2>1. off[q] \in Nat /\ len[q] \in Nat /\ End(q) = off[q] + len[q]
    BY <1>6, Segments
  <2>2. q \in job.moved => Before(q) = off[q] + n /\ f <= off[q]
    BY <1>1 DEF Before, IInv, MovedLow
  <2>3. ASSUME q \notin job.moved
        PROVE  Before(q) = off[q] /\ off[q] + len[q] <= f
    <3>1. ~(off[q] > f)
      BY <1>1, <1>6, <2>3 DEF Behind
    <3>2. off[q] <= f
      BY <1>5, <2>1, <3>1
    <3>. QED
      BY <1>1, <1>6, <2>1, <2>3, <3>2 DEF Before, IInv, LowEnd
  <2>. QED
    BY <2>1, <2>2, <2>3
<1>7. ASSUME NEW q \in Programs \ {p}, Allocated(q), NEW i \in 0 .. off[q] - 1
      PROVE  \E r \in Programs \ {p} : Allocated(r) /\ off[r] <= i /\ i < off[r] + len[r]
  <2>. HIDE DEF f, n
  <2>1. off[q] \in Nat /\ i \in Nat
    BY <1>6, <1>7
  <2>2. CASE i < f
    <3>1. i \in 0 .. Before(q) - 1
      BY <1>5, <1>6, <1>7, <2>1
    <3>2. PICK r \in Programs : Covers(r, i)
      BY <1>7, <3>1 DEF Packed
    <3>3. r # p /\ Allocated(r) /\ Before(r) <= i /\ i < Before(r) + len[r]
      BY <1>5, <2>1, <2>2, <3>2 DEF Covers
    <3>4. /\ off[r] \in Nat /\ len[r] \in Nat
          /\ r \in job.moved => Before(r) = off[r] + n /\ f <= off[r]
          /\ r \notin job.moved => Before(r) = off[r]
      BY <1>6, <3>3
    <3>5. r \notin job.moved
      BY <1>5, <2>1, <2>2, <3>3, <3>4
    <3>. QED
      BY <3>3, <3>4, <3>5
  <2>3. CASE ~(i < f)
    <3>1. q \in job.moved /\ Before(q) = off[q] + n
      BY <1>5, <1>6, <1>7, <2>1, <2>3
    <3>2. i + n \in 0 .. Before(q) - 1
      BY <1>5, <1>7, <2>1, <3>1
    <3>3. PICK r \in Programs : Covers(r, i + n)
      BY <1>7, <3>2 DEF Packed
    <3>4. Allocated(r) /\ Before(r) <= i + n /\ i + n < Before(r) + len[r]
      BY <3>3 DEF Covers
    <3>5. r # p
      BY <1>5, <2>1, <2>3, <3>4 DEF n
    <3>6. /\ off[r] \in Nat /\ len[r] \in Nat
          /\ r \in job.moved => Before(r) = off[r] + n
          /\ r \notin job.moved => Before(r) = off[r] /\ off[r] + len[r] <= f
      BY <1>6, <3>4, <3>5
    <3>7. r \in job.moved
      BY <1>5, <2>1, <2>3, <3>4, <3>6
    <3>8. off[r] <= i /\ i < off[r] + len[r]
      BY <1>5, <2>1, <3>4, <3>6, <3>7
    <3>. QED
      BY <3>4, <3>5, <3>8
  <2>. QED
    BY <2>2, <2>3
<1>8. ASSUME NEW q \in Programs, Allocated(q)', NEW i \in 0 .. Before(q)' - 1
      PROVE  \E r \in Programs : Covers(r, i)'
  <2>1. q # p /\ Allocated(q) /\ i \in 0 .. off[q] - 1
    BY <1>2, <1>3, <1>4, <1>8
  <2>2. PICK r \in Programs \ {p} : Allocated(r) /\ off[r] <= i /\ i < off[r] + len[r]
    BY <1>7, <2>1
  <2>3. Allocated(r)' /\ Before(r)' = off[r] /\ len'[r] = len[r]
    BY <1>2, <1>3, <2>2
  <2>4. Covers(r, i)'
    BY <2>2, <2>3 DEF Covers
  <2>. QED
    BY <2>4
<1>. QED
  BY <1>8 DEF Packed

\* The new text begins where the last segment ends.
LEMMA PackedPlace ==
  ASSUME IInv, Packed, Place
  PROVE  Packed'
<1>. DEFINE p == job.p
            t == job.t
<1>1. PICK u \in Ends :
        IsUsed(u) /\ off' = [off EXCEPT ![p] = u] /\ len' = [len EXCEPT ![p] = SizeOf[t]]
  BY DEF Place
<1>2. p \in Programs /\ ~Allocated(p) /\ job.pc = "place" /\ job'.pc = "idle"
  BY Segments DEF Place, IInv, JobOK, Idle
<1>3. /\ off'[p] = u
      /\ \A q \in Programs \ {p} : off'[q] = off[q] /\ len'[q] = len[q]
      /\ \A q \in Programs : Before(q) = off[q] /\ Before(q)' = off'[q]
  BY <1>1, <1>2 DEF IInv, TypeOK, Before
<1>4. \A q \in Programs \ {p} : Allocated(q)' <=> Allocated(q)
  BY <1>3 DEF Allocated
<1>5. \A q \in Programs \ {p} : \A i : Covers(q, i) => Covers(q, i)'
  BY <1>3, <1>4 DEF Covers
<1>6. ASSUME NEW i \in 0 .. u - 1
      PROVE  \E r \in Programs \ {p} : Covers(r, i)
  <2>1. u # 0
    OBVIOUS
  <2>2. PICK q \in Programs : Allocated(q) /\ u = End(q)
    BY <1>1, <2>1 DEF Ends
  <2>3. off[q] \in Nat /\ len[q] \in Nat /\ u = off[q] + len[q] /\ Before(q) = off[q]
    BY <1>3, <2>2, Segments
  <2>4. CASE i < off[q]
    <3>1. i \in 0 .. Before(q) - 1
      BY <2>3, <2>4
    <3>2. PICK r \in Programs : Covers(r, i)
      BY <2>2, <3>1 DEF Packed
    <3>. QED
      BY <1>2, <3>2 DEF Covers
  <2>5. CASE ~(i < off[q])
    <3>1. Covers(q, i)
      BY <2>2, <2>3, <2>5 DEF Covers
    <3>. QED
      BY <1>2, <2>2, <3>1
  <2>. QED
    BY <2>4, <2>5
<1>7. ASSUME NEW q \in Programs, Allocated(q)', NEW i \in 0 .. Before(q)' - 1
      PROVE  \E r \in Programs : Covers(r, i)'
  <2>1. CASE q = p
    BY <1>3, <1>5, <1>6, <1>7, <2>1
  <2>2. CASE q # p
    <3>1. Allocated(q) /\ i \in 0 .. Before(q) - 1
      BY <1>3, <1>4, <1>7, <2>2
    <3>2. PICK r \in Programs : Covers(r, i)
      BY <3>1 DEF Packed
    <3>3. r # p
      BY <1>2, <3>2 DEF Covers
    <3>. QED
      BY <1>5, <3>2, <3>3
  <2>. QED
    BY <2>1, <2>2
<1>. QED
  BY <1>7 DEF Packed

LEMMA PackedStep == IInv /\ Packed /\ [Next]_vars => Packed'
<1>. SUFFICES ASSUME IInv, Packed, [Next]_vars  PROVE Packed'
  OBVIOUS
<1>1. CASE \/ \E p \in Programs, t \in Texts : Upload(p, t)
           \/ \E p \in Programs : Delete(p)
  BY <1>1, PackedStart DEF Upload, Delete
<1>2. CASE Refuse \/ Deleted
  <2>1. UNCHANGED <<off, len>> /\ job.pc = "place" /\ job'.pc = "idle"
    BY <1>2 DEF Refuse, Deleted, Idle
  <2>. QED
    BY <2>1 DEF Packed, Covers, Allocated, Before
<1>3. CASE UNCHANGED vars
  BY <1>3 DEF vars, Packed, Covers, Allocated, Before
<1>. QED
  BY <1>1, <1>2, <1>3, PackedMove, PackedFreed, PackedPlace DEF Next, Step


-----------------------------------------------------------------------------
(***************************************************************************)
(* Induction and recursion over numbers, by the least counterexample.      *)
(***************************************************************************)
LEMMA LeastOf ==
  ASSUME NEW S \in SUBSET Nat, S # {}
  PROVE  \E m \in S : \A k \in S : m <= k
<1>. DEFINE R == OpToRel(<, Nat)
<1>1. IsWellFoundedOn(R, Nat)
  BY NatLessThanWellFounded, Zenon
<1>2. \A x, y \in Nat : x < y => <<x, y>> \in R
  BY DEF OpToRel
<1>. HIDE DEF R
<1>3. PICK m \in S : \A k \in S : ~ (<<k, m>> \in R)
  BY <1>1, WFMin
<1>4. \A k \in S : ~ (k < m)
  BY <1>2, <1>3
<1>. QED
  BY <1>4

\* Induction over 0 .. n.
LEMMA UpTo ==
  ASSUME NEW n \in Nat, NEW S, 0 \in S, \A i \in 1 .. n : i - 1 \in S => i \in S
  PROVE  \A i \in 0 .. n : i \in S
<1>. DEFINE Bad == {i \in 0 .. n : i \notin S}
<1>1. SUFFICES ASSUME Bad # {} PROVE FALSE
  OBVIOUS
<1>2. Bad \in SUBSET Nat
  OBVIOUS
<1>3. PICK m \in Bad : \A k \in Bad : m <= k
  <2>. HIDE DEF Bad
  <2>. QED
    BY <1>1, <1>2, LeastOf
<1>4. m \in 1 .. n /\ m - 1 \in 0 .. n /\ m - 1 \notin Bad
  BY <1>3
<1>. QED
  BY <1>3, <1>4

\* A function defined by recursion over 0 .. n exists.
Recurs(g, n, base, step) == g[0] = base /\ \A i \in 1 .. n : g[i] = step[i][g[i-1]]

LEMMA Recursion ==
  ASSUME NEW n \in Nat, NEW base, NEW step
  PROVE  \E g : Recurs(g, n, base, step)
<1>. DEFINE Has(m) ==
              \E g : g = [i \in 0 .. m |-> IF i = 0 THEN base ELSE step[i][g[i-1]]]
            T == {m \in 0 .. n : Has(m)}
<1>1. 0 \in T
  <2>. DEFINE h == [i \in 0 .. 0 |-> base]
  <2>1. h = [i \in 0 .. 0 |-> IF i = 0 THEN base ELSE step[i][h[i-1]]]
    OBVIOUS
  <2>. HIDE DEF h
  <2>2. Has(0)
    BY <2>1
  <2>. HIDE DEF Has
  <2>. QED
    BY <2>2
<1>2. ASSUME NEW m \in 1 .. n, m - 1 \in T
      PROVE  m \in T
  <2>1. PICK g : g = [i \in 0 .. m-1 |-> IF i = 0 THEN base ELSE step[i][g[i-1]]]
    BY <1>2
  <2>. DEFINE h == [i \in 0 .. m |-> IF i = m THEN step[m][g[m-1]] ELSE g[i]]
  <2>2. \A i \in 0 .. m-1 : g[i] = IF i = 0 THEN base ELSE step[i][g[i-1]]
    BY <2>1
  <2>3. \A i \in 0 .. m : h[i] = IF i = 0 THEN base ELSE step[i][h[i-1]]
    BY <2>2
  <2>4. h = [i \in 0 .. m |-> IF i = 0 THEN base ELSE step[i][h[i-1]]]
    BY <2>3
  <2>. HIDE DEF h
  <2>5. Has(m)
    BY <2>4
  <2>. HIDE DEF Has
  <2>. QED
    BY <2>5
<1>3. n \in T
  <2>. HIDE DEF T
  <2>1. \A i \in 1 .. n : i - 1 \in T => i \in T
    BY <1>2
  <2>2. \A i \in 0 .. n : i \in T
    BY <1>1, <2>1, UpTo, Zenon
  <2>. QED
    BY <2>2
<1>4. Has(n)
  <2>. HIDE DEF Has
  <2>. QED
    BY <1>3
<1>5. PICK g : g = [i \in 0 .. n |-> IF i = 0 THEN base ELSE step[i][g[i-1]]]
  BY <1>4
<1>6. \A i \in 0 .. n : g[i] = IF i = 0 THEN base ELSE step[i][g[i-1]]
  BY <1>5
<1>. QED
  BY <1>6 DEF Recurs

Count == Cardinality(Programs)

LEMMA Counted == Count \in Nat /\ Programs = 0 .. Count - 1
BY PoolAssumption, FS_CardinalityType DEF Count

(***************************************************************************)
(* Sums over the slots.                                                    *)
(***************************************************************************)
Upto(f) == CHOOSE g : g = [i \in 0 .. Count |-> IF i = 0 THEN 0 ELSE g[i-1] + f[i-1]]

LEMMA Sums ==
  ASSUME NEW f \in [Programs -> Nat]
  PROVE  /\ Store!Total(f) = Upto(f)[Count]
         /\ Upto(f)[0] = 0
         /\ \A i \in 1 .. Count : Upto(f)[i] = Upto(f)[i-1] + f[i-1]
         /\ \A i \in 0 .. Count : Upto(f)[i] \in Nat
<1>. DEFINE step == [i \in 1 .. Count |-> [x \in Nat |-> x + f[i-1]]]
<1>1. Store!Total(f) = Upto(f)[Count]
  <2>1. Store!Cardinality(Programs) = Cardinality(Programs)
    BY Zenon DEF Store!Cardinality, Cardinality
  <2>. QED
    BY <2>1 DEF Store!Total, Upto, Count
<1>2. /\ Count \in Nat /\ 0 \in 0 .. Count
      /\ \A i \in 1 .. Count : i - 1 \in 0 .. Count /\ i - 1 \in Programs /\ f[i-1] \in Nat
  BY Counted
<1>3. PICK g : Recurs(g, Count, 0, step)
  <2>. HIDE DEF step
  <2>. QED
    BY <1>2, Recursion, Zenon
<1>4. g[0] = 0 /\ \A i \in 1 .. Count : g[i] = step[i][g[i-1]]
  BY <1>3 DEF Recurs
<1>5. ASSUME NEW i \in 1 .. Count, g[i-1] \in Nat
      PROVE  g[i] = g[i-1] + f[i-1] /\ g[i] \in Nat
  <2>1. step[i] = [x \in Nat |-> x + f[i-1]]
    OBVIOUS
  <2>. HIDE DEF step
  <2>2. g[i] = g[i-1] + f[i-1]
    BY <1>4, <1>5, <2>1
  <2>. QED
    BY <1>2, <1>5, <2>2
<1>6. \A i \in 0 .. Count : g[i] \in Nat
  <2>. DEFINE T == {i \in 0 .. Count : g[i] \in Nat}
  <2>1. 0 \in T /\ \A i \in 1 .. Count : i - 1 \in T => i \in T
    BY <1>2, <1>4, <1>5
  <2>2. \A i \in 0 .. Count : i \in T
    <3>. HIDE DEF T
    <3>. QED
      BY <2>1, <1>2, UpTo
  <2>. QED
    BY <2>2
<1>7. \E h : h = [i \in 0 .. Count |-> IF i = 0 THEN 0 ELSE h[i-1] + f[i-1]]
  <2>. DEFINE h == [i \in 0 .. Count |-> g[i]]
  <2>1. \A i \in 0 .. Count : h[i] = IF i = 0 THEN 0 ELSE h[i-1] + f[i-1]
    BY <1>2, <1>4, <1>5, <1>6
  <2>2. h = [i \in 0 .. Count |-> IF i = 0 THEN 0 ELSE h[i-1] + f[i-1]]
    BY <2>1
  <2>. HIDE DEF h
  <2>. QED
    BY <2>2
<1>8. Upto(f) = [i \in 0 .. Count |-> IF i = 0 THEN 0 ELSE Upto(f)[i-1] + f[i-1]]
  BY <1>7 DEF Upto
<1>9. /\ Upto(f)[0] = 0
      /\ \A i \in 1 .. Count : Upto(f)[i] = Upto(f)[i-1] + f[i-1]
  BY <1>2, <1>8
<1>10. \A i \in 0 .. Count : Upto(f)[i] \in Nat
  <2>. DEFINE T == {i \in 0 .. Count : Upto(f)[i] \in Nat}
  <2>1. 0 \in T /\ \A i \in 1 .. Count : i - 1 \in T => i \in T
    BY <1>2, <1>9
  <2>2. \A i \in 0 .. Count : i \in T
    <3>. HIDE DEF T
    <3>. QED
      BY <2>1, <1>2, UpTo
  <2>. QED
    BY <2>2
<1>. QED
  BY <1>1, <1>9, <1>10


-----------------------------------------------------------------------------
(***************************************************************************)
(* What a reader finds.                                                    *)
(***************************************************************************)
ReadsBack == \A q \in Programs, t \in Texts : Holds(q, t) => ReadBack(q) = t

\* The first byte tells which text it is.
LEMMA ReadingBack == ReadsBack
<1>. SUFFICES ASSUME NEW q \in Programs, NEW t \in Texts, Holds(q, t)
              PROVE  ReadBack(q) = t
  BY DEF ReadsBack
<1>1. ASSUME NEW s \in Texts, Holds(q, s)  PROVE s = t
  <2>1. 1 \in 1 .. len[q]
    BY PoolFacts DEF Holds
  <2>2. cells[(off[q] + 1) - 1] = <<t, 1>> /\ cells[(off[q] + 1) - 1] = <<s, 1>>
    BY <1>1, <2>1 DEF Holds
  <2>. QED
    BY <2>2
<1>2. (CHOOSE s \in Texts : Holds(q, s)) = t
  <2>1. \E s \in Texts : Holds(q, s)
    OBVIOUS
  <2>2. (CHOOSE s \in Texts : Holds(q, s)) \in Texts /\ Holds(q, CHOOSE s \in Texts : Holds(q, s))
    BY <2>1, Zenon
  <2>. QED
    BY <1>1, <2>2
<1>. QED
  BY <1>2 DEF ReadBack

Present(q) == Allocated(q) /\ ~Freeing(q)
Shows == \A q \in Programs : Stored[q] = IF Present(q) THEN ReadBack(q) ELSE NoText
SlotBySlot == Stored = [q \in Programs |-> Stored[q]]
LEMMA Showing == Shows /\ SlotBySlot
BY DEF Shows, SlotBySlot, Stored, Present

\* A segment that keeps its text shows the same.
LEMMA StillStored ==
  ASSUME IInv, NEW q \in Programs,
         \/ /\ Present(q) /\ Present(q)'
            /\ \A t \in Texts : Holds(q, t) => Holds(q, t)'
         \/ ~Present(q) /\ ~Present(q)'
  PROVE  Stored'[q] = Stored[q]
<1>1. ReadsBack /\ Shows
  BY ReadingBack, Showing
<1>2. ReadsBack' /\ Shows'
  BY ReadingBack, Showing, PTL
<1>3. CASE ~Present(q) /\ ~Present(q)'
  BY <1>1, <1>2, <1>3 DEF Shows
<1>4. CASE Present(q) /\ Present(q)'
  <2>1. PICK t \in Texts : Holds(q, t)
    BY <1>4 DEF IInv, PoolIntact, Present
  <2>2. Holds(q, t)'
    BY <1>4, <2>1
  <2>3. Stored[q] = t /\ Stored'[q] = t
    BY <1>1, <1>2, <1>4, <2>1, <2>2 DEF ReadsBack, Shows
  <2>. QED
    BY <2>3
<1>. QED
  BY <1>3, <1>4

-----------------------------------------------------------------------------
(***************************************************************************)
(* What is used.  The bytes of the segments of the first slots are as many *)
(* as their sizes add up to, as segments never overlap; and all together   *)
(* they are the bytes in front of the end of the last one.                 *)
(***************************************************************************)
Segment(q) == IF Allocated(q) THEN off[q] .. off[q] + len[q] - 1 ELSE {}
Sizes == [q \in Programs |-> IF Allocated(q) THEN len[q] ELSE 0]
BytesUpTo(i) == UNION {Segment(q) : q \in {p \in Programs : p < i}}

LEMMA BytesCounted ==
  ASSUME IInv, job.pc # "move"
  PROVE  Store!Total(Sizes) = Cardinality(BytesUpTo(Count))
<1>1. Count \in Nat /\ Programs = 0 .. Count - 1
  BY Counted
<1>2. \A q \in Programs : Allocated(q) => off[q] \in Nat /\ len[q] \in Nat /\ End(q) = off[q] + len[q]
  BY Segments
<1>3. Sizes \in [Programs -> Nat]
  BY <1>2 DEF Sizes
<1>4. /\ Store!Total(Sizes) = Upto(Sizes)[Count] /\ Upto(Sizes)[0] = 0
      /\ \A i \in 1 .. Count : Upto(Sizes)[i] = Upto(Sizes)[i - 1] + Sizes[i - 1]
  BY <1>3, Sums
<1>5. ASSUME NEW q \in Programs
      PROVE  IsFiniteSet(Segment(q)) /\ Cardinality(Segment(q)) = Sizes[q]
  <2>1. CASE Allocated(q)
    <3>1. off[q] \in Int /\ off[q] + len[q] - 1 \in Int /\ len[q] \in Nat
      BY <1>2, <2>1
    <3>2. /\ IsFiniteSet(off[q] .. off[q] + len[q] - 1)
          /\ Cardinality(off[q] .. off[q] + len[q] - 1)
               = IF off[q] > off[q] + len[q] - 1 THEN 0 ELSE (off[q] + len[q] - 1) - off[q] + 1
      BY <3>1, FS_Interval
    <3>3. (IF off[q] > off[q] + len[q] - 1 THEN 0 ELSE (off[q] + len[q] - 1) - off[q] + 1) = len[q]
      BY <3>1
    <3>. QED
      BY <2>1, <3>2, <3>3 DEF Segment, Sizes
  <2>2. CASE ~Allocated(q)
    BY <2>2, FS_EmptySet DEF Segment, Sizes
  <2>. QED
    BY <2>1, <2>2
<1>6. ASSUME NEW q \in Programs, NEW r \in Programs, q # r
      PROVE  Segment(q) \cap Segment(r) = {}
  <2>1. CASE Allocated(q) /\ Allocated(r)
    <3>1. End(q) <= off[r] \/ End(r) <= off[q]
      BY <1>6, <2>1 DEF IInv, Disjoint, Freeing
    <3>. QED
      BY <1>2, <2>1, <3>1 DEF Segment
  <2>2. CASE ~(Allocated(q) /\ Allocated(r))
    BY <2>2 DEF Segment
  <2>. QED
    BY <2>1, <2>2
<1>. DEFINE T == {i \in 0 .. Count : IsFiniteSet(BytesUpTo(i)) /\ Cardinality(BytesUpTo(i)) = Upto(Sizes)[i]}
<1>7. 0 \in T
  <2>1. BytesUpTo(0) = {}
    BY <1>1 DEF BytesUpTo
  <2>. QED
    BY <1>1, <1>4, <2>1, FS_EmptySet
<1>8. ASSUME NEW i \in 1 .. Count, i - 1 \in T
      PROVE  i \in T
  <2>1. i - 1 \in Programs
    BY <1>1
  <2>2. BytesUpTo(i) = BytesUpTo(i - 1) \cup Segment(i - 1)
    <3>1. {p \in Programs : p < i} = {p \in Programs : p < i - 1} \cup {i - 1}
      BY <1>1
    <3>. QED
      BY <3>1 DEF BytesUpTo
  <2>3. BytesUpTo(i - 1) \cap Segment(i - 1) = {}
    <3>1. \A q \in Programs : q < i - 1 => Segment(q) \cap Segment(i - 1) = {}
      BY <1>1, <1>6, <2>1
    <3>. QED
      BY <3>1 DEF BytesUpTo
  <2>. DEFINE A == BytesUpTo(i - 1)
              B == Segment(i - 1)
  <2>4. IsFiniteSet(A) /\ IsFiniteSet(B) /\ Cardinality(A) = Upto(Sizes)[i - 1] /\ Cardinality(B) = Sizes[i - 1]
        /\ A \cap B = {} /\ BytesUpTo(i) = A \cup B
    BY <1>5, <1>8, <2>1, <2>2, <2>3
  <2>. HIDE DEF A, B
  <2>5. IsFiniteSet(A \cup B) /\ Cardinality(A \cup B) = Cardinality(A) + Cardinality(B) - Cardinality(A \cap B)
    BY <2>4, FS_Union
  <2>6. Cardinality(A \cap B) = 0 /\ Cardinality(A) \in Nat /\ Cardinality(B) \in Nat
    BY <2>4, FS_EmptySet, FS_CardinalityType
  <2>7. Cardinality(A \cup B) = Cardinality(A) + Cardinality(B)
    BY <2>5, <2>6
  <2>8. Upto(Sizes)[i] = Upto(Sizes)[i - 1] + Sizes[i - 1]
    BY <1>4
  <2>9. IsFiniteSet(BytesUpTo(i)) /\ Cardinality(BytesUpTo(i)) = Upto(Sizes)[i]
    BY ONLY <2>4, <2>5, <2>7, <2>8
  <2>10. i \in 0 .. Count
    BY <1>1
  <2>. QED
    BY <2>9, <2>10
<1>9. Count \in T
  <2>1. \A i \in 1 .. Count : i - 1 \in T => i \in T
    BY <1>8
  <2>. HIDE DEF T
  <2>2. \A i \in 0 .. Count : i \in T
    BY <1>1, <1>7, <2>1, UpTo
  <2>. QED
    BY <1>1, <2>2
<1>. QED
  BY <1>4, <1>9

LEMMA UsedIsTheEnd ==
  ASSUME IInv, Packed, job.pc # "move", NEW u \in Ends, IsUsed(u)
  PROVE  Store!Used = u /\ u \in Nat
<1>1. Count \in Nat /\ Programs = 0 .. Count - 1
  BY Counted
<1>2. \A q \in Programs : Allocated(q) => off[q] \in Nat /\ len[q] \in Nat /\ End(q) = off[q] + len[q]
  BY Segments
<1>3. u \in Nat /\ \A q \in Programs : Allocated(q) => End(q) <= u
  BY <1>2 DEF IsUsed, Ends
<1>4. ASSUME NEW q \in Programs
      PROVE  (IF Stored[q] = NoText THEN 0 ELSE SizeOf[Stored[q]]) = Sizes[q]
  <2>1. Shows /\ ReadsBack
    BY Showing, ReadingBack
  <2>2. Present(q) <=> Allocated(q)
    BY DEF Present, Freeing
  <2>3. CASE Allocated(q)
    <3>1. PICK t \in Texts : Holds(q, t)
      BY <2>2, <2>3 DEF IInv, PoolIntact, Present
    <3>2. Stored[q] = t /\ t # NoText
      BY <2>1, <2>2, <2>3, <3>1, PoolFacts DEF Shows, ReadsBack
    <3>. QED
      BY <2>3, <3>1, <3>2 DEF Sizes, Holds
  <2>4. CASE ~Allocated(q)
    BY <2>1, <2>2, <2>4 DEF Shows, Sizes
  <2>. QED
    BY <2>3, <2>4
<1>5. Store!Used = Store!Total(Sizes)
  <2>1. [q \in Programs |-> IF Stored[q] = NoText THEN 0 ELSE SizeOf[Stored[q]]] = Sizes
    BY <1>4 DEF Sizes
  <2>. QED
    BY <2>1 DEF Store!Used
<1>6. BytesUpTo(Count) = 0 .. u - 1
  <2>1. \A q \in Programs : q < Count
    BY <1>1
  <2>2. ASSUME NEW i \in BytesUpTo(Count)  PROVE i \in 0 .. u - 1
    <3>1. PICK q \in Programs : i \in Segment(q)
      BY <2>2 DEF BytesUpTo
    <3>2. Allocated(q) /\ i \in off[q] .. off[q] + len[q] - 1
      BY <3>1 DEF Segment
    <3>. QED
      BY <1>2, <1>3, <3>2
  <2>3. ASSUME NEW i \in 0 .. u - 1  PROVE i \in BytesUpTo(Count)
    <3>1. PICK q \in Programs : Allocated(q) /\ u = End(q)
      BY <1>3, <2>3 DEF Ends
    <3>2. \A r \in Programs : Before(r) = off[r]
      BY DEF Before
    <3>3. \E r \in Programs : Allocated(r) /\ off[r] <= i /\ i < off[r] + len[r]
      <4>1. CASE i < off[q]
        <5>1. i \in 0 .. Before(q) - 1
          BY <1>2, <3>1, <3>2, <4>1
        <5>2. PICK r \in Programs : Covers(r, i)
          BY <3>1, <5>1 DEF Packed
        <5>. QED
          BY <3>2, <5>2 DEF Covers
      <4>2. CASE ~(i < off[q])
        BY <1>2, <3>1, <4>2
      <4>. QED
        BY <4>1, <4>2
    <3>4. PICK r \in Programs : Allocated(r) /\ off[r] <= i /\ i < off[r] + len[r]
      BY <3>3
    <3>5. i \in Segment(r)
      BY <1>2, <3>4 DEF Segment
    <3>. QED
      BY <2>1, <3>5 DEF BytesUpTo
  <2>. QED
    BY <2>2, <2>3
<1>7. Cardinality(0 .. u - 1) = u
  <2>1. 0 \in Int /\ u - 1 \in Int
    BY <1>3
  <2>2. Cardinality(0 .. u - 1) = IF 0 > u - 1 THEN 0 ELSE (u - 1) - 0 + 1
    BY <2>1, FS_Interval
  <2>. QED
    BY <1>3, <2>2
<1>. QED
  BY <1>3, <1>5, <1>6, <1>7, BytesCounted


-----------------------------------------------------------------------------
(***************************************************************************)
(* Step by step the pool does what a store does, or nothing a reader sees. *)
(***************************************************************************)
LEMMA StoredBySlot ==
  ASSUME NEW p \in Programs, NEW x, Stored'[p] = x,
         \A q \in Programs \ {p} : Stored'[q] = Stored[q]
  PROVE  Stored' = [Stored EXCEPT ![p] = x]
<1>. SlotBySlot /\ SlotBySlot'
  BY Showing, PTL
<1>1. Stored = [q \in Programs |-> Stored[q]] /\ Stored' = [q \in Programs |-> Stored'[q]]
  BY DEF SlotBySlot
<1>. DEFINE f == Stored
            g == Stored'
<1>3. /\ f = [q \in Programs |-> f[q]] /\ g = [q \in Programs |-> g[q]]
      /\ g[p] = x /\ \A q \in Programs \ {p} : g[q] = f[q]
  BY <1>1
<1>. HIDE DEF f, g
<1>4. g = [f EXCEPT ![p] = x]
  BY <1>3
<1>. QED
  BY <1>4 DEF f, g

LEMMA StoredTheSame ==
  ASSUME \A q \in Programs : Stored'[q] = Stored[q]
  PROVE  Stored' = Stored
<1>. SlotBySlot /\ SlotBySlot'
  BY Showing, PTL
<1>1. Stored = [q \in Programs |-> Stored[q]] /\ Stored' = [q \in Programs |-> Stored'[q]]
  BY DEF SlotBySlot
<1>. DEFINE f == Stored
            g == Stored'
<1>3. f = [q \in Programs |-> f[q]] /\ g = [q \in Programs |-> g[q]] /\ \A q \in Programs : g[q] = f[q]
  BY <1>1
<1>. HIDE DEF f, g
<1>4. g = f
  BY <1>3
<1>. QED
  BY <1>4 DEF f, g

LEMMA NothingAtFirst == Init => Store!Init
<1>. SUFFICES ASSUME Init  PROVE Store!Init
  OBVIOUS
<1>1. \A q \in Programs : ~Allocated(q)
  BY DEF Init, Allocated
<1>2. Stored = [q \in Programs |-> NoText]
  BY <1>1 DEF Stored
<1>. QED
  BY <1>2 DEF Init, Pending, Store!Init, Store!NoRequest

\* A call is a request: what the program had is gone with its first step.
LEMMA CallIsRequest ==
  ASSUME IInv, job = Idle, NEW p \in Programs, NEW t \in Texts \cup {NoText},
         Start(p, t), UNCHANGED <<cells, off, len>>
  PROVE  Store!Request(p, t)
<1>1. /\ job'.pc = (IF Allocated(p) THEN "move" ELSE "place")
      /\ job'.p = p /\ job'.t = t /\ job' # Idle
  BY DEF Start, Idle
<1>2. ~Present(p)' /\ \A q \in Programs \ {p} : Present(q)' <=> Present(q)
  BY <1>1 DEF Present, Freeing, Allocated, Idle
<1>3. Stored'[p] = NoText
  <2>1. Shows'
    BY Showing, PTL
  <2>. QED
    BY <1>2, <2>1 DEF Shows
<1>4. ASSUME NEW q \in Programs \ {p}  PROVE Stored'[q] = Stored[q]
  <2>1. \A x \in Texts : Holds(q, x) => Holds(q, x)'
    BY DEF Holds
  <2>. QED
    BY <1>2, <2>1, StillStored
<1>5. Stored' = [Stored EXCEPT ![p] = NoText]
  BY <1>3, <1>4, StoredBySlot
<1>6. Pending = [p |-> NoText, t |-> NoText] /\ Pending' = [p |-> p, t |-> t]
  BY <1>1 DEF Pending
<1>. QED
  BY <1>5, <1>6 DEF Store!Request, Store!NoRequest

\* No memmove shows, and neither does the end of the compaction.
LEMMA MoveIsHidden ==
  ASSUME IInv, NEW r \in Programs, MoveDown(r)
  PROVE  UNCHANGED Store!storeVars
<1>1. job \in Jobs /\ job.pc = "move" /\ job' = [job EXCEPT !.moved = @ \cup {r}]
  BY Segments DEF MoveDown
<1>2. job'.pc = "move" /\ job'.p = job.p /\ job'.t = job.t /\ job' # Idle /\ job # Idle
  BY <1>1 DEF Jobs, Idle
<1>3. \A q \in Programs : /\ Allocated(q)' <=> Allocated(q)
                          /\ \A t \in Texts : q # job.p /\ Allocated(q) /\ Holds(q, t) => Holds(q, t)'
  BY MoveStep
<1>4. ASSUME NEW q \in Programs  PROVE Stored'[q] = Stored[q]
  <2>1. Present(q)' <=> Present(q)
    BY <1>1, <1>2, <1>3 DEF Present, Freeing
  <2>2. Present(q) => q # job.p /\ Allocated(q)
    BY <1>1 DEF Present, Freeing
  <2>. QED
    BY <1>3, <2>1, <2>2, StillStored
<1>5. Stored' = Stored
  BY <1>4, StoredTheSame
<1>6. Pending' = Pending
  BY <1>2 DEF Pending
<1>. QED
  BY <1>5, <1>6 DEF Store!storeVars

LEMMA FreedIsHidden ==
  ASSUME IInv, Freed
  PROVE  UNCHANGED Store!storeVars
<1>1. /\ job \in Jobs /\ job.pc = "move" /\ job.p \in Programs
      /\ job' = [job EXCEPT !.pc = "place"]
      /\ off' = [off EXCEPT ![job.p] = None] /\ len' = [len EXCEPT ![job.p] = 0] /\ cells' = cells
  BY Segments DEF Freed
<1>2. job'.pc = "place" /\ job'.p = job.p /\ job'.t = job.t /\ job' # Idle /\ job # Idle
  BY <1>1 DEF Jobs, Idle
<1>3. off'[job.p] = None /\ \A q \in Programs \ {job.p} : off'[q] = off[q] /\ len'[q] = len[q]
  BY <1>1 DEF IInv, TypeOK
<1>4. ASSUME NEW q \in Programs  PROVE Stored'[q] = Stored[q]
  <2>1. Present(q)' <=> Present(q)
    BY <1>1, <1>2, <1>3 DEF Present, Freeing, Allocated
  <2>2. Present(q) => q # job.p
    BY <1>1 DEF Present, Freeing
  <2>3. \A x \in Texts : Present(q) /\ Holds(q, x) => Holds(q, x)'
    BY <1>1, <1>3, <2>2 DEF Holds
  <2>. QED
    BY <2>1, <2>3, StillStored
<1>5. Stored' = Stored
  BY <1>4, StoredTheSame
<1>6. Pending' = Pending
  BY <1>2 DEF Pending
<1>. QED
  BY <1>5, <1>6 DEF Store!storeVars

\* What fits behind the last segment fits beside the other texts, and is read
\* back as it was given.
LEMMA PlaceAccepts ==
  ASSUME IInv, Packed, Place
  PROVE  Store!Accept
<1>1. PICK u \in Ends : IsUsed(u) /\ Fits(u)
  BY DEF Place
<1>2. PICK p : p = job.p
  OBVIOUS
<1>3. PICK t : t = job.t
  OBVIOUS
<1>4. /\ p \in Programs /\ t \in Texts /\ job.pc = "place" /\ job # Idle /\ job' = Idle
      /\ ~Allocated(p)
  BY <1>2, <1>3, Segments DEF Place, Idle, IInv, JobOK
<1>5. /\ Allocated(p)' /\ Holds(p, t)'
      /\ \A q \in Programs \ {p} : /\ Allocated(q)' <=> Allocated(q)
                                   /\ \A x \in Texts : Allocated(q) /\ Holds(q, x) => Holds(q, x)'
  BY <1>2, <1>3, PlaceStep
<1>6. \A q : (Present(q) <=> Allocated(q)) /\ (Present(q)' <=> Allocated(q)')
  BY <1>4 DEF Present, Freeing, Idle
<1>7. Stored'[p] = t
  <2>1. Shows' /\ ReadsBack'
    BY Showing, ReadingBack, PTL
  <2>2. Present(p)' /\ Holds(p, t)'
    BY <1>5, <1>6
  <2>. QED
    BY <1>4, <2>1, <2>2 DEF Shows, ReadsBack
<1>8. ASSUME NEW q \in Programs \ {p}  PROVE Stored'[q] = Stored[q]
  <2>1. Present(q)' <=> Present(q)
    BY <1>5, <1>6
  <2>2. \A x \in Texts : Present(q) /\ Holds(q, x) => Holds(q, x)'
    BY <1>5, <1>6
  <2>. QED
    BY <2>1, <2>2, StillStored
<1>9. Stored' = [Stored EXCEPT ![p] = t]
  BY <1>4, <1>7, <1>8, StoredBySlot
<1>10. Pending = [p |-> p, t |-> t] /\ Pending' = [p |-> NoText, t |-> NoText]
  BY <1>2, <1>3, <1>4 DEF Pending
<1>11. Pending.p = p /\ Pending.t = t
  BY <1>10
<1>12. Store!Used + SizeOf[t] <= PoolSize
  <2>1. Store!Used = u
    BY <1>1, <1>4, UsedIsTheEnd
  <2>. QED
    BY <1>1, <1>3, <2>1 DEF Fits
<1>13. t # NoText
  BY <1>4, PoolFacts
<1>. QED
  BY <1>9, <1>10, <1>11, <1>12, <1>13 DEF Store!Accept, Store!NoRequest

\* A text is refused only when all the texts together are too much.
LEMMA RefusalIsRight ==
  ASSUME IInv, Packed, Refuse \/ Deleted
  PROVE  Store!Refuse \/ Store!Deleted
<1>1. PICK p : p = job.p
  OBVIOUS
<1>2. PICK t : t = job.t
  OBVIOUS
<1>3. /\ p \in Programs /\ t \in Texts \cup {NoText} /\ job.pc = "place" /\ job # Idle
      /\ job' = Idle /\ UNCHANGED <<cells, off, len>>
  BY <1>1, <1>2, Segments DEF Refuse, Deleted, Idle
<1>4. Stored' = Stored
  <2>1. ASSUME NEW q \in Programs  PROVE Stored'[q] = Stored[q]
    <3>1. Present(q)' <=> Present(q)
      BY <1>3 DEF Present, Freeing, Allocated, Idle
    <3>2. \A x \in Texts : Holds(q, x) => Holds(q, x)'
      BY <1>3 DEF Holds
    <3>. QED
      BY <3>1, <3>2, StillStored
  <2>. QED
    BY <2>1, StoredTheSame
<1>5. Pending = [p |-> p, t |-> t] /\ Pending' = [p |-> NoText, t |-> NoText]
  BY <1>1, <1>2, <1>3 DEF Pending
<1>6. Pending.p = p /\ Pending.t = t
  BY <1>5
<1>7. CASE Refuse
  <2>1. PICK u \in Ends : IsUsed(u) /\ ~Fits(u)
    BY <1>7 DEF Refuse
  <2>2. Store!Used = u /\ u \in Nat
    BY <1>3, <2>1, UsedIsTheEnd
  <2>3. t # NoText /\ t \in Texts
    BY <1>2, <1>3, <1>7 DEF Refuse
  <2>4. Store!Used + SizeOf[t] > PoolSize
    BY <1>2, <2>1, <2>2, <2>3, PoolFacts DEF Fits
  <2>. QED
    BY <1>4, <1>5, <1>6, <2>3, <2>4 DEF Store!Refuse, Store!NoRequest
<1>8. CASE Deleted
  <2>1. t = NoText /\ p # NoText
    BY <1>2, <1>3, <1>8, PoolAssumption DEF Deleted
  <2>2. Pending # [p |-> NoText, t |-> NoText]
    BY <1>6, <2>1
  <2>. QED
    BY <1>4, <1>5, <1>6, <2>1, <2>2 DEF Store!Deleted, Store!NoRequest
<1>. QED
  BY <1>7, <1>8

LEMMA StoreStep == IInv /\ Packed /\ [Next]_vars => [Store!Next]_(Store!storeVars)
<1>. SUFFICES ASSUME IInv, Packed, [Next]_vars
              PROVE  Store!Next \/ UNCHANGED Store!storeVars
  OBVIOUS
<1>1. ASSUME NEW p \in Programs, NEW t \in Texts, Upload(p, t)
      PROVE  Store!Next
  BY <1>1, CallIsRequest DEF Upload, Store!Next
<1>2. ASSUME NEW p \in Programs, Delete(p)
      PROVE  Store!Next
  BY <1>2, CallIsRequest DEF Delete, Store!Next
<1>3. ASSUME NEW q \in Programs, MoveDown(q)
      PROVE  UNCHANGED Store!storeVars
  BY <1>3, MoveIsHidden
<1>4. CASE Freed
  BY <1>4, FreedIsHidden
<1>5. CASE Place
  BY <1>5, PlaceAccepts DEF Store!Next
<1>6. CASE Refuse \/ Deleted
  BY <1>6, RefusalIsRight DEF Store!Next
<1>7. CASE UNCHANGED vars
  <2>1. ASSUME NEW q \in Programs  PROVE Stored'[q] = Stored[q]
    <3>1. Present(q)' <=> Present(q)
      BY <1>7 DEF vars, Present, Freeing, Allocated
    <3>2. \A x \in Texts : Holds(q, x) => Holds(q, x)'
      BY <1>7 DEF vars, Holds
    <3>. QED
      BY <3>1, <3>2, StillStored
  <2>2. Stored' = Stored
    BY <2>1, StoredTheSame
  <2>3. Pending' = Pending
    BY <1>7 DEF vars, Pending
  <2>. QED
    BY <2>2, <2>3 DEF Store!storeVars
<1>. QED
  BY <1>1, <1>2, <1>3, <1>4, <1>5, <1>6, <1>7 DEF Next, Step

LEMMA PackedAtFirst == Init => Packed
BY DEF Init, Packed, Allocated

\* In front of a segment there is never a free byte, the compaction undone.
THEOREM AlwaysPacked == Spec => []Packed
BY PackedAtFirst, PackedStep, Inductive, PTL DEF Spec

\* The pool is a store (StSourceStore): a text that was accepted is read back
\* as it was given until that program's text is replaced or deleted, whatever
\* is moved meanwhile, and a text is refused only when the sizes of all the
\* texts add up to more than the pool (st_logic_pool_allocate).
THEOREM PoolIsAStore == Spec => Store!Init /\ [][Store!Next]_(Store!storeVars)
BY NothingAtFirst, StoreStep, AlwaysPacked, Inductive, PTL DEF Spec

\* The segment in front ends where one begins.
LEMMA PackedIsWithoutGaps == IInv /\ Packed => NoGaps
<1>. SUFFICES ASSUME IInv, Packed, job = Idle, NEW p \in Programs, Allocated(p), off[p] # 0
              PROVE  \E q \in Programs : Allocated(q) /\ End(q) = off[p]
  BY DEF NoGaps
<1>1. \A q \in Programs : Allocated(q) =>
        off[q] \in Nat /\ len[q] \in Nat /\ len[q] >= 1 /\ End(q) = off[q] + len[q]
  BY Segments
<1>2. \A q : Before(q) = off[q]
  BY DEF Before, Idle
<1>3. off[p] - 1 \in 0 .. off[p] - 1
  BY <1>1
<1>4. PICK q \in Programs : Covers(q, off[p] - 1)
  BY <1>2, <1>3 DEF Packed
<1>5. Allocated(q) /\ off[q] <= off[p] - 1 /\ off[p] - 1 < off[q] + len[q]
  BY <1>2, <1>4 DEF Covers
<1>6. p # q
  BY <1>1, <1>5
<1>7. End(q) <= off[p] \/ End(p) <= off[q]
  BY <1>5, <1>6 DEF IInv, Disjoint, Freeing, Idle
<1>. QED
  BY <1>1, <1>5, <1>7

\* Between calls every segment begins at 0 or where another one ends, so that
\* what is free is one piece (largest_free in st_logic_get_pool_stats).
THEOREM PoolIsOnePiece == Spec => []NoGaps
BY PackedIsWithoutGaps, AlwaysPacked, Inductive, PTL
=============================================================================
