---------------------------- MODULE StSourcePool ----------------------------
(***************************************************************************)
(* The pool that holds the source text of the ST programs                  *)
(* (src/src/st_logic_config.cpp): one byte array, a segment per program,   *)
(* no gaps.  Storing a text frees the program's old segment, moves every   *)
(* segment behind it down by its size, one memmove at a time and lowest    *)
(* first, and appends the new text behind the last segment.                *)
(*                                                                         *)
(* A byte of text t is <<t, i>>; Noise is what malloc leaves.              *)
(***************************************************************************)
EXTENDS Integers, FiniteSets

CONSTANTS Programs,  \* program slots, numbered from 0
          Texts,     \* source texts
          NoText,    \* no text: the request is a deletion
          Noise,     \* a byte that belongs to no text
          SizeOf,    \* bytes of a text
          PoolSize   \* ST_LOGIC_POOL_SIZE

ASSUME PoolAssumption ==
  /\ IsFiniteSet(Programs) /\ Programs = 0 .. Cardinality(Programs) - 1
  /\ NoText \notin Texts \cup Programs
  /\ SizeOf \in [Texts -> Nat \ {0}]
  /\ PoolSize \in Nat

VARIABLES cells,     \* source_pool
          off,       \* source_offset, None when not allocated
          len,       \* source_size
          job        \* the call in progress

vars == <<cells, off, len, job>>

None == -1
Idle == [pc |-> "idle"]

Bytes == {Noise} \cup {<<t, i>> : t \in Texts, i \in 1 .. PoolSize}
Jobs == {Idle} \cup
        [pc : {"move", "place"}, p : Programs, t : Texts \cup {NoText},
         moved : SUBSET Programs]

Allocated(p) == off[p] # None
End(p) == off[p] + len[p]

Init == /\ cells = [i \in 0 .. PoolSize - 1 |-> Noise]
        /\ off = [p \in Programs |-> None]
        /\ len = [p \in Programs |-> 0]
        /\ job = Idle

\* Mutated Start: the old segment is not freed first.
StartLeaky(p, t) == job' = [pc |-> "place", p |-> p, t |-> t, moved |-> {}]

\* A job's first step: with nothing allocated st_logic_pool_free returns.
Start(p, t) == job' = [pc |-> IF Allocated(p) THEN "move" ELSE "place",
                       p |-> p, t |-> t, moved |-> {}]

Upload(p, t) == /\ job = Idle
                /\ SizeOf[t] <= PoolSize
                /\ Start(p, t)
                /\ UNCHANGED <<cells, off, len>>

Delete(p) == /\ job = Idle
             /\ Start(p, NoText)
             /\ UNCHANGED <<cells, off, len>>

\* Segments behind the freed one that have not been moved.
Behind == {q \in Programs \ (job.moved \cup {job.p}) :
             Allocated(q) /\ off[q] > off[job.p]}

IsNext(q) == /\ q \in Behind
             /\ \A r \in Behind : off[q] <= off[r]

\* memmove of n bytes from one offset to another.
Moved(from, to, n) == [i \in 0 .. PoolSize - 1 |->
                         IF to <= i /\ i < to + n THEN cells[i + (from - to)]
                                                  ELSE cells[i]]

MoveDown(q) == /\ job.pc = "move"
               /\ IsNext(q)
               /\ LET to == off[q] - len[job.p] IN
                  /\ cells' = Moved(off[q], to, len[q])
                  /\ off' = [off EXCEPT ![q] = to]
               /\ job' = [job EXCEPT !.moved = @ \cup {q}]
               /\ UNCHANGED len

Freed == /\ job.pc = "move"
         /\ Behind = {}
         /\ off' = [off EXCEPT ![job.p] = None]
         /\ len' = [len EXCEPT ![job.p] = 0]
         /\ job' = [job EXCEPT !.pc = "place"]
         /\ UNCHANGED cells

Ends == {0} \cup {End(p) : p \in {q \in Programs : Allocated(q)}}

IsUsed(u) == u \in Ends /\ \A e \in Ends : e <= u

Fits(u) == u + SizeOf[job.t] <= PoolSize

\* The new text goes behind the last segment.
Place == /\ job.pc = "place" /\ job.t # NoText
         /\ \E u \in Ends :
              /\ IsUsed(u) /\ Fits(u)
              /\ off' = [off EXCEPT ![job.p] = u]
              /\ len' = [len EXCEPT ![job.p] = SizeOf[job.t]]
              /\ cells' = [i \in 0 .. PoolSize - 1 |->
                             IF u <= i /\ i < u + SizeOf[job.t]
                             THEN <<job.t, (i - u) + 1>> ELSE cells[i]]
         /\ job' = Idle

\* "Pool full": the old text is gone, the new one is not stored.
Refuse == /\ job.pc = "place" /\ job.t # NoText
          /\ \E u \in Ends : IsUsed(u) /\ ~Fits(u)
          /\ job' = Idle
          /\ UNCHANGED <<cells, off, len>>

Deleted == /\ job.pc = "place" /\ job.t = NoText
           /\ job' = Idle
           /\ UNCHANGED <<cells, off, len>>

Step == \/ \E q \in Programs : MoveDown(q)
        \/ Freed \/ Place \/ Refuse \/ Deleted

Next == \/ \E p \in Programs, t \in Texts : Upload(p, t)
        \/ \E p \in Programs : Delete(p)
        \/ Step

\* A call that has begun runs to its end: it never blocks.
Spec == Init /\ [][Next]_vars /\ WF_vars(Step)

-----------------------------------------------------------------------------
TypeOK == /\ cells \in [0 .. PoolSize - 1 -> Bytes]
          /\ off \in [Programs -> {None} \cup 0 .. PoolSize - 1]
          /\ len \in [Programs -> 0 .. PoolSize]
          /\ job \in Jobs

\* The program whose segment is being freed.
Freeing(p) == job.pc = "move" /\ job.p = p

\* Segment p holds text t, every byte of it and nothing else.
Holds(p, t) == /\ len[p] = SizeOf[t]
               /\ \A i \in 1 .. len[p] : cells[(off[p] + i) - 1] = <<t, i>>

\* No compaction mixes texts: between any two memmoves every segment that is
\* not being freed holds one whole text (the loss that BUG-474 repaired,
\* src/src/st_logic_config.cpp:188).
PoolIntact == \A p \in Programs : Allocated(p) /\ ~Freeing(p)
                => \E t \in Texts : Holds(p, t)

\* Between calls the segments lie end to end from offset 0: largest_free in
\* st_logic_get_pool_stats ("assumes contiguous free space") is right.
NoGaps == job = Idle => \A p \in Programs : Allocated(p) =>
            \/ off[p] = 0
            \/ \E q \in Programs : Allocated(q) /\ End(q) = off[p]

\* Segments of different programs never share a byte.
Disjoint == \A p, q \in Programs :
              p # q /\ Allocated(p) /\ Allocated(q)
                    /\ ~Freeing(p) /\ ~Freeing(q)
              => End(p) <= off[q] \/ End(q) <= off[p]

-----------------------------------------------------------------------------
(* The pool implements StSourceStore: offsets, moves and the byte array     *)
(* behave as one text per program, and a text is refused only when the      *)
(* sizes really add up to more than the pool.                               *)

\* What a reader of segment p finds there.
ReadBack(p) == IF \E t \in Texts : Holds(p, t)
               THEN CHOOSE t \in Texts : Holds(p, t) ELSE Noise

Stored == [p \in Programs |-> IF Allocated(p) /\ ~Freeing(p) THEN ReadBack(p)
                                                             ELSE NoText]

Pending == IF job = Idle THEN [p |-> NoText, t |-> NoText]
                         ELSE [p |-> job.p, t |-> job.t]

Store == INSTANCE StSourceStore WITH stored <- Stored, pending <- Pending

\* Reading a program's segment back gives the text it was given, whatever was
\* stored, replaced and deleted around it; every request is answered.
IsAStore == Store!Spec
=============================================================================
