-------------------------- MODULE MbPriorityQueue --------------------------
(***************************************************************************)
(* The bounded priority queue of the RS485 Modbus master, as operators on  *)
(* the contents of pq_buf[0 .. pq_count-1] (src/src/mb_async.cpp).         *)
(*                                                                         *)
(* A request is a record with at least the fields                          *)
(*   prio  the class it was queued in, smaller is more urgent,             *)
(*   seq   insert_seq, the insertion number, a wrapping counter,           *)
(*   age   the ticks since enqueued_ms, saturating at ExtAge.              *)
(*                                                                         *)
(* Where the code scans for an extremum, the operators here say which      *)
(* index the scan may stop at; ties go to the lower index, as in the scans.*)
(***************************************************************************)
EXTENDS Naturals, Sequences

CONSTANTS QueueLimit,     \* queue_max_size: how many requests may wait
          StarvationAge,  \* MB_STARVATION_AGE_MS, in ticks
          ExtAge          \* MB_EXT_AGE_MS, in ticks

ASSUME QueueAssumption ==
  /\ QueueLimit \in Nat \ {0}
  /\ StarvationAge \in Nat
  /\ ExtAge \in Nat
  /\ StarvationAge <= ExtAge

PrioWrite   == 0
PrioFresh   == 1
PrioRefresh == 2
PrioExt     == 3
Priorities  == PrioWrite .. PrioExt

(***************************************************************************)
(* Selection.                                                              *)
(***************************************************************************)

\* Mutant: nothing ages.
NoAgeing(r) == r.prio
\* mb_effective_priority: a REFRESH read that has waited StarvationAge counts
\* as FRESH; an EXT read that has waited ExtAge counts as REFRESH, no more.
EffectivePriority(r) ==
  CASE r.prio = PrioExt /\ r.age >= ExtAge            -> PrioRefresh
    [] r.prio = PrioRefresh /\ r.age >= StarvationAge -> PrioFresh
    [] OTHER                                          -> r.prio

\* Mutant: the newest of a class first.
BeforeNewest(a, b) ==
  \/ EffectivePriority(a) < EffectivePriority(b)
  \/ EffectivePriority(a) = EffectivePriority(b) /\ a.seq > b.seq
\* a is served before b when both wait.
Before(a, b) ==
  \/ EffectivePriority(a) < EffectivePriority(b)
  \/ EffectivePriority(a) = EffectivePriority(b) /\ a.seq < b.seq

\* mb_pq_dequeue takes the request at index i.
IsBest(q, i) ==
  /\ i \in DOMAIN q
  /\ \A j \in DOMAIN q : ~Before(q[j], q[i])
  /\ \A j \in 1 .. (i-1) : Before(q[i], q[j])

\* Mutant: the swap is forgotten.
DropLast(q, i) == SubSeq(q, 1, Len(q) - 1)
\* ... and fills the hole with the last request.
RemoveBySwap(q, i) == SubSeq([q EXCEPT ![i] = q[Len(q)]], 1, Len(q) - 1)

(***************************************************************************)
(* Insertion and eviction.                                                 *)
(***************************************************************************)

\* a is a worse victim than b: less urgent class, or newer in the same class.
\* Eviction looks at the class itself and takes no account of age.
Worse(a, b) ==
  \/ a.prio > b.prio
  \/ a.prio = b.prio /\ a.seq > b.seq

\* mb_pq_insert evicts the request at index i to make room.
IsVictim(q, i) ==
  /\ i \in DOMAIN q
  /\ \A j \in DOMAIN q : ~Worse(q[j], q[i])
  /\ \A j \in 1 .. (i-1) : Worse(q[i], q[j])

\* pq_count is below the limit.
HasRoom(q) == Len(q) < QueueLimit

\* Mutant: a request of the same class gives way too.
YieldsToPeer(q, i, r) == ~HasRoom(q) /\ IsVictim(q, i) /\ q[i].prio >= r.prio
\* A full queue gives way only to a strictly more urgent class.
Yields(q, i, r) == ~HasRoom(q) /\ IsVictim(q, i) /\ q[i].prio > r.prio

\* The queue has no place for r: mb_pq_insert returns false.
Refuses(q, r) == ~HasRoom(q) /\ \A i \in DOMAIN q : ~Yields(q, i, r)

(***************************************************************************)
(* Ageing.                                                                 *)
(***************************************************************************)
Older(r) == [r EXCEPT !.age = IF @ < ExtAge THEN @ + 1 ELSE @]
AllOlder(q) == [i \in DOMAIN q |-> Older(q[i])]
=============================================================================
