----------------------------- MODULE MCMbAsync -----------------------------
(***************************************************************************)
(* Small instances of MbAsync for TLC, and what it implements.             *)
(***************************************************************************)
EXTENDS MbAsync, SequencesExt

CONSTANTS st1, st2, ext1

MCSlaveOf == [a \in Addrs |-> 1]

Call(k, a, n, v, w) ==
  [kind |-> k, addr |-> a, n |-> n,
   vals |-> [j \in 1 .. MaxCount |-> IF j = 1 THEN v ELSE w]]

\* Reads and writes of two registers.
SingleOps == {Call("read", a, 1, 0, 0) : a \in Addrs}
        \cup {Call("write", 1, 1, v, 0) : v \in Vals \ {Zero}}
\* Two writes of a block and one of a register in it.
WriteOps == {Call("writeN", 1, 2, v, v) : v \in Vals \ {Zero}} \cup {Call("write", 1, 1, 1, 0)}
\* Reads and writes of single registers and blocks, and the administrative calls.
BlockOps == {Call("read", 1, 1, 0, 0), Call("readN", 1, 2, 0, 0),
             Call("write", 1, 1, 1, 0), Call("writeN", 1, 2, 1, 1)}
AdminOps == {Call(k, 1, 1, 0, 0) : k \in {"cacheOn", "cacheOff", "resetCache",
                                         "resetStats", "pause"}}
\* What may stay PENDING, a write that competes with it, and `mb scan`.
LiveOps == {Call("read", 1, 1, 0, 0), Call("readN", 1, 2, 0, 0),
            Call("write", 1, 1, 1, 0), Call("pause", 1, 1, 0, 0)}
AllOps == BlockOps \cup AdminOps

-----------------------------------------------------------------------------
(* MbAsync implements MbWriteFifo: the unordered buffer with its priority   *)
(* scan, eviction and swap-removal, the counting semaphore and the task's   *)
(* rounds are, for writes, a first-in first-out queue.  They are as long as *)
(* insert_seq does not wrap (MaxOps < SeqWrap), no more multi-register      *)
(* writes are made than the ring has slots, and nobody waits 10 ms for      *)
(* pq_mutex.                                                                *)

\* The write the task has taken but not yet brought to the bus.
InHand == IF /\ tpc \in {"check", "bus"}
             /\ Records(task.req.op)
          THEN <<task.req.op>> ELSE <<>>

\* The waiting writes in order of insertion.
Waiting == LET idx == {i \in DOMAIN pq : Records(pq[i].op)}
               order == SetToSortSeq(idx, LAMBDA i, j : pq[i].seq < pq[j].seq)
           IN [n \in DOMAIN order |-> pq[order[n]].op]

Fifo == INSTANCE MbWriteFifo WITH todo <- InHand \o Waiting,
                                  Writes <- {op \in Ops : Records(op)}

\* Accepted writes reach the slaves in the order in which they were accepted,
\* each once and unchanged; that they are tried at all is QueueDrains.
WritesAreFifo == Fifo!Spec
=============================================================================
