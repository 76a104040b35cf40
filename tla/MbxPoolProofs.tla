--------------------------- MODULE MbxPoolProofs ---------------------------
(***************************************************************************)
(* Proofs about MbxPool for every number of workers, channels, boards and  *)
(* connections: the types of the variables, and, as long as a worker that  *)
(* is done can always release its claim (~Leaks), that a channel is served *)
(* serially, that its writes keep their order, and that a worker's socket  *)
(* and the answer it takes are its own.                                    *)
(***************************************************************************)
EXTENDS MbxPool, SequenceTheorems, FiniteSetTheorems, WellFoundedInduction, TLAPS

(***************************************************************************)
(* Sets of numbers and sequences.                                          *)
(***************************************************************************)

\* A set of numbers has a least one: the scans for a first index find it.
LEMMA LeastOf ==
  ASSUME NEW S \in SUBSET Nat, S # {}
  PROVE  \E m \in S : \A k \in S : m <= k
<1>. DEFINE R == OpToRel(<, Nat)
<1>1. IsWellFoundedOn(R, Nat)
  BY NatLessThanWellFounded, Zenon
<1>2. \A x, y \in Nat : x < y => <<x, y>> \in R
  BY DEF OpToRel
<1>. HIDE DEF R
<1>3. PICK m \in S : \A k \in S : ~ (<<k, m>> \in R)
  BY <1>1, WFMin
<1>4. \A k \in S : ~ (k < m)
  BY <1>2, <1>3
<1>. QED
  BY <1>4

\* Swap-removal adds no request (mbx_pq_dequeue).
LEMMA RemovedFrom ==
  ASSUME NEW S, NEW q \in Seq(S), NEW i \in DOMAIN q
  PROVE  /\ RemoveBySwap(q, i) \in Seq(S)
         /\ Len(RemoveBySwap(q, i)) = Len(q) - 1
         /\ \A k \in DOMAIN RemoveBySwap(q, i) :
              \E j \in DOMAIN q : RemoveBySwap(q, i)[k] = q[j]
<1>. DEFINE n == Len(q)
            p == [q EXCEPT ![i] = q[n]]
<1>1. n \in Nat /\ DOMAIN q = 1 .. n /\ i \in 1 .. n
  BY LenProperties
<1>2. q[n] \in S
  BY <1>1, ElementOfSeq
<1>3. /\ p \in Seq(S) /\ Len(p) = n
      /\ \A j \in 1 .. n : p[j] = IF j = i THEN q[n] ELSE q[j]
  BY <1>1, <1>2, ExceptSeq
<1>4. /\ 1 \in Int /\ n-1 \in Int
      /\ \A j \in 1 .. n-1 : p[j] \in S
  BY <1>1, <1>3, ElementOfSeq
<1>5. \A k \in 1 .. n-1 : \E j \in DOMAIN q : p[k] = q[j]
  BY <1>1, <1>3
<1>. HIDE DEF p
<1>6. /\ SubSeq(p, 1, n-1) \in Seq(S)
      /\ Len(SubSeq(p, 1, n-1)) = n - 1
      /\ \A j \in 1 .. n-1 : SubSeq(p, 1, n-1)[j] = p[j]
  BY <1>1, <1>4, SubSeqProperties
<1>7. DOMAIN SubSeq(p, 1, n-1) = 1 .. n-1
  BY <1>6, <1>1, LenProperties
<1>. QED
  BY <1>5, <1>6, <1>7 DEF RemoveBySwap, p

(***************************************************************************)
(* Types.  Located says what a worker holds where it is.                   *)
(***************************************************************************)
Labels == Busy \cup {"top", "take", "reap", "reaping"}
Locking == {"reaping", "scan"}

Located ==
  \A w \in Workers :
    /\ pc[w] \in Busy => loc[w].req \in Request
    /\ pc[w] \in Using => loc[w].slot \in SlotSet
    /\ pc[w] \in {"check", "slot"} => loc[w].at = 1 /\ loc[w].idle = {}
    /\ pc[w] \in Locking => connLock = w

LEMMA FreshType == Fresh \in Locals /\ Fresh.at = 1 /\ Fresh.idle = {}
BY PoolAssumption DEF Fresh, Locals, Results, SlotSet

\* Updating one local variable.
LEMMA LocalFields ==
  ASSUME NEW l \in Locals
  PROVE  /\ \A x \in Request : [l EXCEPT !.req = x] \in Locals
         /\ \A x \in Addresses : [l EXCEPT !.ip = x] \in Locals
         /\ \A x \in SlotSet : [l EXCEPT !.slot = x] \in Locals
         /\ \A x \in 1 .. Slots + 1 : [l EXCEPT !.at = x] \in Locals
         /\ \A x \in SUBSET SlotSet : [l EXCEPT !.idle = x] \in Locals
         /\ \A x \in Results : [l EXCEPT !.result = x] \in Locals
         /\ \A x \in Nat : [l EXCEPT !.got = x] \in Locals
BY PoolAssumption DEF Locals, SlotSet

\* Updating one field of a connection.
LEMMA ConnectionFields ==
  ASSUME NEW k \in Connection
  PROVE  /\ \A c \in Channels : [k EXCEPT !.chan = c] \in Connection
         /\ \A x \in Seq(Nat) : [k EXCEPT !.wire = x] \in Connection
         /\ Closed(k) \in Connection
         /\ \A ip \in Addresses \cup {NoAddress} :
              [k EXCEPT !.open = TRUE, !.wire = <<>>, !.peer = ip] \in Connection
BY EmptySeq DEF Connection, Closed

\* One worker moves on: the others stay where they are.
Moves(w, p, l) == /\ pc' = [pc EXCEPT ![w] = p]
                  /\ loc' = [loc EXCEPT ![w] = l]
LockMoves(w, p) ==
  \/ connLock' = connLock /\ (p \in Locking => pc[w] \in Locking)
  \/ connLock = NoWorker /\ connLock' = w
  \/ connLock = w /\ connLock' = NoWorker /\ p \notin Locking

LEMMA MoveTypes ==
  ASSUME TypeOK, Located, NEW w \in Workers, NEW p \in Labels, NEW l \in Locals,
         Moves(w, p, l), LockMoves(w, p),
         p \in Busy => l.req \in Request,
         p \in Using => l.slot \in SlotSet,
         p \in {"check", "slot"} => l.at = 1 /\ l.idle = {}
  PROVE  /\ pc' \in [Workers -> Labels] /\ loc' \in [Workers -> Locals]
         /\ connLock' \in Workers \cup {NoWorker}
         /\ Located'
<1>1. /\ pc \in [Workers -> Labels] /\ loc \in [Workers -> Locals]
      /\ connLock \in Workers \cup {NoWorker}
  BY DEF TypeOK, Labels
<1>2. connLock' \in Workers \cup {NoWorker}
  BY <1>1 DEF LockMoves
<1>3. pc' \in [Workers -> Labels] /\ loc' \in [Workers -> Locals]
  BY <1>1 DEF Moves
<1>4. \A v \in Workers : pc'[v] = (IF v = w THEN p ELSE pc[v])
                         /\ loc'[v] = (IF v = w THEN l ELSE loc[v])
  BY <1>1 DEF Moves
<1>5. ASSUME NEW v \in Workers, pc'[v] \in Locking PROVE connLock' = v
  BY <1>1, <1>4, <1>5, PoolAssumption DEF LockMoves, Located
<1>. QED
  BY <1>2, <1>3, <1>4, <1>5 DEF Located

\* The parts of the state other than the workers' places and variables.
queueTypes == /\ pq \in Seq(Request) /\ Len(pq) <= QueueLimit
              /\ nreq \in 0 .. MaxReqs
              /\ inflight \in [Claims -> Channels \cup {NoChannel}]
connTypes == /\ conn \in [SlotSet -> Connection]
             /\ lru \in [SlotSet -> SlotSet]
restTypes == /\ config \in [Boards -> Addresses \cup {NoAddress}]
             /\ paused \in BOOLEAN
             /\ backoff \in [Channels -> SUBSET {"slave", "register"}]
             /\ edits \in 0 .. MaxEdits /\ pauses \in 0 .. MaxPauses
workerTypes == /\ pc \in [Workers -> Labels] /\ loc \in [Workers -> Locals]
               /\ connLock \in Workers \cup {NoWorker}

LEMMA TypeParts ==
  /\ TypeOK <=> queueTypes /\ connTypes /\ restTypes /\ workerTypes
  /\ TypeOK' <=> queueTypes' /\ connTypes' /\ restTypes' /\ workerTypes'
BY DEF TypeOK, queueTypes, connTypes, restTypes, workerTypes, Labels

LEMMA QueueSame == queueTypes /\ UNCHANGED queueVars => queueTypes'
BY DEF queueTypes, queueVars
LEMMA ConnSame == connTypes /\ UNCHANGED <<conn, lru>> => connTypes'
BY DEF connTypes
LEMMA RestSame == restTypes /\ UNCHANGED <<config, paused, backoff, bounds>> => restTypes'
BY DEF restTypes, bounds
LEMMA WorkersSame == /\ workerTypes /\ Located /\ UNCHANGED <<pc, loc, connLock>>
                     => workerTypes' /\ Located'
BY DEF workerTypes, Located

\* What a worker holds.
LEMMA Held ==
  ASSUME TypeOK, Located, NEW w \in Workers
  PROVE  /\ loc[w] \in Locals /\ pc[w] \in Labels
         /\ loc[w].at \in 1 .. Slots + 1 /\ loc[w].idle \in SUBSET SlotSet
         /\ loc[w].ip \in Addresses \cup {NoAddress} /\ loc[w].result \in Results
         /\ pc[w] \in Busy => /\ loc[w].req \in Request
                              /\ loc[w].req.chan \in Channels
                              /\ loc[w].req.prio \in Priorities
                              /\ loc[w].req.seq \in Nat
         /\ pc[w] \in Using => loc[w].slot \in SlotSet
         /\ \A s \in SlotSet : conn[s] \in Connection
BY DEF TypeOK, Located, Locals, Request, Labels

LEMMA Slot1 == 1 \in SlotSet /\ Slots \in Nat /\ Slots >= 1
BY PoolAssumption DEF SlotSet

(***************************************************************************)
(* Types: callers, the command line, the boards.                           *)
(***************************************************************************)
LEMMA RequestType ==
  ASSUME queueTypes, NEW c \in Channels, NEW p \in Classes
  PROVE  [chan |-> c, prio |-> p, age |-> 0, seq |-> nreq] \in Request
BY PoolAssumption DEF queueTypes, Request

LEMMA QueueTypes ==
  ASSUME TypeOK, Located, NEW c \in Channels, NEW p \in Classes, Queue(c, p)
  PROVE  TypeOK' /\ Located'
<1>. DEFINE r == [chan |-> c, prio |-> p, age |-> 0, seq |-> nreq]
<1>1. queueTypes /\ connTypes /\ restTypes /\ workerTypes
  BY TypeParts
<1>2. r \in Request
  BY <1>1, RequestType
<1>3. DOMAIN pq = 1 .. Len(pq) /\ Len(pq) \in Nat
  BY <1>1, LenProperties DEF queueTypes
<1>4. pq' \in Seq(Request) /\ Len(pq') <= QueueLimit
  <2>1. CASE HasRoom(pq) /\ pq' = Append(pq, r)
    BY <1>1, <1>2, <1>3, <2>1, AppendProperties, QueueAssumption DEF HasRoom, queueTypes
  <2>2. CASE \E i \in DOMAIN pq : Yields(pq, i, r) /\ pq' = [pq EXCEPT ![i] = r]
    BY <1>1, <1>2, <1>3, <2>2, ExceptSeq DEF queueTypes
  <2>3. CASE UNCHANGED pq
    BY <1>1, <2>3 DEF queueTypes
  <2>. QED
    BY <2>1, <2>2, <2>3 DEF Queue
<1>5. queueTypes'
  BY <1>1, <1>4, PoolAssumption DEF Queue, queueTypes
<1>6. connTypes' /\ restTypes' /\ workerTypes' /\ Located'
  BY <1>1, ConnSame, RestSame, WorkersSame DEF Queue, connVars
<1>. QED
  BY <1>5, <1>6, TypeParts

LEMMA OutsideTypes ==
  ASSUME TypeOK, Located,
         \/ Pause \/ Unpause
         \/ \E b \in Boards, ip \in Addresses \cup {NoAddress} : EditBoard(b, ip)
         \/ \E s \in SlotSet : Drop(s)
  PROVE  TypeOK' /\ Located'
<1>1. queueTypes /\ connTypes /\ restTypes /\ workerTypes
  BY TypeParts
<1>2. queueTypes' /\ workerTypes' /\ Located'
  BY <1>1, QueueSame, WorkersSame DEF Pause, Unpause, EditBoard, Drop, connVars
<1>3. connTypes'
  <2>1. ASSUME NEW s \in SlotSet, Drop(s) PROVE connTypes'
    <3>1. Closed(conn[s]) \in Connection
      BY <1>1, ConnectionFields DEF connTypes
    <3>. QED
      BY <1>1, <2>1, <3>1 DEF Drop, connTypes
  <2>2. CASE UNCHANGED connVars
    BY <1>1, <2>2, ConnSame DEF connVars
  <2>. QED
    BY <2>1, <2>2 DEF Pause, Unpause, EditBoard
<1>4. restTypes'
  <2>1. CASE Pause \/ Unpause
    <3>1. paused' \in BOOLEAN
      BY <2>1 DEF Pause, Unpause
    <3>2. UNCHANGED <<config, backoff, edits>>
      BY <2>1 DEF Pause, Unpause, bounds
    <3>3. pauses' \in 0 .. MaxPauses
      BY <1>1, <2>1, PoolAssumption DEF Pause, Unpause, bounds, restTypes
    <3>. QED
      BY <1>1, <3>1, <3>2, <3>3 DEF restTypes
  <2>2. ASSUME NEW b \in Boards, NEW ip \in Addresses \cup {NoAddress}, EditBoard(b, ip)
        PROVE  restTypes'
    BY <1>1, <2>2, PoolAssumption DEF EditBoard, restTypes
  <2>3. ASSUME NEW s \in SlotSet, Drop(s) PROVE restTypes'
    BY <1>1, <2>3, RestSame DEF Drop
  <2>. QED
    BY <2>1, <2>2, <2>3
<1>. QED
  BY <1>2, <1>3, <1>4, TypeParts

(***************************************************************************)
(* Types: the workers.                                                     *)
(***************************************************************************)

\* A worker that only moves, or only changes its own variables.
LEMMA LocalTypes ==
  ASSUME TypeOK, Located, NEW w \in Workers,
         NEW p \in Labels, NEW l \in Locals, Moves(w, p, l), LockMoves(w, p),
         p \in Busy => l.req \in Request,
         p \in Using => l.slot \in SlotSet,
         p \in {"check", "slot"} => l.at = 1 /\ l.idle = {},
         queueTypes', connTypes', restTypes'
  PROVE  TypeOK' /\ Located'
BY MoveTypes, TypeParts DEF workerTypes

LEMMA GotoMoves ==
  ASSUME TypeOK, NEW w \in Workers, NEW p, Goto(w, p), UNCHANGED loc
  PROVE  Moves(w, p, loc[w])
BY DEF TypeOK, Goto, Moves

LEMMA StaysMoves ==
  ASSUME TypeOK, NEW w \in Workers, NEW l, UNCHANGED pc, loc' = [loc EXCEPT ![w] = l]
  PROVE  Moves(w, pc[w], l)
BY DEF TypeOK, Moves

LEMMA ResultMoves ==
  ASSUME TypeOK, NEW w \in Workers, NEW res \in Results, Result(w, res)
  PROVE  /\ Moves(w, "finish", [loc[w] EXCEPT !.result = res])
         /\ [loc[w] EXCEPT !.result = res] \in Locals
         /\ [loc[w] EXCEPT !.result = res].req = loc[w].req
<1>1. loc[w] \in Locals
  BY DEF TypeOK
<1>. QED
  BY <1>1, LocalFields DEF TypeOK, Result, Goto, Moves, Locals

LEMMA TopTypes ==
  ASSUME TypeOK, Located, NEW w \in Workers, Top(w)
  PROVE  TypeOK' /\ Located'
<1>1. queueTypes' /\ connTypes' /\ restTypes'
  BY TypeParts, QueueSame, ConnSame, RestSame DEF Top, connVars
<1>2. PICK p \in {"take", "reap"} : Goto(w, p)
  BY DEF Top
<1>3. Moves(w, p, loc[w]) /\ LockMoves(w, p)
  BY <1>2, GotoMoves DEF Top, connVars, LockMoves, Locking
<1>4. p \in Labels /\ p \notin Busy /\ p \notin Using
  BY DEF Labels, Busy, Using
<1>5. loc[w] \in Locals
  BY Held
<1>. QED
  BY <1>1, <1>3, <1>4, <1>5, LocalTypes, Zenon

LEMMA ReapTypes ==
  ASSUME TypeOK, Located, NEW w \in Workers, Reap(w)
  PROVE  TypeOK' /\ Located'
<1>0. /\ "take" \in Labels /\ "take" \notin Busy /\ "take" \notin Using
      /\ "take" \notin {"check", "slot"} /\ "take" \notin Locking
      /\ "reaping" \in Labels /\ "reaping" \notin Busy /\ "reaping" \notin Using
      /\ "reaping" \notin {"check", "slot"} /\ "reaping" \in Locking
  BY DEF Labels, Busy, Using, Locking
<1>1. queueTypes' /\ restTypes'
  BY TypeParts, QueueSame, RestSame DEF Reap, ReapLock, ReapSlot, ReapEnd
<1>2. loc[w] \in Locals
  BY Held
<1>3. CASE ReapLock(w)
  <2>1. connTypes'
    BY <1>3, TypeParts, ConnSame DEF ReapLock
  <2>2. CASE connLock' = w /\ connLock = NoWorker
    <3>. DEFINE l == [Fresh EXCEPT !.at = 1]
    <3>1. l \in Locals
      BY FreshType, LocalFields, Slot1, PoolAssumption DEF SlotSet
    <3>2. Moves(w, "reaping", l) /\ LockMoves(w, "reaping")
      BY <1>3, <2>2, PoolAssumption DEF ReapLock, Moves, Goto, LockMoves
    <3>. QED
      BY <1>0, <1>1, <2>1, <3>1, <3>2, LocalTypes, Zenon
  <2>3. CASE Goto(w, "take") /\ UNCHANGED <<connLock, loc>>
    <3>1. Moves(w, "take", loc[w]) /\ LockMoves(w, "take")
      BY <2>3, <1>0, GotoMoves DEF LockMoves
    <3>. QED
      BY <1>0, <1>1, <1>2, <2>1, <3>1, LocalTypes, Zenon
  <2>. QED
    BY <1>3, <2>2, <2>3 DEF ReapLock
<1>4. CASE ReapSlot(w)
  <2>. DEFINE l == [loc[w] EXCEPT !.at = loc[w].at + 1]
  <2>1. connTypes'
    <3>1. \A s \in SlotSet : Closed(conn[s]) \in Connection
      BY Held, ConnectionFields
    <3>. QED
      BY <1>4, <3>1, TypeParts DEF ReapSlot, connTypes
  <2>2. l \in Locals
    <3>1. loc[w].at + 1 \in 1 .. Slots + 1
      BY <1>4, PoolAssumption DEF ReapSlot, SlotSet
    <3>. QED
      BY <1>2, <3>1, LocalFields
  <2>3. pc[w] = "reaping" /\ UNCHANGED <<pc, connLock>>
    BY <1>4 DEF ReapSlot
  <2>4. loc' = [loc EXCEPT ![w] = l]
    BY <1>4 DEF ReapSlot
  <2>5. Moves(w, "reaping", l) /\ LockMoves(w, "reaping")
    BY <2>3, <2>4, StaysMoves DEF LockMoves
  <2>. QED
    BY <1>0, <1>1, <2>1, <2>2, <2>5, LocalTypes, Zenon
<1>5. CASE ReapEnd(w)
  <2>1. connTypes'
    BY <1>5, TypeParts, ConnSame DEF ReapEnd
  <2>2. Moves(w, "take", Fresh)
    BY <1>5 DEF ReapEnd, Moves, Goto
  <2>3. LockMoves(w, "take")
    BY <1>5, <1>0 DEF ReapEnd, LockMoves, Located
  <2>. QED
    BY <1>0, <1>1, <2>1, <2>2, <2>3, FreshType, LocalTypes, Zenon
<1>. QED
  BY <1>3, <1>4, <1>5 DEF Reap

(***************************************************************************)
(* The claims.                                                             *)
(***************************************************************************)
LEMMA ClaimNumbers == Cardinality(Workers) \in Nat /\ Claims = 1 .. Cardinality(Workers)
BY PoolAssumption, FS_CardinalityType DEF Claims

\* mbx_pq_dequeue puts the channel in a free place, if there is one.
LEMMA ClaimedPlace ==
  ASSUME queueTypes, NEW c \in Channels
  PROVE  \/ /\ \A i \in Claims : inflight[i] # NoChannel
            /\ Claimed(c) = inflight
         \/ \E i \in Claims : /\ inflight[i] = NoChannel
                              /\ Claimed(c) = [inflight EXCEPT ![i] = c]
<1>1. CASE NoChannel \in {inflight[i] : i \in Claims}
  <2>. DEFINE k == CHOOSE i \in Claims : /\ inflight[i] = NoChannel
                                         /\ \A j \in 1 .. i-1 : inflight[j] # NoChannel
  <2>0. \E i \in Claims : inflight[i] = NoChannel /\ \A j \in 1 .. i-1 : inflight[j] # NoChannel
    <3>. DEFINE n == Cardinality(Workers)
    <3>1. n \in Nat /\ Claims = 1 .. n
      BY ClaimNumbers
    <3>2. \E i \in 1 .. n : inflight[i] = NoChannel
      BY <1>1, <3>1
    <3>. DEFINE S == {i \in 1 .. n : inflight[i] = NoChannel}
    <3>. HIDE DEF n
    <3>4. S \in SUBSET Nat /\ S # {}
      BY <3>1, <3>2
    <3>5. PICK m \in S : \A s \in S : m <= s
      <4>. HIDE DEF S
      <4>. QED
        BY <3>4, LeastOf
    <3>3. \E i \in 1 .. n : inflight[i] = NoChannel /\ \A j \in 1 .. i-1 : inflight[j] # NoChannel
      <4>1. m \in 1 .. n /\ inflight[m] = NoChannel
        OBVIOUS
      <4>2. \A j \in 1 .. m-1 : inflight[j] # NoChannel
        BY <3>1, <3>5, <4>1
      <4>. QED
        BY <4>1, <4>2
    <3>. QED
      BY <3>1, <3>3
  <2>1. k \in Claims /\ inflight[k] = NoChannel
    BY <2>0
  <2>2. Claimed(c) = [inflight EXCEPT ![k] = c]
    BY <1>1 DEF Claimed
  <2>. QED
    BY <2>1, <2>2
<1>2. CASE NoChannel \notin {inflight[i] : i \in Claims}
  BY <1>2 DEF Claimed
<1>. QED
  BY <1>1, <1>2

\* mbx_inflight_clear frees a place the channel had.
LEMMA ClearedPlace ==
  ASSUME queueTypes, NEW c \in Channels
  PROVE  \/ ~IsClaimed(c) /\ Cleared(c) = inflight
         \/ \E i \in Claims : /\ inflight[i] = c
                              /\ Cleared(c) = [inflight EXCEPT ![i] = NoChannel]
<1>1. CASE IsClaimed(c)
  <2>. DEFINE k == CHOOSE i \in Claims : /\ inflight[i] = c
                                         /\ \A j \in 1 .. i-1 : inflight[j] # c
  <2>0. \E i \in Claims : inflight[i] = c /\ \A j \in 1 .. i-1 : inflight[j] # c
    <3>. DEFINE n == Cardinality(Workers)
    <3>1. n \in Nat /\ Claims = 1 .. n
      BY ClaimNumbers
    <3>2. \E i \in 1 .. n : inflight[i] = c
      BY <1>1, <3>1 DEF IsClaimed
    <3>. DEFINE S == {i \in 1 .. n : inflight[i] = c}
    <3>. HIDE DEF n
    <3>4. S \in SUBSET Nat /\ S # {}
      BY <3>1, <3>2
    <3>5. PICK m \in S : \A s \in S : m <= s
      <4>. HIDE DEF S
      <4>. QED
        BY <3>4, LeastOf
    <3>3. \E i \in 1 .. n : inflight[i] = c /\ \A j \in 1 .. i-1 : inflight[j] # c
      <4>1. m \in 1 .. n /\ inflight[m] = c
        OBVIOUS
      <4>2. \A j \in 1 .. m-1 : inflight[j] # c
        BY <3>1, <3>5, <4>1
      <4>. QED
        BY <4>1, <4>2
    <3>. QED
      BY <3>1, <3>3
  <2>1. k \in Claims /\ inflight[k] = c
    BY <2>0
  <2>2. Cleared(c) = [inflight EXCEPT ![k] = NoChannel]
    BY <1>1 DEF Cleared
  <2>. QED
    BY <2>1, <2>2
<1>2. CASE ~IsClaimed(c)
  BY <1>2 DEF Cleared
<1>. QED
  BY <1>1, <1>2

LEMMA ClaimTypes ==
  ASSUME queueTypes, NEW c \in Channels
  PROVE  /\ Claimed(c) \in [Claims -> Channels \cup {NoChannel}]
         /\ Cleared(c) \in [Claims -> Channels \cup {NoChannel}]
BY ClaimedPlace, ClearedPlace DEF queueTypes

LEMMA ReleaseTypes ==
  ASSUME queueTypes, NEW c \in Channels, Release(c), UNCHANGED <<pq, nreq>>
  PROVE  queueTypes'
BY ClaimTypes DEF Release, queueTypes

(***************************************************************************)
(* Types: taking a request and being done with it.                         *)
(***************************************************************************)

\* What a worker has taken, and from where.
LEMMA Taken ==
  ASSUME TypeOK, NEW w \in Workers, Take(w)
  PROVE  \E i \in DOMAIN pq :
           /\ pq[i] \in Request /\ ~IsClaimed(pq[i].chan)
           /\ \A j \in DOMAIN pq : ~IsClaimed(pq[j].chan) => ~Before(pq[j], pq[i])
           /\ pq' = RemoveBySwap(pq, i)
           /\ inflight' = Claimed(pq[i].chan)
           /\ Moves(w, "check", [Fresh EXCEPT !.req = pq[i]])
<1>1. pq \in Seq(Request)
  BY DEF TypeOK
<1>2. \A i \in DOMAIN pq : pq[i] \in Request
  BY <1>1, LenProperties, ElementOfSeq
<1>3. PICK i \in Takeable :
         /\ \A j \in Takeable : ~Before(pq[j], pq[i])
         /\ pq' = RemoveBySwap(pq, i)
         /\ inflight' = Claimed(pq[i].chan)
         /\ loc' = [loc EXCEPT ![w] = [Fresh EXCEPT !.req = pq[i]]]
  BY DEF Take
<1>4. i \in DOMAIN pq /\ ~IsClaimed(pq[i].chan)
  BY DEF Takeable
<1>5. \A j \in DOMAIN pq : ~IsClaimed(pq[j].chan) => ~Before(pq[j], pq[i])
  BY <1>3 DEF Takeable
<1>6. Moves(w, "check", [Fresh EXCEPT !.req = pq[i]])
  BY <1>3 DEF Take, Goto, Moves
<1>. QED
  BY <1>2, <1>3, <1>4, <1>5, <1>6

LEMMA TakeTypes ==
  ASSUME TypeOK, Located, NEW w \in Workers, Take(w)
  PROVE  TypeOK' /\ Located'
<1>1. queueTypes
  BY TypeParts
<1>2. PICK i \in DOMAIN pq :
           /\ pq[i] \in Request
           /\ pq' = RemoveBySwap(pq, i)
           /\ inflight' = Claimed(pq[i].chan)
           /\ Moves(w, "check", [Fresh EXCEPT !.req = pq[i]])
  BY Taken
<1>. DEFINE l == [Fresh EXCEPT !.req = pq[i]]
<1>3. l \in Locals /\ l.req \in Request /\ l.at = 1 /\ l.idle = {}
  <2>1. l \in Locals
    BY <1>2, FreshType, LocalFields
  <2>. QED
    BY <1>2, <2>1 DEF Fresh
<1>4. pq[i].chan \in Channels
  BY <1>2 DEF Request
<1>5. queueTypes'
  <2>1. pq' \in Seq(Request) /\ Len(pq') = Len(pq) - 1 /\ Len(pq) \in Nat
    BY <1>1, <1>2, RemovedFrom, LenProperties DEF queueTypes
  <2>2. Len(pq') <= QueueLimit
    BY <1>1, <2>1, QueueAssumption DEF queueTypes
  <2>3. inflight' \in [Claims -> Channels \cup {NoChannel}]
    BY <1>1, <1>2, <1>4, ClaimTypes
  <2>. QED
    BY <1>1, <2>1, <2>2, <2>3 DEF Take, queueTypes
<1>6. connTypes' /\ restTypes'
  BY TypeParts, ConnSame, RestSame DEF Take, connVars
<1>7. LockMoves(w, "check")
  BY DEF Take, connVars, LockMoves, Locking
<1>8. "check" \in Labels /\ "check" \notin Using
  BY DEF Labels, Busy, Using
<1>. QED
  BY <1>2, <1>3, <1>5, <1>6, <1>7, <1>8, LocalTypes, Zenon

LEMMA TakeNoneTypes ==
  ASSUME TypeOK, Located, NEW w \in Workers, TakeNone(w)
  PROVE  TypeOK' /\ Located'
<1>1. queueTypes' /\ connTypes' /\ restTypes'
  BY TypeParts, QueueSame, ConnSame, RestSame DEF TakeNone, connVars
<1>2. Moves(w, "top", loc[w])
  BY GotoMoves DEF TakeNone
<1>3. LockMoves(w, "top")
  BY DEF TakeNone, connVars, LockMoves, Locking
<1>4. "top" \in Labels /\ "top" \notin Busy /\ "top" \notin Using /\ "top" \notin {"check", "slot"}
  BY DEF Labels, Busy, Using
<1>5. loc[w] \in Locals
  BY Held
<1>. QED
  BY <1>1, <1>2, <1>3, <1>4, <1>5, LocalTypes, Zenon

LEMMA BackoffTypes ==
  ASSUME NEW r, NEW res, NEW b \in SUBSET {"slave", "register"}
  PROVE  BackoffAfter(r, res, b) \in SUBSET {"slave", "register"}
BY DEF BackoffAfter

\* Skip and Finish: the worker goes back to the top with nothing.
LEMMA DoneTypes ==
  ASSUME TypeOK, Located, NEW w \in Workers, Skip(w) \/ Finish(w)
  PROVE  TypeOK' /\ Located'
<1>1. loc[w].req.chan \in Channels
  BY Held DEF Skip, Finish, Busy
<1>2. queueTypes'
  BY <1>1, TypeParts, ReleaseTypes DEF Skip, Finish
<1>3. connTypes'
  BY TypeParts, ConnSame DEF Skip, Finish, connVars
<1>4. restTypes'
  <2>1. CASE Skip(w)
    BY <2>1, TypeParts, RestSame DEF Skip
  <2>2. CASE Finish(w)
    BY <1>1, <2>2, TypeParts, BackoffTypes DEF Finish, restTypes, bounds
  <2>. QED
    BY <2>1, <2>2
<1>5. Moves(w, "top", Fresh)
  BY DEF Skip, Finish, Moves, Goto
<1>6. LockMoves(w, "top")
  BY DEF Skip, Finish, connVars, LockMoves, Locking
<1>7. "top" \in Labels /\ "top" \notin Busy /\ "top" \notin Using /\ "top" \notin {"check", "slot"}
  BY DEF Labels, Busy, Using
<1>. QED
  BY <1>2, <1>3, <1>4, <1>5, <1>6, <1>7, FreshType, LocalTypes, Zenon

(***************************************************************************)
(* Types: one request on its connection.                                   *)
(***************************************************************************)
\* Where the worker may go, and that its request goes with it.
LEMMA ServingLabels ==
  /\ Busy \subseteq Labels /\ Using \subseteq Busy
  /\ \A p \in Using : p \notin {"check", "slot"} /\ p \notin Locking
  /\ "finish" \in Busy /\ "finish" \notin Using /\ "finish" \notin {"check", "slot"}
  /\ "finish" \notin Locking
  /\ "slot" \in Busy /\ "slot" \notin Using /\ "slot" \notin Locking
  /\ "scan" \in Busy /\ "scan" \notin Using /\ "scan" \notin {"check", "slot"}
  /\ "scan" \in Locking
BY DEF Labels, Busy, Using, Locking

LEMMA FinishTypes ==
  ASSUME TypeOK, Located, NEW w \in Workers, NEW l \in Locals, pc[w] \in Busy,
         Moves(w, "finish", l), LockMoves(w, "finish"), l.req = loc[w].req,
         queueTypes', connTypes', restTypes'
  PROVE  TypeOK' /\ Located'
<1>1. l.req \in Request
  BY Held
<1>. QED
  BY <1>1, ServingLabels, LocalTypes, Zenon

LEMMA ResultTypes ==
  ASSUME TypeOK, Located, NEW w \in Workers, NEW res \in Results, pc[w] \in Busy,
         Result(w, res), LockMoves(w, "finish"), queueTypes', connTypes', restTypes'
  PROVE  TypeOK' /\ Located'
BY ResultMoves, FinishTypes

LEMMA BeginTypes ==
  ASSUME TypeOK, Located, NEW w \in Workers, Begin(w)
  PROVE  TypeOK' /\ Located'
<1>. DEFINE ip == config[BoardOf[loc[w].req.chan]]
            l == [loc[w] EXCEPT !.ip = ip]
<1>1. queueTypes' /\ connTypes' /\ restTypes'
  BY TypeParts, QueueSame, ConnSame, RestSame DEF Begin, connVars
<1>2. pc[w] = "check" /\ pc[w] \in Busy
  BY DEF Begin, Busy
<1>3. loc[w] \in Locals /\ loc[w].req \in Request /\ loc[w].at = 1 /\ loc[w].idle = {}
  BY <1>2, Held DEF Located
<1>4. UNCHANGED connLock
  BY DEF Begin, connVars
<1>5. CASE Result(w, "invalid")
  BY <1>1, <1>2, <1>4, <1>5, ResultTypes, ServingLabels DEF LockMoves, Results
<1>6. CASE ip # NoAddress /\ Goto(w, "slot") /\ loc' = [loc EXCEPT ![w].ip = ip]
  <2>1. ip \in Addresses
    <3>1. loc[w].req.chan \in Channels
      BY <1>3 DEF Request
    <3>. QED
      BY <1>6, <3>1, PoolAssumption DEF TypeOK
  <2>2. l \in Locals
    BY <1>3, <2>1, LocalFields
  <2>3. l.req = loc[w].req /\ l.at = loc[w].at /\ l.idle = loc[w].idle
    BY <1>3 DEF Locals
  <2>4. Moves(w, "slot", l)
    <3>. HIDE DEF ip
    <3>. QED
      BY <1>6 DEF Moves, Goto
  <2>5. LockMoves(w, "slot")
    BY <1>4, ServingLabels DEF LockMoves
  <2>. QED
    BY <1>1, <1>3, <2>2, <2>3, <2>4, <2>5, ServingLabels, LocalTypes
<1>. QED
  BY <1>5, <1>6 DEF Begin

\* The slot mbx_get_or_evict_slot finds without a scan: that of the channel,
\* or one that is free.
LEMMA FoundSlot ==
  ASSUME TypeOK, Located, NEW w \in Workers, GetSlot(w)
  PROVE  \E s \in SlotSet :
           /\ conn[s].chan \in {NoChannel, loc[w].req.chan}
           /\ conn' = [conn EXCEPT ![s].chan = loc[w].req.chan]
           /\ Moves(w, "connect", [loc[w] EXCEPT !.slot = s])
<1>. DEFINE own == {s \in SlotSet : conn[s].chan = loc[w].req.chan}
            S == IF own # {} THEN own ELSE FreeSlots
            s == FirstOf(S)
<1>1. S \subseteq SlotSet /\ S # {} /\ \A t \in S : conn[t].chan \in {NoChannel, loc[w].req.chan}
  BY DEF GetSlot, FreeSlots
<1>2. S \in SUBSET Nat
  BY <1>1, Slot1 DEF SlotSet
<1>. HIDE DEF S
<1>3. \E m \in S : \A k \in S : m <= k
  BY <1>1, <1>2, LeastOf
<1>4. s \in S
  BY <1>3 DEF FirstOf
<1>5. /\ conn' = [conn EXCEPT ![s].chan = loc[w].req.chan]
      /\ loc' = [loc EXCEPT ![w].slot = s] /\ Goto(w, "connect")
  BY DEF GetSlot, S
<1>. HIDE DEF s
<1>6. Moves(w, "connect", [loc[w] EXCEPT !.slot = s])
  BY <1>5 DEF Moves, Goto
<1>. QED
  BY <1>1, <1>4, <1>5, <1>6

\* A connection of a worker changes and keeps its type.
LEMMA ConnTypes ==
  ASSUME connTypes, NEW s \in SlotSet, NEW k \in Connection,
         conn' = [conn EXCEPT ![s] = k], lru' \in [SlotSet -> SlotSet]
  PROVE  connTypes'
BY DEF connTypes

LEMMA GetSlotTypes ==
  ASSUME TypeOK, Located, NEW w \in Workers, GetSlot(w)
  PROVE  TypeOK' /\ Located'
<1>1. queueTypes' /\ restTypes'
  BY TypeParts, QueueSame, RestSame DEF GetSlot
<1>2. pc[w] = "slot" /\ pc[w] \in Busy /\ UNCHANGED <<connLock, lru>>
  BY DEF GetSlot, Busy
<1>3. loc[w] \in Locals /\ loc[w].req \in Request /\ loc[w].req.chan \in Channels
  BY <1>2, Held
<1>4. PICK s \in SlotSet :
           /\ conn' = [conn EXCEPT ![s].chan = loc[w].req.chan]
           /\ Moves(w, "connect", [loc[w] EXCEPT !.slot = s])
  BY FoundSlot
<1>. DEFINE l == [loc[w] EXCEPT !.slot = s]
            k == [conn[s] EXCEPT !.chan = loc[w].req.chan]
<1>5. l \in Locals /\ l.req = loc[w].req /\ l.slot = s
  <2>1. l \in Locals
    BY <1>3, <1>4, LocalFields
  <2>. QED
    BY <1>3, <2>1 DEF Locals
<1>6. connTypes'
  <2>1. connTypes /\ lru \in [SlotSet -> SlotSet]
    BY TypeParts DEF connTypes
  <2>2. k \in Connection
    BY <1>3, <1>4, Held, ConnectionFields
  <2>3. conn' = [conn EXCEPT ![s] = k]
    BY <1>4
  <2>. QED
    BY <1>2, <2>1, <2>2, <2>3, ConnTypes
<1>7. LockMoves(w, "connect")
  BY <1>2 DEF LockMoves, Locking
<1>8. "connect" \in Using
  BY DEF Using
<1>. QED
  BY <1>1, <1>3, <1>4, <1>5, <1>6, <1>7, <1>8, ServingLabels, LocalTypes

\* A look at one slot: it may be one more that is not in flight.
LEMMA ScanMoves ==
  ASSUME TypeOK, Located, NEW w \in Workers, Scan(w)
  PROVE  \E idle \in SUBSET SlotSet :
           /\ Moves(w, "scan", [loc[w] EXCEPT !.at = loc[w].at + 1, !.idle = idle])
           /\ \A s \in idle : s \in loc[w].idle \/ LooksIdle(conn[s].chan)
<1>. DEFINE s == loc[w].at
<1>1. /\ loc[w] \in Locals /\ loc[w].idle \in SUBSET SlotSet /\ s \in SlotSet
      /\ pc[w] = "scan" /\ UNCHANGED pc
  BY Held DEF Scan
<1>2. CASE loc' = [loc EXCEPT ![w].at = s + 1]
  <2>1. loc' = [loc EXCEPT ![w] = [@ EXCEPT !.at = s + 1, !.idle = loc[w].idle]]
    BY <1>1, <1>2 DEF TypeOK, Locals
  <2>. QED
    BY <1>1, <2>1, StaysMoves
<1>3. CASE /\ LooksIdle(conn[s].chan)
           /\ loc' = [loc EXCEPT ![w].at = s + 1, ![w].idle = @ \cup {s}]
  <2>1. loc' = [loc EXCEPT ![w] = [@ EXCEPT !.at = s + 1, !.idle = loc[w].idle \cup {s}]]
    BY <1>1, <1>3 DEF TypeOK, Locals
  <2>2. loc[w].idle \cup {s} \in SUBSET SlotSet
    BY <1>1
  <2>3. Moves(w, "scan", [loc[w] EXCEPT !.at = s + 1, !.idle = loc[w].idle \cup {s}])
    BY <1>1, <2>1, StaysMoves
  <2>4. \A t \in loc[w].idle \cup {s} : t \in loc[w].idle \/ LooksIdle(conn[t].chan)
    BY <1>3
  <2>. QED
    BY <2>2, <2>3, <2>4
<1>. QED
  BY <1>2, <1>3 DEF Scan

LEMMA ScanTypes ==
  ASSUME TypeOK, Located, NEW w \in Workers, BeginScan(w) \/ NoLock(w) \/ Scan(w)
  PROVE  TypeOK' /\ Located'
<1>1. queueTypes' /\ connTypes' /\ restTypes'
  BY TypeParts, QueueSame, ConnSame, RestSame DEF BeginScan, NoLock, Scan, connVars
<1>2. pc[w] \in Busy
  BY DEF BeginScan, NoLock, Scan, Busy
<1>3. loc[w] \in Locals /\ loc[w].req \in Request
  BY <1>2, Held
<1>4. CASE BeginScan(w)
  <2>1. Moves(w, "scan", loc[w])
    BY <1>4, GotoMoves DEF BeginScan
  <2>2. LockMoves(w, "scan")
    BY <1>4 DEF BeginScan, LockMoves
  <2>. QED
    BY <1>1, <1>3, <2>1, <2>2, ServingLabels, LocalTypes
<1>5. CASE NoLock(w)
  <2>1. Result(w, "busy") /\ LockMoves(w, "finish") /\ "busy" \in Results
    BY <1>5, ServingLabels DEF NoLock, LockMoves, connVars, Results
  <2>. QED
    BY <1>1, <1>2, <2>1, ResultTypes
<1>6. CASE Scan(w)
  <2>. DEFINE s == loc[w].at
  <2>1. PICK idle \in SUBSET SlotSet :
          Moves(w, "scan", [loc[w] EXCEPT !.at = s + 1, !.idle = idle])
    BY <1>6, ScanMoves
  <2>. DEFINE l == [loc[w] EXCEPT !.at = s + 1, !.idle = idle]
  <2>2. l \in Locals /\ l.req = loc[w].req
    <3>1. s + 1 \in 1 .. Slots + 1
      BY <1>6, Slot1 DEF Scan, SlotSet
    <3>. QED
      BY <1>3, <3>1 DEF Locals
  <2>4. Moves(w, "scan", l) /\ LockMoves(w, "scan")
    BY <1>6, <2>1 DEF Scan, connVars, LockMoves
  <2>. QED
    BY <1>1, <1>3, <2>2, <2>4, ServingLabels, LocalTypes
<1>. QED
  BY <1>4, <1>5, <1>6

LEMMA MovedType ==
  ASSUME TypeOK, NEW s \in SlotSet
  PROVE  MovedToEnd(s) \in [SlotSet -> SlotSet]
<1>1. lru \in [SlotSet -> SlotSet]
  BY DEF TypeOK
<1>2. \A i \in SlotSet : i # Slots => i + 1 \in SlotSet
  BY Slot1 DEF SlotSet
<1>. QED
  BY <1>1, <1>2 DEF MovedToEnd

\* What the eviction does: nothing, or the slot it found idle is the worker's.
LEMMA Evicted ==
  ASSUME TypeOK, Located, NEW w \in Workers, Evict(w)
  PROVE  \/ loc[w].idle = {} /\ Result(w, "busy") /\ UNCHANGED conn
         \/ \E s \in loc[w].idle :
              /\ conn' = [conn EXCEPT ![s] = [Closed(@) EXCEPT !.chan = loc[w].req.chan]]
              /\ Moves(w, "connect", [loc[w] EXCEPT !.slot = s])
<1>1. ASSUME NEW i \in SlotSet, lru[i] \in loc[w].idle,
             conn' = [conn EXCEPT ![lru[i]] = [Closed(@) EXCEPT !.chan = loc[w].req.chan]],
             loc' = [loc EXCEPT ![w].slot = lru[i]], Goto(w, "connect")
      PROVE  \E s \in loc[w].idle :
              /\ conn' = [conn EXCEPT ![s] = [Closed(@) EXCEPT !.chan = loc[w].req.chan]]
              /\ Moves(w, "connect", [loc[w] EXCEPT !.slot = s])
  <2>1. Moves(w, "connect", [loc[w] EXCEPT !.slot = lru[i]])
    BY <1>1 DEF Moves, Goto
  <2>. QED
    BY <1>1, <2>1
<1>. QED
  BY <1>1 DEF Evict

LEMMA EvictTypes ==
  ASSUME TypeOK, Located, NEW w \in Workers, Evict(w)
  PROVE  TypeOK' /\ Located'
<1>1. queueTypes' /\ restTypes'
  BY TypeParts, QueueSame, RestSame DEF Evict
<1>2. pc[w] = "scan" /\ pc[w] \in Busy /\ pc[w] \in Locking /\ connLock' = NoWorker /\ UNCHANGED lru
  BY DEF Evict, Busy, Locking
<1>3. /\ loc[w] \in Locals /\ loc[w].req \in Request /\ loc[w].req.chan \in Channels
      /\ loc[w].idle \in SUBSET SlotSet /\ connLock = w
  BY <1>2, Held DEF Located
<1>4. /\ LockMoves(w, "connect") /\ LockMoves(w, "finish")
      /\ "connect" \in Using /\ "busy" \in Results
  BY <1>2, <1>3 DEF LockMoves, Locking, Using, Results
<1>5. CASE Result(w, "busy") /\ UNCHANGED conn
  <2>1. connTypes'
    BY <1>2, <1>5, TypeParts, ConnSame
  <2>. QED
    BY <1>1, <1>2, <1>4, <1>5, <2>1, ResultTypes
<1>6. ASSUME NEW s \in loc[w].idle,
             conn' = [conn EXCEPT ![s] = [Closed(@) EXCEPT !.chan = loc[w].req.chan]],
             Moves(w, "connect", [loc[w] EXCEPT !.slot = s])
      PROVE  TypeOK' /\ Located'
  <2>. DEFINE l == [loc[w] EXCEPT !.slot = s]
              k == [Closed(conn[s]) EXCEPT !.chan = loc[w].req.chan]
  <2>1. s \in SlotSet
    BY <1>3
  <2>2. l \in Locals /\ l.req = loc[w].req /\ l.slot = s
    <3>1. l \in Locals
      BY <1>3, <2>1, LocalFields
    <3>. QED
      BY <1>3, <3>1 DEF Locals
  <2>3. connTypes'
    <3>1. connTypes /\ lru \in [SlotSet -> SlotSet]
      BY TypeParts DEF connTypes
    <3>2. k \in Connection
      BY <1>3, <2>1, Held, ConnectionFields
    <3>3. conn' = [conn EXCEPT ![s] = k]
      BY <1>6
    <3>. QED
      BY <1>2, <2>1, <3>1, <3>2, <3>3, ConnTypes
  <2>. QED
    BY <1>1, <1>3, <1>4, <1>6, <2>1, <2>2, <2>3, ServingLabels, LocalTypes
<1>. QED
  BY <1>5, <1>6, Evicted

\* What a step of a transaction does: it changes the worker's connection, and
\* the worker goes on or is finished.
Transacts(w, p, l, k) ==
  /\ Moves(w, p, l)
  /\ l.req = loc[w].req /\ l.slot = loc[w].slot
  /\ conn' = [conn EXCEPT ![loc[w].slot] = k]
  /\ UNCHANGED <<queueVars, connLock, config, paused, backoff, bounds>>

LEMMA TransactsTypes ==
  ASSUME TypeOK, Located, NEW w \in Workers, pc[w] \in Using,
         NEW p \in Using \cup {"finish"}, NEW l \in Locals, NEW k \in Connection,
         Transacts(w, p, l, k), lru' \in [SlotSet -> SlotSet]
  PROVE  TypeOK' /\ Located'
<1>1. queueTypes' /\ restTypes'
  BY TypeParts, QueueSame, RestSame DEF Transacts
<1>2. loc[w].slot \in SlotSet /\ loc[w].req \in Request
  BY Held, ServingLabels
<1>3. connTypes'
  BY <1>2, TypeParts, ConnTypes DEF Transacts
<1>4. p \in Labels /\ p \notin {"check", "slot"} /\ p \notin Locking
  BY ServingLabels
<1>5. LockMoves(w, p) /\ Moves(w, p, l) /\ l.req \in Request /\ l.slot \in SlotSet
  BY <1>2, <1>4 DEF LockMoves, Transacts
<1>. QED
  BY <1>1, <1>3, <1>4, <1>5, LocalTypes

\* The steps of a transaction, one by one.
LEMMA Result2 ==
  ASSUME TypeOK, NEW w \in Workers, NEW res \in Results, Result(w, res)
  PROVE  \E l \in Locals : /\ Moves(w, "finish", l)
                           /\ l.req = loc[w].req /\ l.slot = loc[w].slot /\ l.result = res
<1>1. loc[w] \in Locals
  BY DEF TypeOK
<1>2. [loc[w] EXCEPT !.result = res].slot = loc[w].slot /\ [loc[w] EXCEPT !.result = res].result = res
  BY <1>1 DEF Locals
<1>. QED
  BY <1>2, ResultMoves

LEMMA ConnectStep ==
  ASSUME TypeOK, Located, NEW w \in Workers, Connect(w)
  PROVE  \E p \in {"send", "finish"}, l \in Locals, k \in Connection :
           /\ Transacts(w, p, l, k) /\ pc[w] = "connect" /\ UNCHANGED lru
           /\ k.wire \in {<<>>, conn[loc[w].slot].wire}
           /\ k.chan = conn[loc[w].slot].chan
           /\ p = "finish" => l.result = "timeout"
<1>. DEFINE s == loc[w].slot
<1>1. /\ pc[w] = "connect" /\ s \in SlotSet /\ loc[w] \in Locals /\ conn[s] \in Connection
      /\ loc[w].ip \in Addresses \cup {NoAddress}
  BY Held DEF Connect, Using
<1>2. UNCHANGED <<queueVars, connLock, config, paused, backoff, bounds>> /\ UNCHANGED lru
  BY DEF Connect
<1>3. conn \in [SlotSet -> Connection]
  BY DEF TypeOK
<1>4. CASE Goto(w, "send") /\ UNCHANGED <<loc, conn>>
  <2>1. Moves(w, "send", loc[w])
    BY <1>4, GotoMoves
  <2>2. conn' = [conn EXCEPT ![s] = conn[s]]
    BY <1>1, <1>3, <1>4
  <2>3. Transacts(w, "send", loc[w], conn[s])
    BY <1>2, <2>1, <2>2 DEF Transacts
  <2>. QED
    BY <1>1, <1>2, <2>3
<1>5. CASE /\ conn' = [conn EXCEPT ![s] = [@ EXCEPT !.open = TRUE, !.wire = <<>>,
                                                    !.peer = loc[w].ip]]
           /\ Goto(w, "send") /\ UNCHANGED loc
  <2>. DEFINE k == [conn[s] EXCEPT !.open = TRUE, !.wire = <<>>, !.peer = loc[w].ip]
  <2>1. Moves(w, "send", loc[w])
    BY <1>5, GotoMoves
  <2>2. k \in Connection /\ k.wire = <<>> /\ k.chan = conn[s].chan
    <3>1. k \in Connection
      BY <1>1, ConnectionFields
    <3>. QED
      BY <1>1, <3>1 DEF Connection
  <2>3. conn' = [conn EXCEPT ![s] = k]
    BY <1>5
  <2>. HIDE DEF k
  <2>4. Transacts(w, "send", loc[w], k)
    BY <1>2, <2>1, <2>3 DEF Transacts
  <2>. QED
    BY <1>1, <1>2, <2>2, <2>4
<1>6. CASE Result(w, "timeout") /\ UNCHANGED conn
  <2>1. PICK l \in Locals : /\ Moves(w, "finish", l)
                            /\ l.req = loc[w].req /\ l.slot = s /\ l.result = "timeout"
    BY <1>6, Result2 DEF Results
  <2>2. conn' = [conn EXCEPT ![s] = conn[s]]
    BY <1>1, <1>3, <1>6
  <2>3. Transacts(w, "finish", l, conn[s])
    BY <1>2, <2>1, <2>2 DEF Transacts
  <2>. QED
    BY <1>1, <1>2, <2>1, <2>3
<1>. QED
  BY <1>4, <1>5, <1>6 DEF Connect

LEMMA SendStep ==
  ASSUME TypeOK, Located, NEW w \in Workers, Send(w)
  PROVE  \E p \in {"receive", "finish"}, l \in Locals, k \in Connection :
           /\ Transacts(w, p, l, k) /\ pc[w] = "send" /\ UNCHANGED lru
           /\ k.chan = conn[loc[w].slot].chan
           /\ p = "receive" /\ conn[loc[w].slot].wire = <<>>
                => k.wire \in {<<>>, <<loc[w].req.seq>>}
           /\ p = "finish" => k = conn[loc[w].slot] /\ l.result = "timeout"
<1>. DEFINE s == loc[w].slot
            q == conn[s].wire
<1>1. /\ pc[w] = "send" /\ s \in SlotSet /\ loc[w] \in Locals /\ conn[s] \in Connection
      /\ loc[w].req.seq \in Nat
  BY Held DEF Send, Using, Busy
<1>2. UNCHANGED <<queueVars, connLock, config, paused, backoff, bounds>> /\ UNCHANGED lru
  BY DEF Send
<1>3. conn \in [SlotSet -> Connection] /\ q \in Seq(Nat)
  BY <1>1 DEF TypeOK, Connection
<1>4. ASSUME NEW n \in 0 .. Len(q),
             NEW wire \in {SubSeq(q, n + 1, Len(q)),
                           Append(SubSeq(q, n + 1, Len(q)), loc[w].req.seq)},
             conn' = [conn EXCEPT ![s].wire = wire],
             Goto(w, "receive"), UNCHANGED loc
      PROVE  \E p \in {"receive", "finish"}, l \in Locals, k \in Connection :
               /\ Transacts(w, p, l, k)
               /\ k.chan = conn[s].chan
               /\ p = "receive" /\ q = <<>> => k.wire \in {<<>>, <<loc[w].req.seq>>}
               /\ p = "finish" => k = conn[s] /\ l.result = "timeout"
  <2>. DEFINE late == SubSeq(q, n + 1, Len(q))
              k == [conn[s] EXCEPT !.wire = wire]
  <2>1. late \in Seq(Nat)
    <3>1. Len(q) \in Nat /\ n \in Nat
      BY <1>3, LenProperties
    <3>2. \A i \in n + 1 .. Len(q) : q[i] \in Nat
      <4>1. \A i \in n + 1 .. Len(q) : i \in 1 .. Len(q)
        BY <3>1
      <4>. HIDE DEF q
      <4>. QED
        BY <1>3, <4>1, ElementOfSeq
    <3>. HIDE DEF q
    <3>. QED
      BY <1>3, <3>1, <3>2, SubSeqProperties
  <2>2. wire \in Seq(Nat)
    <3>1. wire \in {late, Append(late, loc[w].req.seq)}
      OBVIOUS
    <3>. HIDE DEF late
    <3>. QED
      <4>1. Append(late, loc[w].req.seq) \in Seq(Nat)
        BY <1>1, <2>1, AppendProperties
      <4>. QED
        BY <2>1, <3>1, <4>1
  <2>3. q = <<>> => wire \in {<<>>, <<loc[w].req.seq>>}
    <3>1. SUFFICES ASSUME q = <<>> PROVE wire \in {<<>>, <<loc[w].req.seq>>}
      OBVIOUS
    <3>2. Len(q) = 0 /\ n = 0
      BY <3>1
    <3>3. late = <<>>
      BY <3>2, SubSeqEmpty
    <3>4. wire \in {late, Append(late, loc[w].req.seq)}
      OBVIOUS
    <3>. HIDE DEF late
    <3>. QED
      BY <3>3, <3>4
  <2>4. k \in Connection /\ k.wire = wire /\ k.chan = conn[s].chan
    <3>1. k \in Connection
      BY <1>1, <2>2, ConnectionFields
    <3>. QED
      BY <1>1, <3>1 DEF Connection
  <2>5. conn' = [conn EXCEPT ![s] = k]
    BY <1>4
  <2>6. Moves(w, "receive", loc[w])
    BY <1>4, GotoMoves
  <2>. HIDE DEF k
  <2>7. Transacts(w, "receive", loc[w], k)
    BY <1>2, <2>5, <2>6 DEF Transacts
  <2>. QED
    BY <1>1, <2>3, <2>4, <2>7
<1>5. CASE Result(w, "timeout") /\ UNCHANGED conn
  <2>1. PICK l \in Locals : /\ Moves(w, "finish", l)
                            /\ l.req = loc[w].req /\ l.slot = s /\ l.result = "timeout"
    BY <1>5, Result2 DEF Results
  <2>2. conn' = [conn EXCEPT ![s] = conn[s]]
    BY <1>1, <1>3, <1>5
  <2>3. Transacts(w, "finish", l, conn[s])
    BY <1>2, <2>1, <2>2 DEF Transacts
  <2>. QED
    BY <1>1, <1>2, <2>1, <2>3
<1>6. CASE /\ \E n \in 0 .. Len(q) :
                \E wire \in {SubSeq(q, n + 1, Len(q)),
                             Append(SubSeq(q, n + 1, Len(q)), loc[w].req.seq)} :
                  conn' = [conn EXCEPT ![s].wire = wire]
           /\ Goto(w, "receive") /\ UNCHANGED loc
  BY <1>1, <1>2, <1>4, <1>6
<1>. QED
  BY <1>5, <1>6 DEF Send

LEMMA ReceiveStep ==
  ASSUME TypeOK, Located, NEW w \in Workers, Receive(w) \/ Timeout(w)
  PROVE  \E l \in Locals, k \in Connection :
           /\ Transacts(w, "finish", l, k) /\ pc[w] = "receive"
           /\ lru' \in [SlotSet -> SlotSet]
           /\ k.chan = conn[loc[w].slot].chan
           /\ \/ k.wire = <<>> /\ l.result \in {"garbage", "timeout"}
              \/ /\ conn[loc[w].slot].wire # <<>>
                 /\ k.wire = Tail(conn[loc[w].slot].wire)
                 /\ l.got = Head(conn[loc[w].slot].wire)
<1>. DEFINE s == loc[w].slot
            q == conn[s].wire
<1>1. /\ pc[w] = "receive" /\ s \in SlotSet /\ loc[w] \in Locals /\ conn[s] \in Connection
  BY Held DEF Receive, Timeout, Using, Busy
<1>2. UNCHANGED <<queueVars, connLock, config, paused, backoff, bounds>>
  BY DEF Receive, Timeout
<1>3. conn \in [SlotSet -> Connection] /\ q \in Seq(Nat) /\ lru \in [SlotSet -> SlotSet]
  BY <1>1 DEF TypeOK, Connection
<1>4. MovedToEnd(s) \in [SlotSet -> SlotSet]
  BY <1>1, MovedType
<1>5. ASSUME NEW res \in {"garbage", "timeout"}, Result(w, res),
             conn' = [conn EXCEPT ![s] = Closed(@)], lru' \in {lru, MovedToEnd(s)}
      PROVE  \E l \in Locals, k \in Connection :
               /\ Transacts(w, "finish", l, k)
               /\ lru' \in [SlotSet -> SlotSet]
               /\ k.chan = conn[s].chan
               /\ k.wire = <<>> /\ l.result \in {"garbage", "timeout"}
  <2>1. PICK l \in Locals : /\ Moves(w, "finish", l)
                            /\ l.req = loc[w].req /\ l.slot = s /\ l.result = res
    BY <1>5, Result2 DEF Results
  <2>2. Closed(conn[s]) \in Connection
    BY <1>1, ConnectionFields
  <2>3. Closed(conn[s]).wire = <<>> /\ Closed(conn[s]).chan = conn[s].chan
    BY <1>1 DEF Closed, Connection
  <2>4. conn' = [conn EXCEPT ![s] = Closed(conn[s])]
    BY <1>5
  <2>5. Transacts(w, "finish", l, Closed(conn[s]))
    BY <1>2, <2>1, <2>4 DEF Transacts
  <2>. QED
    BY <1>3, <1>4, <1>5, <2>1, <2>2, <2>3, <2>5
<1>6. ASSUME NEW res \in {"ok", "exception"}, q # <<>>, Goto(w, "finish"),
             loc' = [loc EXCEPT ![w].result = res, ![w].got = Head(q)],
             conn' = [conn EXCEPT ![s].wire = Tail(@)], lru' = MovedToEnd(s)
      PROVE  \E l \in Locals, k \in Connection :
               /\ Transacts(w, "finish", l, k)
               /\ lru' \in [SlotSet -> SlotSet]
               /\ k.chan = conn[s].chan
               /\ q # <<>> /\ k.wire = Tail(q) /\ l.got = Head(q)
  <2>. DEFINE l == [loc[w] EXCEPT !.result = res, !.got = Head(q)]
              k == [conn[s] EXCEPT !.wire = Tail(q)]
  <2>1. Head(q) \in Nat /\ Tail(q) \in Seq(Nat)
    BY <1>3, <1>6, HeadTailProperties
  <2>2. l \in Locals /\ l.req = loc[w].req /\ l.slot = loc[w].slot /\ l.got = Head(q)
    <3>1. res \in Results
      BY DEF Results
    <3>. HIDE DEF q
    <3>. QED
      BY <1>1, <2>1, <3>1 DEF Locals
  <2>3. k \in Connection /\ k.chan = conn[s].chan /\ k.wire = Tail(q)
    <3>1. k \in Connection
      BY <1>1, <2>1, ConnectionFields
    <3>. HIDE DEF q
    <3>. QED
      BY <1>1, <2>1, <3>1 DEF Connection
  <2>4. Moves(w, "finish", l)
    <3>. HIDE DEF q
    <3>. QED
      BY <1>1, <1>6 DEF Moves, Goto, TypeOK
  <2>5. conn' = [conn EXCEPT ![s] = k]
    BY <1>6
  <2>. HIDE DEF l, k
  <2>6. Transacts(w, "finish", l, k)
    BY <1>2, <2>2, <2>4, <2>5 DEF Transacts
  <2>. QED
    BY <1>4, <1>6, <2>2, <2>3, <2>6
<1>7. CASE Timeout(w)
  BY <1>1, <1>5, <1>7 DEF Timeout, GivenUp
<1>8. CASE Receive(w)
  BY <1>1, <1>5, <1>6, <1>8 DEF Receive
<1>. QED
  BY <1>7, <1>8

LEMMA TransactTypes ==
  ASSUME TypeOK, Located, NEW w \in Workers, Transact(w)
  PROVE  TypeOK' /\ Located'
<1>1. {"send", "receive", "finish"} \subseteq Using \cup {"finish"} /\ lru \in [SlotSet -> SlotSet]
  BY DEF Using, TypeOK
<1>2. pc[w] \in Using
  BY DEF Transact, Connect, Send, Receive, Timeout, Using
<1>3. CASE Connect(w)
  BY <1>1, <1>2, <1>3, ConnectStep, TransactsTypes
<1>4. CASE Send(w)
  BY <1>1, <1>2, <1>4, SendStep, TransactsTypes
<1>5. CASE Receive(w) \/ Timeout(w)
  BY <1>1, <1>2, <1>5, ReceiveStep, TransactsTypes
<1>. QED
  BY <1>3, <1>4, <1>5 DEF Transact

(***************************************************************************)
(* Types: the specification.                                               *)
(***************************************************************************)
LEMMA InitTypes == Init => TypeOK /\ Located
<1>. SUFFICES ASSUME Init PROVE TypeOK /\ Located
  OBVIOUS
<1>1. queueTypes
  <2>1. pq \in Seq(Request) /\ Len(pq) = 0
    BY EmptySeq DEF Init
  <2>2. nreq \in 0 .. MaxReqs /\ inflight \in [Claims -> Channels \cup {NoChannel}]
    BY PoolAssumption DEF Init
  <2>. QED
    BY <2>1, <2>2, QueueAssumption DEF queueTypes
<1>2. connTypes
  <2>1. [chan |-> NoChannel, open |-> FALSE, peer |-> NoAddress, wire |-> <<>>] \in Connection
    BY EmptySeq DEF Connection
  <2>. QED
    BY <2>1 DEF Init, connTypes
<1>3. restTypes
  <2>1. config \in [Boards -> Addresses \cup {NoAddress}]
    BY DEF Init
  <2>2. paused \in BOOLEAN
    BY DEF Init
  <2>3. backoff \in [Channels -> SUBSET {"slave", "register"}]
    BY DEF Init
  <2>4. edits \in 0 .. MaxEdits /\ pauses \in 0 .. MaxPauses
    BY PoolAssumption DEF Init
  <2>. QED
    BY <2>1, <2>2, <2>3, <2>4 DEF restTypes
<1>4. workerTypes
  BY FreshType DEF Init, workerTypes, Labels
<1>5. Located
  BY DEF Init, Located, Busy, Using, Locking
<1>. QED
  BY <1>1, <1>2, <1>3, <1>4, <1>5, TypeParts

LEMMA NextTypes == TypeOK /\ Located /\ [Next]_vars => TypeOK' /\ Located'
<1>. SUFFICES ASSUME TypeOK, Located, [Next]_vars PROVE TypeOK' /\ Located'
  OBVIOUS
<1>1. ASSUME NEW w \in Workers, Worker(w) PROVE TypeOK' /\ Located'
  BY <1>1, TopTypes, ReapTypes, TakeTypes, TakeNoneTypes, DoneTypes, BeginTypes,
     GetSlotTypes, ScanTypes, EvictTypes, TransactTypes DEF Worker, FindSlot
<1>2. CASE UNCHANGED vars
  BY <1>2, TypeParts, QueueSame, ConnSame, RestSame, WorkersSame DEF vars, queueVars, bounds
<1>. QED
  BY <1>1, <1>2, QueueTypes, OutsideTypes DEF Next

\* In every state the variables have their types (MbxPool!TypeOK): the queue
\* and the table of claims keep within their bounds, and a worker in the middle
\* of a transaction has a request, a slot and, while it scans the connections,
\* g_mbx_conn_mutex.
THEOREM TypeCorrect == Spec => [](TypeOK /\ Located)
BY InitTypes, NextTypes, PTL DEF Spec

(***************************************************************************)
(* A channel is served serially.                                           *)
(*                                                                         *)
(* The invariant: each claim is that of a worker that serves the channel,  *)
(* each channel served is claimed, and no channel is claimed twice.  There *)
(* are as many places for claims as workers, so that a worker that serves  *)
(* nothing finds a free one when it takes a request.                       *)
(***************************************************************************)
ClaimsServed ==
  \A i \in Claims :
    inflight[i] # NoChannel => \E w \in Serving : loc[w].req.chan = inflight[i]
ServedClaimed == \A w \in Serving : IsClaimed(loc[w].req.chan)
ClaimedOnce ==
  \A i, j \in Claims : i # j /\ inflight[i] = inflight[j] => inflight[i] = NoChannel
Serial == ClaimsServed /\ ServedClaimed /\ ClaimedOnce /\ ChannelSerial

\* A worker that serves nothing finds a free place for its claim.
LEMMA FreeClaim ==
  ASSUME Serial, NEW w \in Workers, w \notin Serving
  PROVE  \E i \in Claims : inflight[i] = NoChannel
<1>1. SUFFICES ASSUME \A i \in Claims : inflight[i] # NoChannel PROVE FALSE
  OBVIOUS
<1>. DEFINE n == Cardinality(Workers)
            S == Workers \ {w}
            f == [i \in Claims |-> CHOOSE v \in Serving : loc[v].req.chan = inflight[i]]
<1>2. n \in Nat /\ Claims = 1 .. n /\ IsFiniteSet(Workers)
  BY ClaimNumbers, PoolAssumption
<1>3. IsFiniteSet(Claims) /\ Cardinality(Claims) = n
  BY <1>2, FS_Interval
<1>4. IsFiniteSet(S) /\ Cardinality(S) = n - 1
  BY <1>2, FS_RemoveElement
<1>5. \A i \in Claims : f[i] \in Serving /\ loc[f[i]].req.chan = inflight[i]
  BY <1>1 DEF Serial, ClaimsServed
<1>6. Serving \subseteq S
  BY DEF Serving
<1>. HIDE DEF f, S, n
<1>7. f \in [Claims -> S]
  BY <1>5, <1>6 DEF f
<1>8. PICK i \in Claims, j \in Claims : i # j /\ f[i] = f[j]
  BY <1>2, <1>3, <1>4, <1>7, FS_PigeonHole
<1>9. inflight[i] = inflight[j]
  BY <1>5, <1>8
<1>. QED
  BY <1>1, <1>8, <1>9 DEF Serial, ClaimedOnce

\* A step that leaves the queue and the claims alone and keeps what the
\* workers serve.
Carries(w, p, l) ==
  /\ UNCHANGED queueVars
  /\ Moves(w, p, l)
  /\ pc[w] \in Busy <=> p \in Busy
  /\ p \in Busy => l.req = loc[w].req

\* Every step of a worker but those that take a request or are done with it.
LEMMA WorkerSteps ==
  ASSUME TypeOK, Located, NEW w \in Workers, Worker(w)
  PROVE  \/ Take(w) \/ Skip(w) \/ Finish(w)
         \/ \E p \in Labels, l \in Locals : Carries(w, p, l)
<1>0. loc[w] \in Locals
  BY Held
<1>1. CASE Top(w) \/ TakeNone(w)
  <2>1. PICK p \in {"top", "take", "reap"} : Goto(w, p)
    BY <1>1 DEF Top, TakeNone
  <2>2. Moves(w, p, loc[w])
    BY <1>1, <2>1, GotoMoves DEF Top, TakeNone
  <2>3. pc[w] \notin Busy /\ p \notin Busy /\ p \in Labels
    BY <1>1 DEF Top, TakeNone, Busy, Labels
  <2>4. UNCHANGED queueVars
    BY <1>1 DEF Top, TakeNone
  <2>. QED
    BY <1>0, <2>2, <2>3, <2>4 DEF Carries
<1>2. CASE Reap(w)
  <2>1. UNCHANGED queueVars /\ pc[w] \notin Busy
    BY <1>2 DEF Reap, ReapLock, ReapSlot, ReapEnd, Busy
  <2>2. \E p \in {"take", "reaping"}, l \in Locals : Moves(w, p, l)
    <3>1. CASE ReapLock(w)
      <4>1. [Fresh EXCEPT !.at = 1] \in Locals
        BY FreshType, LocalFields, Slot1, PoolAssumption DEF SlotSet
      <4>2. CASE Goto(w, "take") /\ UNCHANGED loc
        BY <1>0, <4>2, GotoMoves
      <4>3. CASE Goto(w, "reaping") /\ loc' = [loc EXCEPT ![w] = [Fresh EXCEPT !.at = 1]]
        BY <4>1, <4>3 DEF Moves, Goto
      <4>. QED
        BY <3>1, <4>2, <4>3 DEF ReapLock
    <3>2. CASE ReapSlot(w)
      <4>. DEFINE l == [loc[w] EXCEPT !.at = loc[w].at + 1]
      <4>1. loc[w].at + 1 \in 1 .. Slots + 1
        BY <3>2, Slot1 DEF ReapSlot, SlotSet
      <4>2. l \in Locals
        BY <1>0, <4>1, LocalFields
      <4>3. loc' = [loc EXCEPT ![w] = l] /\ UNCHANGED pc /\ pc[w] = "reaping"
        BY <3>2 DEF ReapSlot
      <4>4. Moves(w, "reaping", l)
        BY <4>3, StaysMoves
      <4>. QED
        BY <4>2, <4>4
    <3>3. CASE ReapEnd(w)
      BY <3>3, FreshType DEF ReapEnd, Moves, Goto
    <3>. QED
      BY <1>2, <3>1, <3>2, <3>3 DEF Reap
  <2>3. \A p \in {"take", "reaping"} : p \in Labels /\ p \notin Busy
    BY DEF Labels, Busy
  <2>. QED
    BY <2>1, <2>2, <2>3 DEF Carries
<1>3. CASE Begin(w) \/ FindSlot(w) \/ Transact(w)
  <2>1. UNCHANGED queueVars
    BY <1>3 DEF Begin, FindSlot, GetSlot, BeginScan, NoLock, Scan, Evict, Transact,
                Connect, Send, Receive, Timeout
  <2>2. pc[w] \in Busy
    BY <1>3 DEF Begin, FindSlot, GetSlot, BeginScan, NoLock, Scan, Evict, Transact,
                Connect, Send, Receive, Timeout, Busy
  <2>3. \E p \in Busy, l \in Locals : Moves(w, p, l) /\ l.req = loc[w].req
    <3>0. {"slot", "connect", "scan", "send", "receive", "finish"} \subseteq Busy
      BY DEF Busy
    <3>1. ASSUME NEW res \in Results, Result(w, res)
          PROVE  \E l \in Locals : Moves(w, "finish", l) /\ l.req = loc[w].req
      BY <3>1, ResultMoves
    <3>2. CASE Begin(w)
      <4>. DEFINE ip == config[BoardOf[loc[w].req.chan]]
                  l == [loc[w] EXCEPT !.ip = ip]
      <4>1. CASE Result(w, "invalid")
        BY <3>0, <3>1, <4>1 DEF Results
      <4>2. CASE ip # NoAddress /\ Goto(w, "slot") /\ loc' = [loc EXCEPT ![w].ip = ip]
        <5>1. loc[w].req.chan \in Channels
          BY <2>2, Held
        <5>2. ip \in Addresses
          BY <4>2, <5>1, PoolAssumption DEF TypeOK
        <5>. HIDE DEF ip
        <5>3. l \in Locals /\ l.req = loc[w].req
          <6>1. l \in Locals
            BY <1>0, <5>2, LocalFields
          <6>. QED
            BY <1>0, <6>1 DEF Locals
        <5>4. Moves(w, "slot", l)
          BY <4>2 DEF Moves, Goto
        <5>. QED
          BY <3>0, <5>3, <5>4
      <4>. QED
        BY <3>2, <4>1, <4>2 DEF Begin
    <3>3. CASE GetSlot(w) \/ Evict(w)
      <4>1. CASE Result(w, "busy")
        BY <3>0, <3>1, <4>1 DEF Results
      <4>2. ASSUME NEW s \in SlotSet, Moves(w, "connect", [loc[w] EXCEPT !.slot = s])
            PROVE  \E l \in Locals : Moves(w, "connect", l) /\ l.req = loc[w].req
        <5>. DEFINE l == [loc[w] EXCEPT !.slot = s]
        <5>1. l \in Locals
          BY <1>0, LocalFields
        <5>2. l.req = loc[w].req
          BY <1>0, <5>1 DEF Locals
        <5>. QED
          BY <4>2, <5>1, <5>2
      <4>3. loc[w].idle \in SUBSET SlotSet
        BY Held
      <4>. QED
        BY <3>0, <3>3, <4>1, <4>2, <4>3, FoundSlot, Evicted
    <3>4. CASE BeginScan(w)
      BY <1>0, <3>0, <3>4, GotoMoves DEF BeginScan
    <3>5. CASE NoLock(w)
      BY <3>0, <3>1, <3>5 DEF NoLock, Results
    <3>6. CASE Scan(w)
      <4>1. PICK idle \in SUBSET SlotSet :
              Moves(w, "scan", [loc[w] EXCEPT !.at = loc[w].at + 1, !.idle = idle])
        BY <3>6, ScanMoves
      <4>. DEFINE l == [loc[w] EXCEPT !.at = loc[w].at + 1, !.idle = idle]
      <4>2. loc[w].at + 1 \in 1 .. Slots + 1
        BY <3>6, Slot1 DEF Scan, SlotSet
      <4>3. l \in Locals /\ l.req = loc[w].req
        BY <1>0, <4>2 DEF Locals
      <4>. QED
        BY <3>0, <4>1, <4>3
    <3>7. CASE Transact(w)
      BY <3>0, <3>7, ConnectStep, SendStep, ReceiveStep DEF Transact, Transacts
    <3>. QED
      BY <1>3, <3>2, <3>3, <3>4, <3>5, <3>6, <3>7 DEF FindSlot
  <2>. QED
    BY <2>1, <2>2, <2>3, ServingLabels DEF Carries
<1>. QED
  BY <1>1, <1>2, <1>3 DEF Worker

LEMMA CarriesSerial ==
  ASSUME TypeOK, Serial, NEW w \in Workers, NEW p, NEW l, Carries(w, p, l)
  PROVE  Serial'
<1>1. UNCHANGED inflight
  BY DEF Carries, queueVars
<1>2. /\ \A v \in Workers : v \in Serving' <=> v \in Serving
      /\ \A v \in Serving : loc'[v].req = loc[v].req
  BY DEF Carries, Moves, TypeOK, Serving
<1>3. Serving' = Serving
  BY <1>2 DEF Serving
<1>. QED
  BY <1>1, <1>2, <1>3 DEF Serial, ClaimsServed, ServedClaimed, ClaimedOnce, ChannelSerial, IsClaimed

\* A worker takes a request of a channel that has no claim, and claims it.
LEMMA TakeSerial ==
  ASSUME TypeOK, Located, Serial, NEW w \in Workers, Take(w)
  PROVE  Serial'
<1>1. PICK j \in DOMAIN pq :
           /\ pq[j] \in Request /\ ~IsClaimed(pq[j].chan)
           /\ inflight' = Claimed(pq[j].chan)
           /\ Moves(w, "check", [Fresh EXCEPT !.req = pq[j]])
  BY Taken
<1>. DEFINE c == pq[j].chan
<1>2. c \in Channels /\ c # NoChannel
  BY <1>1, PoolAssumption DEF Request
<1>3. w \notin Serving
  BY DEF Take, Serving, Busy
<1>4. PICK i \in Claims : inflight[i] = NoChannel /\ inflight' = [inflight EXCEPT ![i] = c]
  BY <1>1, <1>2, <1>3, TypeParts, FreeClaim, ClaimedPlace
<1>5. \A k \in Claims : inflight'[k] = IF k = i THEN c ELSE inflight[k]
  BY <1>4 DEF TypeOK
<1>6. Serving' = Serving \cup {w}
  BY <1>1 DEF Moves, Serving, TypeOK, Busy
<1>7. /\ loc'[w].req.chan = c
      /\ \A v \in Serving : loc'[v].req = loc[v].req
  <2>1. \A v \in Workers : loc'[v] = IF v = w THEN [Fresh EXCEPT !.req = pq[j]] ELSE loc[v]
    BY <1>1 DEF Moves, TypeOK
  <2>2. [Fresh EXCEPT !.req = pq[j]].req = pq[j]
    BY DEF Fresh
  <2>. QED
    BY <1>3, <2>1, <2>2 DEF Serving
<1>8. \A v \in Serving : loc[v].req.chan # c
  BY <1>1 DEF Serial, ServedClaimed
<1>9. \A k \in Claims : inflight[k] # c
  BY <1>1 DEF IsClaimed
<1>. HIDE DEF c
<1>10. ClaimsServed'
  BY <1>5, <1>6, <1>7 DEF Serial, ClaimsServed
<1>11. ServedClaimed'
  <2>1. ASSUME NEW v \in Serving PROVE \E k \in Claims : inflight'[k] = loc[v].req.chan
    <3>1. PICK k \in Claims : inflight[k] = loc[v].req.chan
      BY DEF Serial, ServedClaimed, IsClaimed
    <3>2. loc[v].req.chan # NoChannel
      BY Held, PoolAssumption DEF Serving
    <3>. QED
      BY <1>4, <1>5, <3>1, <3>2
  <2>. QED
    BY <1>5, <1>6, <1>7, <2>1 DEF ServedClaimed, IsClaimed
<1>12. ClaimedOnce'
  BY <1>5, <1>9 DEF Serial, ClaimedOnce
<1>13. ChannelSerial'
  BY <1>6, <1>7, <1>8 DEF Serial, ChannelSerial
<1>. QED
  BY <1>10, <1>11, <1>12, <1>13 DEF Serial

\* A worker that is done releases the claim of its channel, the only one.
LEMMA ReleaseSerial ==
  ASSUME TypeOK, Located, Serial, ~Leaks, NEW w \in Workers, Skip(w) \/ Finish(w)
  PROVE  Serial'
<1>. DEFINE c == loc[w].req.chan
<1>1. w \in Serving /\ c \in Channels /\ c # NoChannel
  BY Held, PoolAssumption DEF Skip, Finish, Serving, Busy
<1>2. IsClaimed(c) /\ inflight' = Cleared(c)
  BY <1>1 DEF Serial, ServedClaimed, Skip, Finish, Release
<1>3. PICK i \in Claims : inflight[i] = c /\ inflight' = [inflight EXCEPT ![i] = NoChannel]
  BY <1>1, <1>2, TypeParts, ClearedPlace
<1>4. \A k \in Claims : inflight'[k] = IF k = i THEN NoChannel ELSE inflight[k]
  BY <1>3 DEF TypeOK
<1>5. pc' = [pc EXCEPT ![w] = "top"] /\ loc' = [loc EXCEPT ![w] = Fresh]
  BY DEF Skip, Finish, Goto
<1>6. Serving' = Serving \ {w}
  BY <1>5 DEF Serving, TypeOK, Busy
<1>7. \A v \in Serving \ {w} : loc'[v] = loc[v] /\ loc[v].req.chan # c
  BY <1>1, <1>5 DEF TypeOK, Serial, ChannelSerial, Serving
<1>8. ClaimsServed'
  <2>1. ASSUME NEW k \in Claims, inflight'[k] # NoChannel
        PROVE  \E v \in Serving \ {w} : loc[v].req.chan = inflight'[k]
    <3>1. k # i /\ inflight'[k] = inflight[k] /\ inflight[k] # NoChannel
      BY <1>4, <2>1
    <3>2. inflight[k] # c
      BY <1>1, <1>3, <3>1 DEF Serial, ClaimedOnce
    <3>. QED
      BY <3>1, <3>2 DEF Serial, ClaimsServed
  <2>. QED
    BY <1>6, <1>7, <2>1 DEF ClaimsServed
<1>9. ServedClaimed'
  BY <1>3, <1>4, <1>6, <1>7 DEF Serial, ServedClaimed, IsClaimed
<1>10. ClaimedOnce'
  BY <1>4 DEF Serial, ClaimedOnce
<1>11. ChannelSerial'
  BY <1>6, <1>7 DEF Serial, ChannelSerial
<1>. QED
  BY <1>8, <1>9, <1>10, <1>11 DEF Serial

LEMMA InitSerial == Init => Serial
BY DEF Init, Serial, ClaimsServed, ServedClaimed, ClaimedOnce, ChannelSerial, Serving, Busy

LEMMA NextSerial ==
  ASSUME TypeOK, Located, Serial, ~Leaks, [Next]_vars
  PROVE  Serial'
<1>1. ASSUME NEW w \in Workers, Worker(w) PROVE Serial'
  BY <1>1, WorkerSteps, CarriesSerial, TakeSerial, ReleaseSerial
<1>2. ASSUME UNCHANGED <<inflight, pc, loc>> PROVE Serial'
  BY <1>2 DEF Serial, ClaimsServed, ServedClaimed, ClaimedOnce, ChannelSerial, Serving, IsClaimed
<1>3. CASE UNCHANGED vars
  BY <1>2, <1>3 DEF vars
<1>4. ASSUME NEW c \in Channels, NEW p \in Classes, Queue(c, p) PROVE Serial'
  BY <1>2, <1>4 DEF Queue
<1>5. CASE Pause \/ Unpause
  BY <1>2, <1>5 DEF Pause, Unpause, queueVars
<1>6. ASSUME NEW b \in Boards, NEW ip \in Addresses \cup {NoAddress}, EditBoard(b, ip)
      PROVE  Serial'
  BY <1>2, <1>6 DEF EditBoard, queueVars
<1>7. ASSUME NEW s \in SlotSet, Drop(s) PROVE Serial'
  BY <1>2, <1>7 DEF Drop, queueVars
<1>. QED
  BY <1>1, <1>3, <1>4, <1>5, <1>6, <1>7 DEF Next

\* Two workers never serve one channel at a time, however many workers and
\* channels there are, as long as no claim is left behind (BUG-417).
THEOREM ChannelsAreSerial ==
  ASSUME ~Leaks
  PROVE  Spec => []ChannelSerial
<1>. DEFINE Inv == TypeOK /\ Located /\ Serial
<1>1. Init => Inv
  BY InitTypes, InitSerial
<1>2. Inv /\ [Next]_vars => Inv'
  BY NextTypes, NextSerial
<1>3. Inv => ChannelSerial
  BY DEF Serial
<1>. QED
  BY <1>1, <1>2, <1>3, PTL DEF Spec

(***************************************************************************)
(* A worker's socket and the answer it takes are its own.                  *)
(*                                                                         *)
(* The invariant: the connection a worker uses is that of its channel; a   *)
(* slot that a scan found idle is used by no worker, because to begin to   *)
(* use one takes g_mbx_conn_mutex, which the scan holds; and all that is   *)
(* ever on its way from a board is the answer to the request of the worker *)
(* that waits for it.                                                      *)
(***************************************************************************)
OwnSlot ==
  \A w \in Workers : pc[w] \in Using => conn[loc[w].slot].chan = loc[w].req.chan
IdleFound ==
  \A v, w \in Workers :
    pc[v] = "scan" /\ pc[w] \in Using => loc[w].slot \notin loc[v].idle
WireOwn ==
  \A s \in SlotSet : conn[s].wire # <<>> =>
    \E w \in Workers : /\ pc[w] = "receive" /\ loc[w].slot = s
                       /\ conn[s].wire = <<loc[w].req.seq>>
Sockets == OwnSlot /\ IdleFound /\ WireOwn

\* Two workers use two slots.
LEMMA SlotsApart ==
  ASSUME Located, Serial, OwnSlot, NEW v \in Workers, NEW w \in Workers, v # w,
         pc[v] \in Using, pc[w] \in Using
  PROVE  loc[v].slot # loc[w].slot
<1>1. v \in Serving /\ w \in Serving
  BY ServingLabels DEF Serving
<1>. QED
  BY <1>1 DEF Serial, ChannelSerial, OwnSlot

\* The channel of a worker's connection is claimed, and no other worker's.
LEMMA SlotIsClaimed ==
  ASSUME TypeOK, Located, Serial, OwnSlot, NEW w \in Workers, pc[w] \in Using
  PROVE  /\ loc[w].slot \in SlotSet /\ ~LooksIdle(conn[loc[w].slot].chan)
         /\ conn[loc[w].slot].chan # NoChannel
         /\ \A v \in Serving : v # w => conn[loc[w].slot].chan # loc[v].req.chan
<1>1. w \in Serving /\ loc[w].slot \in SlotSet /\ loc[w].req.chan \in Channels
  BY Held, ServingLabels DEF Serving
<1>2. conn[loc[w].slot].chan = loc[w].req.chan
  BY DEF OwnSlot
<1>. QED
  BY <1>1, <1>2, PoolAssumption DEF Serial, ServedClaimed, ChannelSerial, LooksIdle

\* The steps that change no connection.
LEMMA NoConnection ==
  ASSUME NEW w \in Workers,
         \/ Top(w) \/ ReapLock(w) \/ ReapEnd(w) \/ Take(w) \/ TakeNone(w) \/ Skip(w)
         \/ Begin(w) \/ BeginScan(w) \/ NoLock(w) \/ Scan(w) \/ Finish(w)
  PROVE  UNCHANGED conn
BY DEF Top, ReapLock, ReapEnd, Take, TakeNone, Skip, Begin, BeginScan, NoLock, Scan, Finish, connVars

\* No step of another worker changes the connection a worker uses.
LEMMA Untouched ==
  ASSUME TypeOK, Located, Serial, Sockets,
         NEW v \in Workers, NEW w \in Workers, v # w, pc[w] \in Using, Worker(v)
  PROVE  conn'[loc[w].slot] = conn[loc[w].slot]
<1>. DEFINE s == loc[w].slot
<1>1. /\ s \in SlotSet /\ ~LooksIdle(conn[s].chan) /\ conn[s].chan # NoChannel
      /\ v \in Serving => conn[s].chan # loc[v].req.chan
  BY SlotIsClaimed DEF Sockets
<1>2. conn \in [SlotSet -> Connection]
  BY DEF TypeOK
<1>3. ASSUME NEW t \in SlotSet, NEW k, t # s, conn' = [conn EXCEPT ![t] = k]
      PROVE  conn'[s] = conn[s]
  BY <1>1, <1>2, <1>3
<1>4. CASE ReapSlot(v)
  <2>1. CASE UNCHANGED conn
    BY <2>1
  <2>2. CASE /\ LooksIdle(conn[loc[v].at].chan)
             /\ conn' = [conn EXCEPT ![loc[v].at] = Closed(@)]
    <3>1. loc[v].at \in SlotSet /\ loc[v].at # s
      BY <1>1, <1>4, <2>2 DEF ReapSlot
    <3>. QED
      BY <1>3, <2>2, <3>1
  <2>. QED
    BY <1>4, <2>1, <2>2 DEF ReapSlot
<1>5. CASE GetSlot(v)
  <2>1. PICK t \in SlotSet : /\ conn[t].chan \in {NoChannel, loc[v].req.chan}
                             /\ conn' = [conn EXCEPT ![t].chan = loc[v].req.chan]
    BY <1>5, FoundSlot
  <2>2. v \in Serving
    BY <1>5 DEF GetSlot, Serving, Busy
  <2>3. t # s
    BY <1>1, <2>1, <2>2
  <2>. QED
    BY <1>3, <2>1, <2>3
<1>6. CASE Evict(v)
  <2>1. pc[v] = "scan" /\ loc[v].idle \in SUBSET SlotSet
    BY <1>6, Held DEF Evict
  <2>2. s \notin loc[v].idle
    BY <2>1 DEF Sockets, IdleFound
  <2>3. CASE UNCHANGED conn
    BY <2>3
  <2>4. CASE \E t \in loc[v].idle :
               conn' = [conn EXCEPT ![t] = [Closed(@) EXCEPT !.chan = loc[v].req.chan]]
    BY <1>3, <2>1, <2>2, <2>4
  <2>. QED
    BY <1>6, <2>3, <2>4, Evicted
<1>7. CASE Transact(v)
  <2>1. pc[v] \in Using
    BY <1>7 DEF Transact, Connect, Send, Receive, Timeout, Using
  <2>2. loc[v].slot \in SlotSet /\ loc[v].slot # s
    BY <2>1, Held, SlotsApart DEF Sockets
  <2>3. \E k : conn' = [conn EXCEPT ![loc[v].slot] = k]
    BY <1>7, ConnectStep, SendStep, ReceiveStep DEF Transact, Transacts
  <2>. QED
    BY <1>3, <2>2, <2>3
<1>. QED
  BY <1>4, <1>5, <1>6, <1>7, NoConnection DEF Worker, Reap, FindSlot

\* What a step of a worker does to its own connection.
LEMMA OwnSteps ==
  ASSUME TypeOK, Located, Serial, Sockets, NEW w \in Workers, Worker(w)
  PROVE  \/ /\ UNCHANGED conn /\ pc'[w] \notin Using /\ pc[w] # "receive"
         \/ /\ pc[w] = "reaping" /\ pc'[w] \notin Using
            /\ \E s \in SlotSet : conn' = [conn EXCEPT ![s] = Closed(@)]
         \/ /\ pc[w] \in {"slot", "scan"} /\ connLock \in {NoWorker, w}
            /\ pc'[w] \in Using /\ loc'[w].slot \in SlotSet
            /\ \E k \in Connection :
                 /\ conn' = [conn EXCEPT ![loc'[w].slot] = k]
                 /\ k.chan = loc'[w].req.chan
                 /\ k.wire \in {<<>>, conn[loc'[w].slot].wire}
         \/ /\ pc[w] \in Using /\ loc'[w].slot = loc[w].slot /\ loc'[w].req = loc[w].req
            /\ \E k \in Connection :
                 /\ conn' = [conn EXCEPT ![loc[w].slot] = k]
                 /\ k.chan = conn[loc[w].slot].chan
                 /\ k.wire \in (IF pc'[w] = "receive" THEN {<<>>, <<loc[w].req.seq>>}
                                                      ELSE {<<>>})
<1>0. /\ pc \in [Workers -> Labels] /\ loc \in [Workers -> Locals] /\ loc[w] \in Locals
      /\ conn \in [SlotSet -> Connection]
  BY Held DEF TypeOK, Labels
<1>1. CASE \/ Top(w) \/ ReapLock(w) \/ ReapEnd(w) \/ Take(w) \/ TakeNone(w) \/ Skip(w)
           \/ Begin(w) \/ BeginScan(w) \/ NoLock(w) \/ Scan(w) \/ Finish(w)
  <2>1. UNCHANGED conn
    BY <1>1, NoConnection
  <2>2. pc'[w] \notin Using /\ pc[w] # "receive"
    BY <1>0, <1>1 DEF Top, ReapLock, ReapEnd, Take, TakeNone, Skip, Begin, BeginScan, NoLock,
                      Scan, Finish, Goto, Result, Using
  <2>. QED
    BY <2>1, <2>2
<1>2. CASE ReapSlot(w)
  <2>1. pc[w] = "reaping" /\ pc'[w] \notin Using
    BY <1>2 DEF ReapSlot, Using
  <2>. QED
    BY <1>2, <2>1 DEF ReapSlot
<1>3. CASE GetSlot(w)
  <2>1. PICK s \in SlotSet : /\ conn' = [conn EXCEPT ![s].chan = loc[w].req.chan]
                             /\ Moves(w, "connect", [loc[w] EXCEPT !.slot = s])
    BY <1>3, FoundSlot
  <2>. DEFINE k == [conn[s] EXCEPT !.chan = loc[w].req.chan]
  <2>2. /\ pc[w] = "slot" /\ connLock = NoWorker /\ loc[w].req.chan \in Channels
    BY <1>3, Held DEF GetSlot, Busy
  <2>3. pc'[w] \in Using /\ loc'[w].slot = s /\ loc'[w].req = loc[w].req
    BY <1>0, <2>1 DEF Moves, Using, Locals
  <2>4. k \in Connection /\ k.chan = loc[w].req.chan /\ k.wire = conn[s].wire
    <3>1. k \in Connection
      BY <1>0, <2>2, ConnectionFields
    <3>. QED
      BY <1>0, <3>1 DEF Connection
  <2>5. conn' = [conn EXCEPT ![s] = k]
    BY <2>1
  <2>. HIDE DEF k
  <2>. QED
    BY <2>2, <2>3, <2>4, <2>5
<1>4. CASE Evict(w)
  <2>0. /\ pc[w] = "scan" /\ connLock = w /\ loc[w].idle \in SUBSET SlotSet
        /\ loc[w].req.chan \in Channels
    BY <1>4, Held DEF Evict, Located, Locking, Busy
  <2>1. CASE Result(w, "busy") /\ UNCHANGED conn
    BY <1>0, <2>0, <2>1 DEF Result, Goto, Using
  <2>2. ASSUME NEW s \in loc[w].idle,
               conn' = [conn EXCEPT ![s] = [Closed(@) EXCEPT !.chan = loc[w].req.chan]],
               Moves(w, "connect", [loc[w] EXCEPT !.slot = s])
        PROVE  /\ pc'[w] \in Using /\ loc'[w].slot \in SlotSet
               /\ \E k \in Connection :
                    /\ conn' = [conn EXCEPT ![loc'[w].slot] = k]
                    /\ k.chan = loc'[w].req.chan /\ k.wire = <<>>
    <3>. DEFINE k == [Closed(conn[s]) EXCEPT !.chan = loc[w].req.chan]
    <3>1. s \in SlotSet
      BY <2>0
    <3>2. pc'[w] \in Using /\ loc'[w].slot = s /\ loc'[w].req = loc[w].req
      BY <1>0, <2>2 DEF Moves, Using, Locals
    <3>3. k \in Connection /\ k.chan = loc[w].req.chan /\ k.wire = <<>>
      <4>1. k \in Connection
        BY <1>0, <2>0, <3>1, ConnectionFields
      <4>. QED
        BY <1>0, <3>1, <4>1 DEF Closed, Connection
    <3>4. conn' = [conn EXCEPT ![s] = k]
      BY <2>2
    <3>. HIDE DEF k
    <3>. QED
      BY <3>1, <3>2, <3>3, <3>4
  <2>. QED
    BY <1>4, <2>0, <2>1, <2>2, Evicted
<1>5. CASE Transact(w)
  <2>0. pc[w] \in Using /\ loc[w].slot \in SlotSet
    BY <1>5, Held DEF Transact, Connect, Send, Receive, Timeout, Using
  <2>1. conn[loc[w].slot].wire # <<>> =>
          pc[w] = "receive" /\ conn[loc[w].slot].wire = <<loc[w].req.seq>>
    <3>1. SUFFICES ASSUME conn[loc[w].slot].wire # <<>>
                   PROVE  pc[w] = "receive" /\ conn[loc[w].slot].wire = <<loc[w].req.seq>>
      OBVIOUS
    <3>2. PICK v \in Workers : /\ pc[v] = "receive" /\ loc[v].slot = loc[w].slot
                               /\ conn[loc[w].slot].wire = <<loc[v].req.seq>>
      BY <2>0, <3>1 DEF Sockets, WireOwn
    <3>3. v = w
      BY <2>0, <3>2, SlotsApart DEF Sockets, Using
    <3>. QED
      BY <3>2, <3>3
  <2>2. ASSUME NEW p, NEW l, NEW k, Transacts(w, p, l, k)
        PROVE  /\ pc'[w] = p /\ loc'[w] = l /\ l.slot = loc[w].slot /\ l.req = loc[w].req
               /\ conn' = [conn EXCEPT ![loc[w].slot] = k]
    BY <1>0, <2>2 DEF Transacts, Moves
  <2>3. Tail(<<loc[w].req.seq>>) = <<>>
    OBVIOUS
  <2>4. CASE Connect(w)
    <3>1. PICK p \in {"send", "finish"}, l \in Locals, k \in Connection :
           /\ Transacts(w, p, l, k) /\ pc[w] = "connect"
           /\ k.wire \in {<<>>, conn[loc[w].slot].wire}
           /\ k.chan = conn[loc[w].slot].chan
      BY <2>4, ConnectStep
    <3>2. k.wire = <<>>
      BY <2>1, <3>1
    <3>. QED
      BY <2>0, <2>2, <3>1, <3>2
  <2>5. CASE Send(w)
    <3>1. PICK p \in {"receive", "finish"}, l \in Locals, k \in Connection :
           /\ Transacts(w, p, l, k) /\ pc[w] = "send"
           /\ k.chan = conn[loc[w].slot].chan
           /\ p = "receive" /\ conn[loc[w].slot].wire = <<>>
                => k.wire \in {<<>>, <<loc[w].req.seq>>}
           /\ p = "finish" => k = conn[loc[w].slot]
      BY <2>5, SendStep
    <3>2. conn[loc[w].slot].wire = <<>>
      BY <2>1, <3>1
    <3>. QED
      BY <2>0, <2>2, <3>1, <3>2
  <2>6. CASE Receive(w) \/ Timeout(w)
    <3>1. PICK l \in Locals, k \in Connection :
           /\ Transacts(w, "finish", l, k) /\ pc[w] = "receive"
           /\ k.chan = conn[loc[w].slot].chan
           /\ \/ k.wire = <<>>
              \/ /\ conn[loc[w].slot].wire # <<>>
                 /\ k.wire = Tail(conn[loc[w].slot].wire)
      BY <2>6, ReceiveStep
    <3>2. k.wire = <<>>
      BY <2>1, <2>3, <3>1
    <3>. QED
      BY <2>0, <2>2, <3>1, <3>2
  <2>. QED
    BY <1>5, <2>4, <2>5, <2>6 DEF Transact
<1>. QED
  BY <1>1, <1>2, <1>3, <1>4, <1>5 DEF Worker, Reap, FindSlot

\* The other workers stay where they are.
LEMMA OthersStay ==
  ASSUME TypeOK, Located, NEW w \in Workers, Worker(w)
  PROVE  \A v \in Workers \ {w} : pc'[v] = pc[v] /\ loc'[v] = loc[v]
<1>1. \E p, l : Moves(w, p, l)
  <2>1. CASE Take(w)
    BY <2>1, Taken
  <2>2. CASE Skip(w) \/ Finish(w)
    BY <2>2 DEF Skip, Finish, Goto, Moves
  <2>3. CASE \E p, l : Carries(w, p, l)
    BY <2>3 DEF Carries
  <2>. QED
    BY <2>1, <2>2, <2>3, WorkerSteps
<1>. QED
  BY <1>1 DEF Moves, TypeOK

\* The scan of the connections goes on with what it has found.
LEMMA ScanGoesOn ==
  ASSUME TypeOK, Located, NEW w \in Workers, Worker(w), pc'[w] = "scan"
  PROVE  \A s \in loc'[w].idle :
           (pc[w] = "scan" /\ s \in loc[w].idle) \/ LooksIdle(conn[s].chan)
<1>0. pc \in [Workers -> Labels] /\ loc \in [Workers -> Locals]
  BY DEF TypeOK, Labels
<1>1. CASE Scan(w)
  <2>1. PICK idle \in SUBSET SlotSet :
           /\ Moves(w, "scan", [loc[w] EXCEPT !.at = loc[w].at + 1, !.idle = idle])
           /\ \A s \in idle : s \in loc[w].idle \/ LooksIdle(conn[s].chan)
    BY <1>1, ScanMoves
  <2>2. loc'[w].idle = idle
    BY <1>0, <2>1 DEF Moves, Locals
  <2>3. pc[w] = "scan"
    BY <1>1 DEF Scan
  <2>. QED
    BY <2>1, <2>2, <2>3
<1>2. CASE BeginScan(w)
  <2>1. loc[w].idle = {} /\ UNCHANGED loc
    BY <1>2 DEF BeginScan, Located
  <2>. QED
    BY <2>1
<1>3. ~Take(w) /\ ~Skip(w) /\ ~Finish(w) /\ ~Top(w) /\ ~Reap(w) /\ ~TakeNone(w) /\ ~Begin(w)
  BY <1>0 DEF Take, Skip, Finish, Top, Reap, ReapLock, ReapSlot, ReapEnd, TakeNone, Begin,
              Goto, Result
<1>4. ~NoLock(w)
  BY <1>0 DEF NoLock, Goto, Result
<1>5. ~GetSlot(w)
  BY <1>0 DEF GetSlot, Goto
<1>6. ~Evict(w)
  BY <1>0 DEF Evict, Goto, Result
<1>7. ~Transact(w)
  BY <1>0 DEF Transact, Connect, Send, Receive, Timeout, Goto, Result
<1>. QED
  BY <1>1, <1>2, <1>3, <1>4, <1>5, <1>6, <1>7 DEF Worker, FindSlot

LEMMA WorkerSockets ==
  ASSUME TypeOK, Located, Serial, Sockets, NEW w \in Workers, Worker(w)
  PROVE  Sockets'
<1>0. conn \in [SlotSet -> Connection]
  BY DEF TypeOK
<1>1. \A v \in Workers \ {w} : pc'[v] = pc[v] /\ loc'[v] = loc[v]
  BY OthersStay
<1>2. \A v \in Workers \ {w} : pc[v] \in Using => conn'[loc[v].slot] = conn[loc[v].slot]
  BY Untouched
<1>3. OwnSlot'
  <2>1. ASSUME NEW v \in Workers \ {w}, pc'[v] \in Using
        PROVE  conn'[loc'[v].slot].chan = loc'[v].req.chan
    BY <1>1, <1>2, <2>1 DEF Sockets, OwnSlot
  <2>2. ASSUME pc'[w] \in Using
        PROVE  conn'[loc'[w].slot].chan = loc'[w].req.chan
    <3>1. ASSUME pc[w] \in Using, loc'[w].slot = loc[w].slot, loc'[w].req = loc[w].req,
                 NEW k \in Connection, conn' = [conn EXCEPT ![loc[w].slot] = k],
                 k.chan = conn[loc[w].slot].chan
          PROVE  conn'[loc'[w].slot].chan = loc'[w].req.chan
      <4>1. loc[w].slot \in SlotSet
        BY <3>1, Held
      <4>. QED
        BY <1>0, <3>1, <4>1 DEF Sockets, OwnSlot
    <3>2. ASSUME loc'[w].slot \in SlotSet, NEW k \in Connection,
                 conn' = [conn EXCEPT ![loc'[w].slot] = k], k.chan = loc'[w].req.chan
          PROVE  conn'[loc'[w].slot].chan = loc'[w].req.chan
      BY <1>0, <3>2
    <3>. QED
      BY <2>2, <3>1, <3>2, OwnSteps
  <2>. QED
    BY <2>1, <2>2 DEF OwnSlot
<1>4. IdleFound'
  <2>1. SUFFICES ASSUME NEW u \in Workers, NEW v \in Workers, pc'[u] = "scan", pc'[v] \in Using
                 PROVE  loc'[v].slot \notin loc'[u].idle
    BY DEF IdleFound
  <2>2. CASE u = w
    <3>1. v # w
      BY <2>1, <2>2 DEF Using
    <3>2. pc[v] \in Using /\ loc'[v] = loc[v]
      BY <1>1, <2>1, <3>1
    <3>3. ~LooksIdle(conn[loc[v].slot].chan)
      BY <3>2, SlotIsClaimed DEF Sockets
    <3>4. pc[w] = "scan" => loc[v].slot \notin loc[w].idle
      BY <3>2 DEF Sockets, IdleFound
    <3>. QED
      BY <2>1, <2>2, <3>2, <3>3, <3>4, ScanGoesOn
  <2>3. CASE u # w /\ v # w
    BY <1>1, <2>1, <2>3 DEF Sockets, IdleFound
  <2>4. CASE u # w /\ v = w
    <3>1. pc[u] = "scan" /\ loc'[u] = loc[u] /\ connLock = u
      BY <1>1, <2>1, <2>4 DEF Located, Locking
    <3>2. pc[w] \in Using /\ loc'[w].slot = loc[w].slot
      BY <2>1, <2>4, <3>1, OwnSteps, PoolAssumption
    <3>. QED
      BY <2>4, <3>1, <3>2 DEF Sockets, IdleFound
  <2>. QED
    BY <2>2, <2>3, <2>4
<1>5. WireOwn'
  <2>1. SUFFICES ASSUME NEW s \in SlotSet, conn'[s].wire # <<>>
                 PROVE  \E v \in Workers : /\ pc'[v] = "receive" /\ loc'[v].slot = s
                                           /\ conn'[s].wire = <<loc'[v].req.seq>>
    BY DEF WireOwn
  <2>2. ASSUME conn'[s].wire = conn[s].wire, pc[w] # "receive"
        PROVE  \E v \in Workers : /\ pc'[v] = "receive" /\ loc'[v].slot = s
                                  /\ conn'[s].wire = <<loc'[v].req.seq>>
    <3>1. PICK v \in Workers : /\ pc[v] = "receive" /\ loc[v].slot = s
                               /\ conn[s].wire = <<loc[v].req.seq>>
      BY <2>1, <2>2 DEF Sockets, WireOwn
    <3>2. pc'[v] = pc[v] /\ loc'[v] = loc[v]
      BY <1>1, <2>2, <3>1
    <3>. QED
      BY <2>2, <3>1, <3>2
  <2>3. CASE UNCHANGED conn /\ pc[w] # "receive"
    BY <2>2, <2>3
  <2>4. ASSUME pc[w] = "reaping", NEW t \in SlotSet, conn' = [conn EXCEPT ![t] = Closed(@)]
        PROVE  conn'[s].wire = conn[s].wire
    <3>1. \A k \in Connection : Closed(k).wire = <<>>
      BY DEF Closed, Connection
    <3>. QED
      BY <1>0, <2>1, <2>4, <3>1
  <2>5. ASSUME loc'[w].slot \in SlotSet,
               NEW k \in Connection, conn' = [conn EXCEPT ![loc'[w].slot] = k],
               k.wire \in {<<>>, conn[loc'[w].slot].wire}
        PROVE  conn'[s].wire = conn[s].wire
    BY <1>0, <2>1, <2>5
  <2>6. ASSUME pc[w] \in Using, loc'[w].slot = loc[w].slot, loc'[w].req = loc[w].req,
               NEW k \in Connection, conn' = [conn EXCEPT ![loc[w].slot] = k],
               k.wire \in (IF pc'[w] = "receive" THEN {<<>>, <<loc[w].req.seq>>} ELSE {<<>>})
        PROVE  \E v \in Workers : /\ pc'[v] = "receive" /\ loc'[v].slot = s
                                  /\ conn'[s].wire = <<loc'[v].req.seq>>
    <3>1. loc[w].slot \in SlotSet
      BY <2>6, Held
    <3>2. CASE s = loc[w].slot
      <4>1. conn'[s] = k
        BY <1>0, <2>6, <3>1, <3>2
      <4>. QED
        BY <2>1, <2>6, <3>2, <4>1
    <3>3. CASE s # loc[w].slot
      <4>1. conn'[s] = conn[s]
        BY <1>0, <2>6, <3>3
      <4>2. PICK v \in Workers : /\ pc[v] = "receive" /\ loc[v].slot = s
                                 /\ conn[s].wire = <<loc[v].req.seq>>
        BY <2>1, <4>1 DEF Sockets, WireOwn
      <4>3. pc'[v] = pc[v] /\ loc'[v] = loc[v]
        BY <1>1, <3>3, <4>2
      <4>. QED
        BY <4>1, <4>2, <4>3
    <3>. QED
      BY <3>2, <3>3
  <2>7. "receive" \notin {"reaping", "slot", "scan"}
    OBVIOUS
  <2>. QED
    BY <2>2, <2>3, <2>4, <2>5, <2>6, <2>7, OwnSteps
<1>. QED
  BY <1>3, <1>4, <1>5 DEF Sockets

\* A board that hangs up closes a connection and takes what was on its way.
LEMMA DropSockets ==
  ASSUME TypeOK, Located, Sockets, NEW s \in SlotSet, Drop(s)
  PROVE  Sockets'
<1>1. UNCHANGED <<pc, loc>> /\ conn' = [conn EXCEPT ![s] = Closed(@)]
  BY DEF Drop
<1>2. \A k \in Connection : Closed(k).wire = <<>> /\ Closed(k).chan = k.chan
  BY DEF Closed, Connection
<1>3. \A t \in SlotSet : /\ conn'[t].chan = conn[t].chan
                         /\ conn'[t].wire \in {<<>>, conn[t].wire}
  BY <1>1, <1>2 DEF TypeOK
<1>4. \A w \in Workers : pc[w] \in Using => loc[w].slot \in SlotSet
  BY DEF Located
<1>5. OwnSlot' /\ IdleFound'
  BY <1>1, <1>3, <1>4 DEF Sockets, OwnSlot, IdleFound
<1>6. WireOwn'
  BY <1>1, <1>3 DEF Sockets, WireOwn
<1>. QED
  BY <1>5, <1>6 DEF Sockets

LEMMA InitSockets == Init => Sockets
BY DEF Init, Sockets, OwnSlot, IdleFound, WireOwn, Using

\* The steps of callers, of the command line and of the configuration.
LEMMA OutsideSteps ==
  ASSUME [Next]_vars
  PROVE  \/ \E w \in Workers : Worker(w)
         \/ \E s \in SlotSet : Drop(s)
         \/ UNCHANGED <<pc, loc, conn>>
BY DEF Next, Queue, Pause, Unpause, EditBoard, connVars, vars

LEMMA NextSockets ==
  ASSUME TypeOK, Located, Serial, Sockets, [Next]_vars
  PROVE  Sockets'
<1>1. CASE UNCHANGED <<pc, loc, conn>>
  BY <1>1 DEF Sockets, OwnSlot, IdleFound, WireOwn
<1>. QED
  BY <1>1, WorkerSockets, DropSockets, OutsideSteps

PoolInv == TypeOK /\ Located /\ Serial /\ Sockets

LEMMA PoolInvariant ==
  ASSUME ~Leaks
  PROVE  Spec => []PoolInv
<1>1. Init => PoolInv
  BY InitTypes, InitSerial, InitSockets DEF PoolInv
<1>2. PoolInv /\ [Next]_vars => PoolInv'
  BY NextTypes, NextSerial, NextSockets DEF PoolInv
<1>. QED
  BY <1>1, <1>2, PTL DEF Spec

\* While a worker uses a connection no step of another worker changes it,
\* neither the eviction nor the close of dead connections nor a transaction,
\* however many workers share however few connections (BUG-419).
THEOREM SocketsAreTheirOwn ==
  ASSUME ~Leaks
  PROVE  Spec => SocketUntouched
<1>. DEFINE A == \A v, w \in Workers :
                   /\ v # w /\ pc[w] \in Using
                   /\ Reap(v) \/ FindSlot(v) \/ Transact(v)
                   => conn'[loc[w].slot] = conn[loc[w].slot]
<1>1. PoolInv /\ [Next]_vars => A
  BY Untouched DEF PoolInv, Worker
<1>2. PoolInv /\ [Next]_vars => [A]_vars
  BY <1>1
<1>3. Spec => [][Next]_vars
  BY DEF Spec
<1>. QED
  BY <1>2, <1>3, PoolInvariant, PTL DEF SocketUntouched

(***************************************************************************)
(* The answer a worker takes is the answer to its request.                 *)
(***************************************************************************)
\* What a worker takes off its connection when it gets an answer.
LEMMA AnswerSteps ==
  ASSUME TypeOK, Located, Serial, Sockets, NEW w \in Workers, Worker(w), pc'[w] = "finish"
  PROVE  loc'[w].result \in {"ok", "exception"} => loc'[w].got = loc'[w].req.seq
<1>0. pc \in [Workers -> Labels] /\ loc \in [Workers -> Locals] /\ loc[w] \in Locals
  BY Held DEF TypeOK, Labels
<1>1. ASSUME NEW res \in Results, Result(w, res)
      PROVE  loc'[w].result = res
  <2>1. [loc[w] EXCEPT !.result = res].result = res
    BY <1>0 DEF Locals
  <2>. QED
    BY <1>0, <1>1, <2>1 DEF Result
<1>2. CASE Begin(w) \/ NoLock(w) \/ Evict(w)
  <2>1. \E res \in {"invalid", "busy"} : Result(w, res)
    BY <1>0, <1>2 DEF Begin, NoLock, Evict, Goto
  <2>. QED
    BY <1>1, <2>1 DEF Results
<1>3. ASSUME NEW l, NEW k, Transacts(w, "finish", l, k) PROVE loc'[w] = l /\ l.req = loc[w].req
  BY <1>0, <1>3 DEF Transacts, Moves
<1>4. CASE Connect(w)
  <2>1. PICK p \in {"send", "finish"}, l \in Locals, k \in Connection :
          Transacts(w, p, l, k) /\ (p = "finish" => l.result = "timeout")
    BY <1>4, ConnectStep
  <2>2. p = "finish"
    BY <1>0, <2>1 DEF Transacts, Moves
  <2>. QED
    BY <1>3, <2>1, <2>2
<1>5. CASE Send(w)
  <2>1. PICK p \in {"receive", "finish"}, l \in Locals, k \in Connection :
          Transacts(w, p, l, k) /\ (p = "finish" => l.result = "timeout")
    BY <1>5, SendStep
  <2>2. p = "finish"
    BY <1>0, <2>1 DEF Transacts, Moves
  <2>. QED
    BY <1>3, <2>1, <2>2
<1>6. CASE Receive(w) \/ Timeout(w)
  <2>. DEFINE q == conn[loc[w].slot].wire
  <2>1. PICK l \in Locals, k \in Connection :
           /\ Transacts(w, "finish", l, k) /\ pc[w] = "receive"
           /\ \/ l.result \in {"garbage", "timeout"}
              \/ q # <<>> /\ l.got = Head(q)
    BY <1>6, ReceiveStep
  <2>2. CASE l.result \in {"garbage", "timeout"}
    BY <1>3, <2>1, <2>2
  <2>3. CASE q # <<>> /\ l.got = Head(q)
    <3>1. loc[w].slot \in SlotSet
      BY <2>1, Held DEF Using
    <3>2. PICK v \in Workers : /\ pc[v] = "receive" /\ loc[v].slot = loc[w].slot
                               /\ q = <<loc[v].req.seq>>
      BY <2>3, <3>1 DEF Sockets, WireOwn
    <3>3. v = w
      BY <2>1, <3>2, SlotsApart DEF Sockets, Using
    <3>4. l.got = loc[w].req.seq
      BY <2>3, <3>2, <3>3
    <3>. QED
      BY <1>3, <2>1, <3>4
  <2>. QED
    BY <2>1, <2>2, <2>3
<1>7. ~Take(w) /\ ~TakeNone(w) /\ ~Top(w) /\ ~Reap(w)
  BY <1>0 DEF Take, TakeNone, Top, Reap, ReapLock, ReapSlot, ReapEnd, Goto
<1>8. ~Skip(w) /\ ~Finish(w) /\ ~GetSlot(w) /\ ~BeginScan(w) /\ ~Scan(w)
  BY <1>0 DEF Skip, Finish, GetSlot, BeginScan, Scan, Goto
<1>. QED
  BY <1>2, <1>4, <1>5, <1>6, <1>7, <1>8 DEF Worker, FindSlot, Transact

\* Whenever a worker has got an answer it is the answer to the request it sent,
\* although no transaction id is compared: nothing else is ever on its way on
\* the connection it uses (BUG-469).
THEOREM AnswersAreMatched ==
  ASSUME ~Leaks
  PROVE  Spec => []AnswersMatch
<1>1. Init => AnswersMatch
  BY DEF Init, AnswersMatch
<1>2. PoolInv /\ AnswersMatch /\ [Next]_vars => AnswersMatch'
  <2>1. SUFFICES ASSUME PoolInv, AnswersMatch, [Next]_vars PROVE AnswersMatch'
    OBVIOUS
  <2>2. CASE UNCHANGED <<pc, loc>>
    BY <2>1, <2>2 DEF AnswersMatch
  <2>3. ASSUME NEW w \in Workers, Worker(w) PROVE AnswersMatch'
    <3>1. \A v \in Workers \ {w} : pc'[v] = pc[v] /\ loc'[v] = loc[v]
      BY <2>1, <2>3, OthersStay DEF PoolInv
    <3>2. pc'[w] = "finish" /\ loc'[w].result \in {"ok", "exception"}
            => loc'[w].got = loc'[w].req.seq
      BY <2>1, <2>3, AnswerSteps DEF PoolInv
    <3>. QED
      BY <2>1, <3>1, <3>2 DEF AnswersMatch
  <2>4. (\E s \in SlotSet : Drop(s)) => UNCHANGED <<pc, loc>>
    BY DEF Drop
  <2>. QED
    BY <2>1, <2>2, <2>3, <2>4, OutsideSteps
<1>. QED
  BY <1>1, <1>2, PoolInvariant, PTL DEF Spec

(***************************************************************************)
(* The writes to a channel keep their order.                               *)
(***************************************************************************)
\* The numbers of requests have been given out.
Numbered == /\ \A i \in DOMAIN pq : pq[i].seq < nreq
            /\ \A w \in Serving : loc[w].req.seq < nreq

\* What Queue puts into the queue: the new request, and nothing else is new.
LEMMA QueueAdds ==
  ASSUME TypeOK, NEW c \in Channels, NEW p \in Classes, Queue(c, p)
  PROVE  \A i \in DOMAIN pq' : \/ pq'[i].seq = nreq
                               \/ \E j \in DOMAIN pq : pq'[i] = pq[j]
<1>. DEFINE r == [chan |-> c, prio |-> p, age |-> 0, seq |-> nreq]
<1>1. pq \in Seq(Request) /\ r \in Request /\ r.seq = nreq
  BY TypeParts, RequestType DEF queueTypes
<1>2. DOMAIN pq = 1 .. Len(pq) /\ Len(pq) \in Nat
  BY <1>1, LenProperties
<1>. HIDE DEF r
<1>3. CASE pq' = Append(pq, r)
  <2>1. pq' \in Seq(Request) /\ Len(pq') = Len(pq) + 1
    BY <1>1, <1>3, AppendProperties
  <2>2. DOMAIN pq' = 1 .. Len(pq) + 1
    BY <2>1, LenProperties
  <2>3. /\ \A i \in 1 .. Len(pq) : pq'[i] = pq[i]
        /\ pq'[Len(pq) + 1] = r
    BY <1>1, <1>3, AppendProperties
  <2>4. \A i \in DOMAIN pq' : i \in DOMAIN pq \/ i = Len(pq) + 1
    BY <1>2, <2>2
  <2>. QED
    BY <1>1, <1>2, <2>3, <2>4
<1>4. ASSUME NEW k \in DOMAIN pq, pq' = [pq EXCEPT ![k] = r]
      PROVE  \A i \in DOMAIN pq' : \/ pq'[i].seq = nreq
                                   \/ \E j \in DOMAIN pq : pq'[i] = pq[j]
  BY <1>1, <1>4
<1>5. CASE UNCHANGED pq
  BY <1>5
<1>. QED
  BY <1>3, <1>4, <1>5 DEF Queue, r

\* Of two writes of a channel that wait the one queued first is taken first.
LEMMA TakesOldestWrite ==
  ASSUME TypeOK, Located, NEW w \in Workers, Take(w), IsWrite(loc'[w].req)
  PROVE  \A i \in DOMAIN pq' :
           ~(pq'[i].chan = loc'[w].req.chan /\ IsWrite(pq'[i]) /\ pq'[i].seq < loc'[w].req.seq)
<1>1. pq \in Seq(Request)
  BY DEF TypeOK
<1>2. PICK i \in DOMAIN pq :
           /\ pq[i] \in Request /\ ~IsClaimed(pq[i].chan)
           /\ \A j \in DOMAIN pq : ~IsClaimed(pq[j].chan) => ~Before(pq[j], pq[i])
           /\ pq' = RemoveBySwap(pq, i)
           /\ Moves(w, "check", [Fresh EXCEPT !.req = pq[i]])
  BY Taken
<1>3. loc'[w].req = pq[i]
  BY <1>2 DEF Moves, TypeOK, Fresh
<1>4. \A k \in DOMAIN pq' : \E j \in DOMAIN pq : pq'[k] = pq[j]
  BY <1>1, <1>2, RemovedFrom
<1>5. ASSUME NEW j \in DOMAIN pq, pq[j].chan = pq[i].chan, IsWrite(pq[j]), pq[j].seq < pq[i].seq
      PROVE  FALSE
  <2>1. IsWrite(pq[i])
    BY <1>3
  <2>2. EffectivePriority(pq[j]) = PrioWrite /\ EffectivePriority(pq[i]) = PrioWrite
    BY <1>5, <2>1 DEF IsWrite, EffectivePriority, PrioWrite, PrioFresh, PrioRefresh, PrioExt
  <2>3. Before(pq[j], pq[i])
    BY <1>5, <2>2 DEF Before
  <2>. QED
    BY <1>2, <1>5, <2>3
<1>. QED
  BY <1>3, <1>4, <1>5

LEMMA NextNumbered ==
  ASSUME TypeOK, Located, Numbered, WritesInOrder, ChannelSerial', [Next]_vars
  PROVE  Numbered' /\ WritesInOrder'
<1>0. /\ pc \in [Workers -> Labels] /\ loc \in [Workers -> Locals]
      /\ nreq \in Nat /\ pq \in Seq(Request)
      /\ \A i \in DOMAIN pq : pq[i] \in Request /\ pq[i].seq \in Nat
  <2>1. \A i \in DOMAIN pq : pq[i] \in Request
    BY LenProperties, ElementOfSeq DEF TypeOK
  <2>. QED
    BY <2>1, PoolAssumption DEF TypeOK, Labels, Request
<1>1. ASSUME \A i \in DOMAIN pq' : \/ nreq' = nreq + 1 /\ pq'[i].seq = nreq
                                   \/ \E j \in DOMAIN pq : pq'[i] = pq[j],
             nreq' \in {nreq, nreq + 1},
             \A w \in Serving' : w \in Serving /\ loc'[w].req = loc[w].req
      PROVE  Numbered' /\ WritesInOrder'
  <2>1. \A w \in Serving : loc[w].req.seq \in Nat
    BY Held DEF Serving
  <2>2. Numbered'
    BY <1>0, <1>1, <2>1 DEF Numbered
  <2>3. WritesInOrder'
    <3>1. SUFFICES ASSUME NEW w \in Serving', IsWrite(loc'[w].req)
                   PROVE  /\ \A i \in DOMAIN pq' : ~OlderWrite(pq[i], w)'
                          /\ \A v \in Serving' : ~OlderWrite(loc[v].req, w)'
      BY DEF WritesInOrder
    <3>2. w \in Serving /\ loc'[w].req = loc[w].req
      BY <1>1
    <3>3. /\ \A i \in DOMAIN pq : ~OlderWrite(pq[i], w)
          /\ \A v \in Serving : ~OlderWrite(loc[v].req, w)
      BY <3>1, <3>2 DEF WritesInOrder
    <3>4. loc[w].req.seq < nreq /\ loc[w].req.seq \in Nat
      BY <2>1, <3>2 DEF Numbered
    <3>5. ASSUME NEW i \in DOMAIN pq' PROVE ~OlderWrite(pq[i], w)'
      <4>1. CASE pq'[i].seq = nreq
        BY <1>0, <3>2, <3>4, <4>1 DEF OlderWrite
      <4>2. ASSUME NEW j \in DOMAIN pq, pq'[i] = pq[j] PROVE ~OlderWrite(pq[i], w)'
        BY <3>2, <3>3, <4>2 DEF OlderWrite
      <4>. QED
        BY <1>1, <4>1, <4>2
    <3>6. \A v \in Serving' : ~OlderWrite(loc[v].req, w)'
      BY <1>1, <3>2, <3>3 DEF OlderWrite
    <3>. QED
      BY <3>5, <3>6
  <2>. QED
    BY <2>2, <2>3
<1>2. ASSUME NEW c \in Channels, NEW p \in Classes, Queue(c, p)
      PROVE  Numbered' /\ WritesInOrder'
  <2>1. nreq' = nreq + 1 /\ UNCHANGED <<pc, loc>>
    BY <1>2 DEF Queue
  <2>. QED
    BY <1>1, <1>2, <2>1, QueueAdds DEF Serving
<1>3. ASSUME UNCHANGED <<pq, nreq>>, \A w \in Serving' : w \in Serving /\ loc'[w].req = loc[w].req
      PROVE  Numbered' /\ WritesInOrder'
  <2>1. \A i \in DOMAIN pq' : \E j \in DOMAIN pq : pq'[i] = pq[j]
    BY <1>3
  <2>2. nreq' \in {nreq, nreq + 1}
    BY <1>3
  <2>. QED
    BY <1>1, <1>3, <2>1, <2>2
<1>4. ASSUME NEW w \in Workers, Take(w) PROVE Numbered' /\ WritesInOrder'
  <2>1. PICK i \in DOMAIN pq :
           /\ pq[i] \in Request /\ pq' = RemoveBySwap(pq, i)
           /\ Moves(w, "check", [Fresh EXCEPT !.req = pq[i]])
    BY <1>4, Taken
  <2>2. nreq' = nreq
    BY <1>4 DEF Take
  <2>3. \A k \in DOMAIN pq' : \E j \in DOMAIN pq : pq'[k] = pq[j]
    BY <1>0, <2>1, RemovedFrom
  <2>4. Serving' = Serving \cup {w}
    BY <1>0, <2>1 DEF Moves, Serving, Busy
  <2>5. loc'[w].req = pq[i] /\ \A v \in Workers \ {w} : loc'[v] = loc[v]
    BY <1>0, <2>1 DEF Moves, Fresh
  <2>6. w \notin Serving
    BY <1>4 DEF Take, Serving, Busy
  <2>7. Numbered'
    BY <2>2, <2>3, <2>4, <2>5, <2>6 DEF Numbered, Serving
  <2>8. ASSUME NEW v \in Serving', IsWrite(loc'[v].req)
        PROVE  \A k \in DOMAIN pq' : ~OlderWrite(pq[k], v)'
    <3>1. CASE v = w
      BY <1>4, <2>8, <3>1, TakesOldestWrite DEF OlderWrite
    <3>2. CASE v # w
      <4>1. v \in Serving /\ loc'[v] = loc[v]
        BY <2>4, <2>5, <3>2 DEF Serving
      <4>2. \A j \in DOMAIN pq : ~OlderWrite(pq[j], v)
        BY <2>8, <4>1 DEF WritesInOrder
      <4>. QED
        BY <2>3, <4>1, <4>2 DEF OlderWrite
    <3>. QED
      BY <3>1, <3>2
  <2>9. ASSUME NEW v \in Serving', NEW u \in Serving'
        PROVE  ~OlderWrite(loc[u].req, v)'
    <3>1. CASE u = v
      <4>1. loc'[v].req.seq \in Nat
        <5>1. CASE v = w
          BY <1>0, <2>5, <5>1
        <5>2. CASE v # w
          BY <2>4, <2>5, <5>2, Held DEF Serving
        <5>. QED
          BY <5>1, <5>2
      <4>. QED
        BY <3>1, <4>1 DEF OlderWrite
    <3>2. CASE u # v
      BY <3>2 DEF ChannelSerial, OlderWrite
    <3>. QED
      BY <3>1, <3>2
  <2>. QED
    BY <2>7, <2>8, <2>9 DEF WritesInOrder
<1>5. ASSUME NEW w \in Workers, Worker(w), ~Take(w)
      PROVE  Numbered' /\ WritesInOrder'
  <2>1. UNCHANGED <<pq, nreq>> /\ \A v \in Serving' : v \in Serving /\ loc'[v].req = loc[v].req
    <3>1. CASE Skip(w) \/ Finish(w)
      BY <1>0, <3>1 DEF Skip, Finish, Goto, Serving, Busy
    <3>2. ASSUME NEW p \in Labels, NEW l \in Locals, Carries(w, p, l)
          PROVE  /\ UNCHANGED <<pq, nreq>>
                 /\ \A v \in Serving' : v \in Serving /\ loc'[v].req = loc[v].req
      BY <1>0, <3>2 DEF Carries, queueVars, Moves, Serving
    <3>. QED
      BY <1>5, <3>1, <3>2, WorkerSteps
  <2>. QED
    BY <1>3, <2>1
<1>6. ASSUME UNCHANGED <<pq, nreq, pc, loc>> PROVE Numbered' /\ WritesInOrder'
  BY <1>3, <1>6 DEF Serving
<1>7. CASE UNCHANGED vars
  BY <1>6, <1>7 DEF vars
<1>8. CASE Pause \/ Unpause
  BY <1>6, <1>8 DEF Pause, Unpause, queueVars
<1>9. ASSUME NEW b \in Boards, NEW ip \in Addresses \cup {NoAddress}, EditBoard(b, ip)
      PROVE  Numbered' /\ WritesInOrder'
  BY <1>6, <1>9 DEF EditBoard, queueVars
<1>10. ASSUME NEW s \in SlotSet, Drop(s) PROVE Numbered' /\ WritesInOrder'
  BY <1>6, <1>10 DEF Drop, queueVars
<1>. QED
  BY <1>2, <1>4, <1>5, <1>7, <1>8, <1>9, <1>10 DEF Next

\* The writes queued for a channel go on its wire in the order they were queued
\* in, whichever workers carry them: no older one waits or is being served while
\* a younger one is served.
THEOREM WritesKeepOrder ==
  ASSUME ~Leaks
  PROVE  Spec => []WritesInOrder
<1>. DEFINE Inv == PoolInv /\ Numbered /\ WritesInOrder
<1>1. Init => Numbered /\ WritesInOrder
  BY DEF Init, Numbered, WritesInOrder, Serving, Busy
<1>2. PoolInv' => ChannelSerial'
  BY DEF PoolInv, Serial
<1>3. PoolInv /\ PoolInv' /\ Numbered /\ WritesInOrder /\ [Next]_vars
        => Numbered' /\ WritesInOrder'
  BY <1>2, NextNumbered DEF PoolInv
<1>. QED
  BY <1>1, <1>3, PoolInvariant, PTL DEF Spec
=============================================================================
