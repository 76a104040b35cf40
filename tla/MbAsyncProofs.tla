--------------------------- MODULE MbAsyncProofs ---------------------------
(***************************************************************************)
(* Proofs about MbAsync for every value of its constants: the types of the *)
(* variables, that no wake-up of the background task is lost, and that the *)
(* queue never loses a write.                                              *)
(***************************************************************************)
EXTENDS MbAsync, SequenceTheorems, FiniteSetTheorems, TLAPS

(***************************************************************************)
(* Sequences.                                                              *)
(***************************************************************************)

\* Replacing every element of a sequence gives a sequence of the same length.
LEMMA MapSeq ==
  ASSUME NEW S, NEW T, NEW q \in Seq(S), NEW f \in [DOMAIN q -> T]
  PROVE  f \in Seq(T) /\ Len(f) = Len(q)
<1>1. Len(q) \in Nat /\ DOMAIN q = 1 .. Len(q)
  BY LenProperties
<1>2. f \in [1 .. Len(q) -> T]
  BY <1>1
<1>. QED
  BY <1>1, <1>2, SeqDef

\* Swap-removal takes out one element and adds none (mb_pq_dequeue).
LEMMA RemoveBySwapProperties ==
  ASSUME NEW S, NEW q \in Seq(S), NEW i \in DOMAIN q
  PROVE  /\ RemoveBySwap(q, i) \in Seq(S)
         /\ Len(RemoveBySwap(q, i)) = Len(q) - 1
         /\ \A j \in DOMAIN q \ {i} :
              \E k \in DOMAIN RemoveBySwap(q, i) : RemoveBySwap(q, i)[k] = q[j]
         /\ \A k \in DOMAIN RemoveBySwap(q, i) :
              \E j \in DOMAIN q : RemoveBySwap(q, i)[k] = q[j]
<1>. DEFINE n == Len(q)
            p == [q EXCEPT ![i] = q[n]]
<1>1. n \in Nat /\ DOMAIN q = 1 .. n /\ i \in 1 .. n
  BY LenProperties
<1>2. q[n] \in S
  BY <1>1, ElementOfSeq
<1>3. /\ p \in Seq(S) /\ Len(p) = n
      /\ \A j \in 1 .. n : p[j] = IF j = i THEN q[n] ELSE q[j]
  BY <1>1, <1>2, ExceptSeq
<1>4. \A j \in 1 .. n-1 : p[j] \in S
  BY <1>1, <1>3, ElementOfSeq
<1>5. /\ SubSeq(p, 1, n-1) \in Seq(S)
      /\ Len(SubSeq(p, 1, n-1)) = n - 1
      /\ \A j \in 1 .. n-1 : SubSeq(p, 1, n-1)[j] = p[j]
  <2>1. 1 \in Int /\ n-1 \in Int
    BY <1>1
  <2>. HIDE DEF p
  <2>. QED
    BY <1>1, <1>4, <2>1, SubSeqProperties
<1>6. DOMAIN SubSeq(p, 1, n-1) = 1 .. n-1
  BY <1>5, <1>1, LenProperties
<1>7. ASSUME NEW j \in DOMAIN q \ {i}
      PROVE  \E k \in 1 .. n-1 : p[k] = q[j]
  <2>1. CASE j = n
    <3>1. i \in 1 .. n-1 /\ p[i] = q[j]
      BY <1>1, <1>3, <2>1
    <3>. QED
      BY <3>1
  <2>2. CASE j # n
    <3>1. j \in 1 .. n-1 /\ p[j] = q[j]
      BY <1>1, <1>3, <2>2
    <3>. QED
      BY <3>1
  <2>. QED
    BY <2>1, <2>2
<1>8. ASSUME NEW k \in 1 .. n-1
      PROVE  \E j \in DOMAIN q : p[k] = q[j]
  BY <1>1, <1>3
<1>. QED
  BY <1>5, <1>6, <1>7, <1>8 DEF RemoveBySwap

(***************************************************************************)
(* The operators of the cache keep entries entries.                        *)
(***************************************************************************)
LEMMA BlankType == ASSUME NEW k \in Addrs PROVE Blank(k) \in Entry
BY MbAssumption DEF Blank, Entry, Statuses, Errors

\* Updating one field of an entry.
LEMMA EntryFields ==
  ASSUME NEW e \in Entry
  PROVE  /\ \A x \in Statuses : [e EXCEPT !.status = x] \in Entry
         /\ \A x \in Errors : [e EXCEPT !.err = x] \in Entry
         /\ \A x \in Vals : [e EXCEPT !.val = x] \in Entry
         /\ \A x \in Nat : [e EXCEPT !.upd = x] \in Entry
         /\ [e EXCEPT !.pend = 0] \in Entry
<1>1. 0 \in 0 .. StaleLimit
  BY MbAssumption
<1>. QED
  BY <1>1 DEF Entry

LEMMA MarkedType == ASSUME NEW e \in Entry PROVE Marked(e) \in Entry
<1>. DEFINE f == [e EXCEPT !.status = "pending"]
<1>1. f \in Entry
  BY EntryFields DEF Statuses
<1>2. [f EXCEPT !.pend = 0] \in Entry
  BY <1>1, EntryFields
<1>. QED
  BY <1>2, Zenon DEF Marked

LEMMA UsableType == ASSUME NEW e \in Entry PROVE Usable(e) \in Entry
<1>. DEFINE f == [e EXCEPT !.status = IF e.upd > 0 THEN "valid" ELSE "empty"]
<1>1. f \in Entry
  BY EntryFields DEF Statuses
<1>2. [f EXCEPT !.pend = 0] \in Entry
  BY <1>1, EntryFields
<1>. QED
  BY <1>2, Zenon DEF Usable

LEMMA ClearedType ==
  ASSUME CacheOK, NEW reqs
  PROVE  Cleared(reqs) \in Seq(Entry) /\ Len(Cleared(reqs)) = Len(cache)
<1>1. \A s \in DOMAIN cache : cache[s] \in Entry
  BY ElementOfSeq, LenProperties DEF CacheOK
<1>2. Cleared(reqs) \in [DOMAIN cache -> Entry]
  BY <1>1, UsableType DEF Cleared
<1>. QED
  BY <1>2, MapSeq DEF CacheOK

LEMMA SweptType ==
  ASSUME CacheOK
  PROVE  Swept \in Seq(Entry) /\ Len(Swept) = Len(cache)
<1>1. \A s \in DOMAIN cache : cache[s] \in Entry
  BY ElementOfSeq, LenProperties DEF CacheOK
<1>2. \A e \in Entry : [e EXCEPT !.err = "timeout"] \in Entry
  BY DEF Entry, Errors
<1>3. Swept \in [DOMAIN cache -> Entry]
  BY <1>1, <1>2, UsableType DEF Swept
<1>. QED
  BY <1>3, MapSeq DEF CacheOK

\* What mb_cache_get_or_create hands out is an entry, and an entry may be
\* stored there without the cache outgrowing its limit.
LEMMA GivesType ==
  ASSUME CacheOK, NEW k \in Addrs, NEW s \in 1 .. CacheLimit, Gives(s, k)
  PROVE  /\ EntryFor(s, k) \in Entry
         /\ \A e \in Entry : Put(s, e) \in Seq(Entry) /\ Len(Put(s, e)) <= CacheLimit
<1>1. DOMAIN cache = 1 .. Len(cache) /\ Len(cache) \in Nat
  BY LenProperties DEF CacheOK
<1>2. EntryFor(s, k) \in Entry
  BY <1>1, ElementOfSeq, BlankType DEF EntryFor, Holds, CacheOK
<1>3. ASSUME NEW e \in Entry, s \in DOMAIN cache
      PROVE  Put(s, e) \in Seq(Entry) /\ Len(Put(s, e)) <= CacheLimit
  BY <1>1, <1>3, ExceptSeq DEF Put, CacheOK
<1>4. ASSUME NEW e \in Entry, s \notin DOMAIN cache
      PROVE  Put(s, e) \in Seq(Entry) /\ Len(Put(s, e)) <= CacheLimit
  <2>1. Len(cache) < CacheLimit
    <3>1. SUFFICES ASSUME ~(Len(cache) < CacheLimit) PROVE FALSE
      OBVIOUS
    <3>2. IsLruVictim(s) /\ Len(cache) >= 1
      BY <3>1, <1>1, <1>4, MbAssumption DEF Gives, Holds, CacheOK
    <3>. QED
      BY <3>2, <1>1, <1>4 DEF IsLruVictim
  <2>. QED
    BY <1>1, <1>4, <2>1, MbAssumption, AppendProperties DEF Put, CacheOK
<1>. QED
  BY <1>2, <1>3, <1>4

(***************************************************************************)
(* Callers.                                                                *)
(***************************************************************************)
LEMMA NewRequestType ==
  ASSUME QueueOK, NEW l \in Loc, l.op \in Ops
  PROVE  NewRequest(l) \in Request
BY MbAssumption, QueueAssumption DEF NewRequest, Request, Loc, QueueOK

LEMMA OpType ==
  ASSUME NEW op \in Ops
  PROVE  /\ op.kind \in OpKinds /\ op.addr \in Addrs /\ op.addr \in Nat
         /\ op.n \in 1 .. MaxCount
         /\ op.vals \in [1 .. MaxCount -> Vals]
         /\ \A j \in 1 .. op.n : op.addr + (j-1) \in Addrs
<1>1. op \in [kind : OpKinds, addr : Addrs, n : 1 .. MaxCount,
              vals : [1 .. MaxCount -> Vals]]
  BY MbAssumption
<1>. QED
  BY <1>1, MbAssumption

LEMMA NewLocType ==
  ASSUME NEW op \in Ops
  PROVE  NewLoc(op) \in Loc /\ NewLoc(op).op = op /\ NewLoc(op).i <= op.n
<1>1. NewLoc(op) = [op |-> op, slot |-> 1, ring |-> 1, prio |-> PrioWrite,
                    i |-> 1, drop |-> {}]
  BY DEF NewLoc, IdleLoc
<1>2. 1 \in 1 .. CacheLimit /\ 1 \in 1 .. PoolSize /\ 1 \in 1 .. MaxCount
  BY MbAssumption
<1>3. PrioWrite \in Priorities /\ {} \in SUBSET Request
  BY DEF PrioWrite, PrioExt, Priorities
<1>4. 1 <= op.n
  BY OpType
<1>. QED
  BY <1>1, <1>2, <1>3, <1>4 DEF Loc

LEMMA IdleLocType == IdleLoc \in Loc
BY MbAssumption DEF IdleLoc, Loc, Priorities, PrioWrite, PrioExt

\* Moving one caller keeps the callers' types.
LEMMA GotoType ==
  ASSUME CallOK, CallsLocated, NEW c \in Callers, NEW label \in PcLabels, NEW l \in Loc,
         Goto(c, label, l), label # "idle" => l.op \in Ops /\ l.i <= l.op.n,
         opsLeft' \in 0 .. MaxOps
  PROVE  CallOK' /\ CallsLocated'
BY DEF CallOK, CallsLocated, Goto

LEMMA DoneType ==
  ASSUME CallOK, CallsLocated, NEW c \in Callers, Done(c), opsLeft' \in 0 .. MaxOps
  PROVE  CallOK' /\ CallsLocated'
BY GotoType, IdleLocType DEF Done, PcLabels

\* A call is begun: one less is allowed.
LEMMA CallsType ==
  ASSUME CallOK, NEW c \in Callers, NEW op, NEW kind, Calls(c, op, kind)
  PROVE  op \in Ops /\ op.kind = kind /\ opsLeft' \in 0 .. MaxOps
BY MbAssumption DEF Calls, CallOK

(***************************************************************************)
(* A part of the state that a step leaves alone keeps its type.            *)
(***************************************************************************)
restVars == <<cacheOn, paused, pool, poolNext, backoff, dev, lastQueued>>

LEMMA QueueSame == QueueOK /\ UNCHANGED queueVars => QueueOK'
BY DEF QueueOK, queueVars
LEMMA CacheSame == CacheOK /\ UNCHANGED cacheVars => CacheOK'
BY DEF CacheOK, cacheVars
LEMMA CallsSame == CallOK /\ CallsLocated /\ UNCHANGED callVars
                     => CallOK' /\ CallsLocated'
BY DEF CallOK, CallsLocated, callVars
LEMMA TaskSame == TaskOK /\ TaskLocated /\ UNCHANGED taskVars
                    => TaskOK' /\ TaskLocated'
BY DEF TaskOK, TaskLocated, taskVars
LEMMA RestSame == RestOK /\ UNCHANGED restVars => RestOK'
BY DEF RestOK, restVars

USE DEF TypeOK

LEMMA LastQueuedType ==
  ASSUME RestOK, NEW op \in Ops
  PROVE  LastQueued(op) \in [Addrs -> Vals]
<1>1. ASSUME NEW a \in Addrs, a \in op.addr .. (op.addr + op.n - 1)
      PROVE  op.vals[a - op.addr + 1] \in Vals
  <2>1. a \in Nat /\ op.addr \in Nat /\ op.n \in 1 .. MaxCount /\ MaxCount \in Nat
    BY OpType, MbAssumption
  <2>2. a - op.addr + 1 \in 1 .. MaxCount
    BY <2>1, <1>1
  <2>. QED
    BY <2>2, OpType
<1>. QED
  BY <1>1 DEF LastQueued, RestOK

LEMMA InsertTypes ==
  ASSUME TypeOK, NEW c \in Callers, Insert(c)
  PROVE  TypeOK'
<1>. DEFINE r == NewRequest(loc[c])
<1>1. loc[c] \in Loc /\ loc[c].op \in Ops /\ loc[c].i <= loc[c].op.n
  BY DEF CallOK, CallsLocated, Insert
<1>2. r \in Request
  BY <1>1, NewRequestType
<1>3. DOMAIN pq = 1 .. Len(pq) /\ Len(pq) \in Nat
  BY LenProperties DEF QueueOK
<1>4. seqNo' \in 0 .. (SeqWrap-1)
  BY MbAssumption DEF Insert, QueueOK
<1>5. opsLeft' \in 0 .. MaxOps
  BY DEF Insert, CallOK
<1>6. CASE InsertRoom(c)
  <2>1. pq' \in Seq(Request) /\ Len(pq') <= QueueLimit
    BY <1>2, <1>3, <1>6, QueueAssumption, AppendProperties DEF InsertRoom, HasRoom, QueueOK
  <2>2. CallOK' /\ CallsLocated'
    BY <1>1, <1>5, <1>6, GotoType DEF InsertRoom, PcLabels
  <2>3. lastQueued' \in [Addrs -> Vals]
    BY <1>1, <1>6, LastQueuedType DEF InsertRoom
  <2>. QED
    BY <1>4, <2>1, <2>2, <2>3, CacheSame, TaskSame DEF Insert, QueueOK, RestOK, poolVars
<1>7. CASE InsertEvict(c)
  <2>. PICK i \in DOMAIN pq :
         /\ pq' = [pq EXCEPT ![i] = r]
         /\ Goto(c, "signal", [loc[c] EXCEPT !.drop = {pq[i]}])
    BY <1>7 DEF InsertEvict
  <2>1. pq' \in Seq(Request) /\ Len(pq') <= QueueLimit
    BY <1>2, <1>3, ExceptSeq DEF QueueOK
  <2>2. pq[i] \in Request
    BY <1>3, ElementOfSeq DEF QueueOK
  <2>3. [loc[c] EXCEPT !.drop = {pq[i]}] \in Loc
    BY <1>1, <2>2 DEF Loc
  <2>4. /\ [loc[c] EXCEPT !.drop = {pq[i]}].op = loc[c].op
        /\ [loc[c] EXCEPT !.drop = {pq[i]}].i = loc[c].i
    BY <1>1 DEF Loc
  <2>5. CallOK' /\ CallsLocated'
    BY <1>1, <1>5, <2>3, <2>4, GotoType DEF PcLabels
  <2>6. lastQueued' \in [Addrs -> Vals]
    BY <1>1, <1>7, LastQueuedType DEF InsertEvict
  <2>. QED
    BY <1>4, <2>1, <2>5, <2>6, CacheSame, TaskSame DEF Insert, QueueOK, RestOK, poolVars
<1>8. CASE Fails(c) /\ UNCHANGED <<pq, lastQueued>>
  <2>1. CallOK' /\ CallsLocated'
    BY <1>1, <1>5, <1>8, GotoType, DoneType DEF Fails, PcLabels
  <2>. QED
    BY <1>4, <1>8, <2>1, CacheSame, TaskSame DEF Insert, QueueOK, RestOK, poolVars
<1>. QED
  BY <1>6, <1>7, <1>8 DEF Insert

\* The entries of the cache, and putting one in the place of another.
LEMMA CacheEntries ==
  ASSUME CacheOK
  PROVE  /\ DOMAIN cache = 1 .. Len(cache) /\ Len(cache) \in Nat
         /\ \A s \in DOMAIN cache : cache[s] \in Entry
BY ElementOfSeq, LenProperties DEF CacheOK

LEMMA ReplacedType ==
  ASSUME CacheOK, NEW s \in DOMAIN cache, NEW e \in Entry
  PROVE  [cache EXCEPT ![s] = e] \in Seq(Entry) /\ Len([cache EXCEPT ![s] = e]) <= CacheLimit
BY CacheEntries, ExceptSeq DEF CacheOK

\* A caller in the middle of its call: what its locals hold.
LEMMA InCall ==
  ASSUME CallOK, CallsLocated, NEW c \in Callers, pc[c] # "idle"
  PROVE  /\ loc[c] \in Loc /\ loc[c].op \in Ops /\ loc[c].i <= loc[c].op.n
         /\ opsLeft \in 0 .. MaxOps
BY DEF CallOK, CallsLocated

LEMMA SignalTypes ==
  ASSUME TypeOK, NEW c \in Callers, Signal(c)
  PROVE  TypeOK'
<1>1. loc[c] \in Loc /\ loc[c].op \in Ops /\ loc[c].i <= loc[c].op.n /\ opsLeft \in 0 .. MaxOps
  BY InCall DEF Signal
<1>2. CacheOK'
  BY ClearedType DEF Signal, CacheOK
<1>3. QueueOK'
  <2>1. sem' \in 0 .. SemMax
    <3>1. SemMax \in Nat /\ sem \in 0 .. SemMax
      BY MbAssumption DEF QueueOK
    <3>2. Given \in 0 .. SemMax
      BY <3>1 DEF Given
    <3>. QED
      BY <3>2 DEF Signal
  <2>2. pq' = pq /\ seqNo' = seqNo
    BY DEF Signal
  <2>. QED
    BY <2>1, <2>2 DEF QueueOK
<1>. DEFINE l == [loc[c] EXCEPT !.drop = {}]
<1>4. l \in Loc /\ l.op = loc[c].op /\ l.i = loc[c].i
  BY <1>1 DEF Loc
<1>5. CallOK' /\ CallsLocated'
  <2>1. CASE Goto(c, "wcache", l)
    BY <1>1, <1>4, <2>1, GotoType DEF Signal, PcLabels
  <2>2. CASE Done(c)
    BY <1>1, <2>2, DoneType DEF Signal
  <2>. QED
    BY <2>1, <2>2 DEF Signal
<1>. QED
  BY <1>2, <1>3, <1>5, TaskSame, RestSame DEF Signal, restVars, poolVars, busVars

LEMMA StReadTypes ==
  ASSUME TypeOK, NEW c \in Callers, NEW op, StRead(c, op)
  PROVE  TypeOK'
<1>1. op \in Ops /\ op.kind = "read" /\ opsLeft' \in 0 .. MaxOps
  BY CallsType DEF StRead
<1>2. op.addr \in Addrs
  BY <1>1, OpType
<1>3. CacheOK'
  BY <1>2, GivesType DEF StRead, CacheOK
<1>4. CallOK' /\ CallsLocated'
  BY <1>1, NewLocType, GotoType, DoneType DEF StRead, PcLabels
<1>. QED
  BY <1>3, <1>4, QueueSame, TaskSame, RestSame DEF StRead, restVars, poolVars, busVars

LEMMA ExtReadTypes ==
  ASSUME TypeOK, NEW c \in Callers, NEW op, ExtRead(c, op)
  PROVE  TypeOK'
<1>1. op \in Ops /\ opsLeft' \in 0 .. MaxOps
  BY CallsType DEF ExtRead
<1>2. CallOK' /\ CallsLocated'
  BY <1>1, NewLocType, GotoType DEF ExtRead, PcLabels
<1>. QED
  BY <1>2, QueueSame, CacheSame, TaskSame, RestSame
     DEF ExtRead, restVars, poolVars, busVars

LEMMA UpgradedType ==
  ASSUME QueueOK, NEW k, NEW p \in Priorities
  PROVE  Upgraded(k, p) \in Seq(Request) /\ Len(Upgraded(k, p)) = Len(pq)
<1>1. \A i \in DOMAIN pq : pq[i] \in Request
  BY ElementOfSeq, LenProperties DEF QueueOK
<1>2. \A r \in Request : [r EXCEPT !.prio = p] \in Request
  BY DEF Request
<1>3. Upgraded(k, p) \in [DOMAIN pq -> Request]
  BY <1>1, <1>2 DEF Upgraded
<1>. QED
  BY <1>3, MapSeq DEF QueueOK

LEMMA FindPendingTypes ==
  ASSUME TypeOK, NEW c \in Callers, FindPending(c)
  PROVE  TypeOK'
<1>1. opsLeft' \in 0 .. MaxOps
  BY DEF FindPending, CallOK
<1>2. CallOK' /\ CallsLocated'
  BY <1>1, DoneType DEF FindPending
<1>3. PrioRefresh \in Priorities /\ PrioFresh \in Priorities
  BY DEF PrioRefresh, PrioFresh, Priorities, PrioWrite, PrioExt
<1>4. QueueOK'
  <2>1. CASE pq' = pq
    BY <2>1, QueueSame DEF FindPending, queueVars
  <2>2. CASE \E p \in Priorities : pq' = Upgraded(loc[c].op.addr, p)
    BY <2>2, UpgradedType DEF FindPending, QueueOK
  <2>. QED
    BY <1>3, <2>1, <2>2 DEF FindPending
<1>. QED
  BY <1>2, <1>4, CacheSame, TaskSame, RestSame
     DEF FindPending, restVars, poolVars, busVars

\* Setting the fields of a caller's locals.
LEMMA LocFields ==
  ASSUME NEW l \in Loc
  PROVE  /\ \A s \in 1 .. CacheLimit :
              /\ [l EXCEPT !.slot = s] \in Loc
              /\ [l EXCEPT !.slot = s].op = l.op /\ [l EXCEPT !.slot = s].i = l.i
         /\ \A p \in Priorities :
              /\ [l EXCEPT !.prio = p] \in Loc
              /\ [l EXCEPT !.prio = p].op = l.op /\ [l EXCEPT !.prio = p].i = l.i
         /\ \A r \in 1 .. PoolSize :
              /\ [l EXCEPT !.ring = r] \in Loc
              /\ [l EXCEPT !.ring = r].op = l.op /\ [l EXCEPT !.ring = r].i = l.i
         /\ \A i \in 1 .. MaxCount :
              /\ [l EXCEPT !.i = i] \in Loc
              /\ [l EXCEPT !.i = i].op = l.op /\ [l EXCEPT !.i = i].i = i
BY DEF Loc

LEMMA FindOtherTypes ==
  ASSUME TypeOK, NEW c \in Callers, FindOther(c)
  PROVE  TypeOK'
<1>1. loc[c] \in Loc /\ loc[c].op \in Ops /\ loc[c].i <= loc[c].op.n /\ opsLeft \in 0 .. MaxOps
  BY InCall DEF FindOther
<1>. DEFINE k == loc[c].op.addr
<1>2. k \in Addrs
  BY <1>1, OpType
<1>3. PICK s \in 1 .. CacheLimit, p \in Priorities :
        /\ Gives(s, k)
        /\ cache' = Put(s, EntryFor(s, k))
        /\ Goto(c, "mark", [loc[c] EXCEPT !.slot = s, !.prio = p])
  <2>1. PrioExt \in Priorities /\ PrioRefresh \in Priorities /\ PrioFresh \in Priorities
    BY DEF PrioRefresh, PrioFresh, Priorities, PrioWrite, PrioExt
  <2>. QED
    BY <2>1 DEF FindOther
<1>4. CacheOK'
  BY <1>2, <1>3, GivesType DEF FindOther, CacheOK
<1>. DEFINE l == [loc[c] EXCEPT !.slot = s]
            m == [l EXCEPT !.prio = p]
<1>5. l \in Loc /\ l.op = loc[c].op /\ l.i = loc[c].i
  BY <1>1, LocFields
<1>6. m \in Loc /\ m.op = loc[c].op /\ m.i = loc[c].i
  BY <1>5, LocFields
<1>7. Goto(c, "mark", m)
  BY <1>3, Zenon
<1>. HIDE DEF m, l, k
<1>8. CallOK' /\ CallsLocated'
  <2>1. opsLeft' \in 0 .. MaxOps
    BY <1>1 DEF FindOther
  <2>2. m.op \in Ops /\ m.i <= m.op.n
    BY <1>1, <1>6
  <2>. QED
    BY <1>6, <1>7, <2>1, <2>2, GotoType DEF PcLabels
<1>. QED
  BY <1>4, <1>8, QueueSame, TaskSame, RestSame DEF FindOther, restVars, poolVars, busVars

LEMMA MarkReadTypes ==
  ASSUME TypeOK, NEW c \in Callers, MarkRead(c)
  PROVE  TypeOK'
<1>1. loc[c] \in Loc /\ loc[c].op \in Ops /\ loc[c].i <= loc[c].op.n /\ opsLeft \in 0 .. MaxOps
  BY InCall DEF MarkRead
<1>2. CacheOK'
  <2>1. CASE loc[c].slot \in DOMAIN cache
    <3>1. Marked(cache[loc[c].slot]) \in Entry
      BY <2>1, CacheEntries, MarkedType
    <3>2. cache' = [cache EXCEPT ![loc[c].slot] = Marked(cache[loc[c].slot])]
      BY <2>1 DEF MarkRead
    <3>. QED
      BY <2>1, <3>1, <3>2, ReplacedType DEF MarkRead, CacheOK
  <2>2. CASE loc[c].slot \notin DOMAIN cache
    BY <2>2 DEF MarkRead, CacheOK
  <2>. QED
    BY <2>1, <2>2
<1>3. CallOK' /\ CallsLocated'
  BY <1>1, GotoType DEF MarkRead, PcLabels
<1>. QED
  BY <1>2, <1>3, QueueSame, TaskSame, RestSame DEF MarkRead, restVars, poolVars, busVars

LEMMA RevertTypes ==
  ASSUME TypeOK, NEW c \in Callers, Revert(c)
  PROVE  TypeOK'
<1>1. opsLeft' \in 0 .. MaxOps
  BY DEF Revert, CallOK
<1>2. CacheOK'
  <2>1. CASE loc[c].slot \in DOMAIN cache
    <3>1. Usable(cache[loc[c].slot]) \in Entry
      BY <2>1, CacheEntries, UsableType
    <3>2. cache' = [cache EXCEPT ![loc[c].slot] = Usable(cache[loc[c].slot])]
      BY <2>1 DEF Revert
    <3>. QED
      BY <2>1, <3>1, <3>2, ReplacedType DEF Revert, CacheOK
  <2>2. CASE loc[c].slot \notin DOMAIN cache
    BY <2>2 DEF Revert, CacheOK
  <2>. QED
    BY <2>1, <2>2
<1>3. CallOK' /\ CallsLocated'
  BY <1>1, DoneType DEF Revert
<1>. QED
  BY <1>2, <1>3, QueueSame, TaskSame, RestSame DEF Revert, restVars, poolVars, busVars

LEMMA StWriteTypes ==
  ASSUME TypeOK, NEW c \in Callers, NEW op, StWrite(c, op)
  PROVE  TypeOK'
<1>1. op \in Ops /\ opsLeft' \in 0 .. MaxOps
  BY CallsType DEF StWrite
<1>2. CallOK' /\ CallsLocated'
  BY <1>1, NewLocType, GotoType DEF StWrite, PcLabels
<1>. QED
  BY <1>2, QueueSame, CacheSame, TaskSame, RestSame
     DEF StWrite, restVars, poolVars, busVars

LEMMA ExtWriteTypes ==
  ASSUME TypeOK, NEW c \in Callers, NEW op, ExtWrite(c, op)
  PROVE  TypeOK'
<1>1. op \in Ops /\ opsLeft' \in 0 .. MaxOps
  BY CallsType DEF ExtWrite
<1>2. CallOK' /\ CallsLocated'
  BY <1>1, NewLocType, GotoType DEF ExtWrite, PcLabels
<1>. QED
  BY <1>2, QueueSame, CacheSame, TaskSame, RestSame
     DEF ExtWrite, restVars, poolVars, busVars

LEMMA ShowWriteTypes ==
  ASSUME TypeOK, NEW c \in Callers, ShowWrite(c)
  PROVE  TypeOK'
<1>1. loc[c] \in Loc /\ loc[c].op \in Ops /\ loc[c].i <= loc[c].op.n /\ opsLeft \in 0 .. MaxOps
  BY InCall DEF ShowWrite
<1>2. loc[c].op.addr \in Addrs /\ loc[c].op.vals[1] \in Vals
  <2>1. 1 \in 1 .. MaxCount
    BY MbAssumption
  <2>. QED
    BY <1>1, <2>1, OpType
<1>3. CacheOK'
  <2>. PICK s \in 1 .. CacheLimit :
         /\ Gives(s, loc[c].op.addr)
         /\ cache' = Put(s, Marked([EntryFor(s, loc[c].op.addr) EXCEPT
                                      !.val = loc[c].op.vals[1]]))
    BY DEF ShowWrite
  <2>1. Marked([EntryFor(s, loc[c].op.addr) EXCEPT !.val = loc[c].op.vals[1]]) \in Entry
    BY <1>2, GivesType, EntryFields, MarkedType
  <2>. QED
    BY <1>2, <2>1, GivesType DEF ShowWrite, CacheOK
<1>4. CallOK' /\ CallsLocated'
  BY <1>1, GotoType, DoneType DEF ShowWrite, PcLabels
<1>. QED
  BY <1>3, <1>4, QueueSame, TaskSame, RestSame DEF ShowWrite, restVars, poolVars, busVars

LEMMA ReadNTypes ==
  ASSUME TypeOK, NEW c \in Callers, NEW op, ReadN(c, op)
  PROVE  TypeOK'
<1>1. op \in Ops /\ opsLeft' \in 0 .. MaxOps
  BY CallsType DEF ReadN
<1>2. PICK p \in Priorities : Goto(c, "mark", [NewLoc(op) EXCEPT !.prio = p])
  <2>1. PrioExt \in Priorities /\ PrioRefresh \in Priorities /\ PrioFresh \in Priorities
    BY DEF PrioRefresh, PrioFresh, Priorities, PrioWrite, PrioExt
  <2>. QED
    BY <2>1 DEF ReadN
<1>. DEFINE l == [NewLoc(op) EXCEPT !.prio = p]
<1>3. l \in Loc /\ l.op \in Ops /\ l.i <= l.op.n
  BY <1>1, NewLocType, LocFields
<1>4. CallOK' /\ CallsLocated'
  BY <1>1, <1>2, <1>3, GotoType DEF PcLabels
<1>. QED
  BY <1>4, QueueSame, CacheSame, TaskSame, RestSame
     DEF ReadN, restVars, poolVars, busVars

LEMMA MarkReadNTypes ==
  ASSUME TypeOK, NEW c \in Callers, MarkReadN(c)
  PROVE  TypeOK'
<1>1. loc[c] \in Loc /\ loc[c].op \in Ops /\ loc[c].i <= loc[c].op.n /\ opsLeft \in 0 .. MaxOps
  BY InCall DEF MarkReadN
<1>2. /\ loc[c].i \in 1 .. MaxCount /\ loc[c].op.n \in 1 .. MaxCount
      /\ MaxCount \in Nat /\ loc[c].op.addr \in Nat
  BY <1>1, OpType, MbAssumption DEF Loc
<1>3. loc[c].op.addr + loc[c].i - 1 \in Addrs
  <2>1. loc[c].i \in 1 .. loc[c].op.n
    BY <1>1, <1>2
  <2>2. loc[c].op.addr + (loc[c].i - 1) = loc[c].op.addr + loc[c].i - 1
    BY <1>2
  <2>. QED
    BY <1>1, <2>1, <2>2, OpType
<1>4. CacheOK'
  BY <1>3, GivesType, MarkedType DEF MarkReadN, CacheOK
<1>5. CASE loc[c].i < loc[c].op.n /\ Goto(c, "mark", [loc[c] EXCEPT !.i = loc[c].i + 1])
  <2>1. loc[c].i + 1 \in 1 .. MaxCount /\ loc[c].i + 1 <= loc[c].op.n
    BY <1>2, <1>5
  <2>2. CallOK' /\ CallsLocated'
    BY <1>1, <1>5, <2>1, LocFields, GotoType DEF MarkReadN, PcLabels
  <2>. QED
    BY <1>4, <2>2, QueueSame, TaskSame, RestSame DEF MarkReadN, restVars, poolVars, busVars
<1>6. CASE Goto(c, "insert", loc[c])
  <2>1. CallOK' /\ CallsLocated'
    BY <1>1, <1>6, GotoType DEF MarkReadN, PcLabels
  <2>. QED
    BY <1>4, <2>1, QueueSame, TaskSame, RestSame DEF MarkReadN, restVars, poolVars, busVars
<1>. QED
  BY <1>5, <1>6 DEF MarkReadN

LEMMA WriteNTypes ==
  ASSUME TypeOK, NEW c \in Callers, NEW op, WriteN(c, op)
  PROVE  TypeOK'
<1>1. op \in Ops /\ opsLeft' \in 0 .. MaxOps
  BY CallsType DEF WriteN
<1>2. /\ poolNext \in 1 .. PoolSize
      /\ pool \in [1 .. PoolSize -> [1 .. MaxCount -> Vals]]
      /\ op.vals \in [1 .. MaxCount -> Vals]
  BY <1>1, OpType DEF RestOK
<1>3. pool' \in [1 .. PoolSize -> [1 .. MaxCount -> Vals]]
  <2>1. [j \in 1 .. MaxCount |-> IF j <= op.n THEN op.vals[j] ELSE pool[poolNext][j]]
          \in [1 .. MaxCount -> Vals]
    BY <1>2
  <2>. QED
    BY <1>2, <2>1 DEF WriteN
<1>4. poolNext' \in 1 .. PoolSize
  BY <1>2, MbAssumption DEF WriteN, NextSlot
<1>. DEFINE l == [NewLoc(op) EXCEPT !.ring = poolNext]
<1>5. l \in Loc /\ l.op \in Ops /\ l.i <= l.op.n
  BY <1>1, <1>2, NewLocType, LocFields
<1>6. CallOK' /\ CallsLocated'
  BY <1>1, <1>5, GotoType DEF WriteN, PcLabels
<1>7. RestOK'
  BY <1>3, <1>4 DEF WriteN, RestOK, busVars
<1>. QED
  BY <1>6, <1>7, QueueSame, CacheSame, TaskSame DEF WriteN

LEMMA AdminTypes ==
  ASSUME TypeOK, NEW c \in Callers, NEW op,
         SetCache(c, op) \/ ResetCache(c, op) \/ ResetStats(c, op) \/ Pause(c, op)
  PROVE  TypeOK'
<1>1. opsLeft' \in 0 .. MaxOps
  BY CallsType DEF SetCache, ResetCache, ResetStats, Pause
<1>2. CallOK' /\ CallsLocated'
  BY <1>1 DEF SetCache, ResetCache, ResetStats, Pause, CallOK, CallsLocated
<1>3. CASE SetCache(c, op)
  BY <1>2, <1>3, QueueSame, CacheSame, TaskSame
     DEF SetCache, RestOK, poolVars, busVars
<1>4. CASE ResetCache(c, op)
  <2>1. CacheOK'
    BY <1>4, MbAssumption DEF ResetCache, CacheOK
  <2>. QED
    BY <1>2, <1>4, <2>1, QueueSame, TaskSame, RestSame
       DEF ResetCache, restVars, poolVars, busVars
<1>5. CASE ResetStats(c, op)
  <2>1. FreeSlot \in BackoffSlot
    BY MbAssumption DEF FreeSlot, BackoffSlot
  <2>2. RestOK'
    BY <1>5, <2>1 DEF ResetStats, RestOK, poolVars, busVars
  <2>. QED
    BY <1>2, <1>5, <2>2, QueueSame, CacheSame, TaskSame DEF ResetStats
<1>6. CASE Pause(c, op)
  BY <1>2, <1>6, QueueSame, CacheSame, TaskSame
     DEF Pause, RestOK, poolVars, busVars
<1>. QED
  BY <1>3, <1>4, <1>5, <1>6

LEMMA UnpauseTypes ==
  ASSUME TypeOK, Unpause
  PROVE  TypeOK'
BY QueueSame, CacheSame, TaskSame, CallsSame
   DEF Unpause, RestOK, poolVars, busVars

(***************************************************************************)
(* The task.                                                               *)
(***************************************************************************)
LEMMA IdleTaskType == IdleTask \in TaskLoc
BY MbAssumption DEF IdleTask, TaskLoc, Errors

LEMMA TopTypes ==
  ASSUME TypeOK, Top
  PROVE  TypeOK'
<1>1. CacheOK'
  BY SweptType DEF Top, CacheOK
<1>2. TaskOK' /\ TaskLocated'
  BY MbAssumption DEF Top, TaskOK, TaskLocated, TaskLabels
<1>. QED
  BY <1>1, <1>2, QueueSame, CallsSame, RestSame DEF Top, restVars, poolVars, busVars

LEMMA TakeTypes ==
  ASSUME TypeOK, Take
  PROVE  TypeOK'
<1>1. SemMax \in Nat /\ sem \in 0 .. SemMax
  BY MbAssumption DEF QueueOK
<1>2. sem' \in 0 .. SemMax
  BY <1>1 DEF Take
<1>3. QueueOK'
  BY <1>2 DEF Take, QueueOK
<1>4. TaskOK' /\ TaskLocated'
  BY DEF Take, TaskOK, TaskLocated, TaskLabels
<1>. QED
  BY <1>3, <1>4, CacheSame, CallsSame, RestSame DEF Take, restVars, poolVars, busVars

LEMMA DequeueTypes ==
  ASSUME TypeOK, Dequeue
  PROVE  TypeOK'
<1>1. CASE \E i \in DOMAIN pq :
             /\ task' = [IdleTask EXCEPT !.req = pq[i]]
             /\ pq' = RemoveBySwap(pq, i)
             /\ tpc' = "check"
  <2>. PICK i \in DOMAIN pq : /\ task' = [IdleTask EXCEPT !.req = pq[i]]
                              /\ pq' = RemoveBySwap(pq, i)
                              /\ tpc' = "check"
    BY <1>1
  <2>1. pq[i] \in Request
    BY ElementOfSeq, LenProperties DEF QueueOK
  <2>2. Len(pq) \in Nat /\ QueueLimit \in Nat
    BY LenProperties, QueueAssumption DEF QueueOK
  <2>3. QueueOK'
    BY <2>2, RemoveBySwapProperties DEF Dequeue, QueueOK
  <2>4. task' \in TaskLoc /\ task'.req = pq[i] /\ task'.i = 1
    BY <2>1, IdleTaskType DEF TaskLoc, IdleTask
  <2>5. pq[i].op \in Ops
    BY <2>1 DEF Request
  <2>. QED
    <3>1. 1 <= pq[i].op.n
      BY <2>1, MbAssumption DEF Request, Op
    <3>2. TaskOK' /\ TaskLocated'
      BY <2>1, <2>4, <3>1 DEF Dequeue, TaskOK, TaskLocated, TaskLabels
    <3>. QED
      BY <2>3, <3>2, CacheSame, CallsSame, RestSame
         DEF Dequeue, restVars, poolVars, busVars
<1>2. CASE tpc' = "top" /\ UNCHANGED <<pq, task>>
  <2>1. TaskOK' /\ TaskLocated'
    BY <1>2 DEF Dequeue, TaskOK, TaskLocated, TaskLabels
  <2>. QED
    BY <1>2, <2>1, QueueSame, CacheSame, CallsSame, RestSame
       DEF Dequeue, restVars, poolVars, busVars, queueVars
<1>. QED
  BY <1>1, <1>2 DEF Dequeue

LEMMA SkipTypes ==
  ASSUME TypeOK, Skip
  PROVE  TypeOK'
<1>1. \A e \in Entry : [e EXCEPT !.status = "error", !.err = "timeout", !.pend = 0] \in Entry
  <2>. TAKE e \in Entry
  <2>. DEFINE f == [e EXCEPT !.status = "error"]
              g == [f EXCEPT !.err = "timeout"]
  <2>1. f \in Entry
    BY EntryFields DEF Statuses
  <2>2. g \in Entry
    BY <2>1, EntryFields DEF Errors
  <2>3. [g EXCEPT !.pend = 0] \in Entry
    BY <2>2, EntryFields
  <2>. QED
    BY <2>3, Zenon
<1>2. cache' \in [DOMAIN cache -> Entry]
  BY <1>1, CacheEntries DEF Skip
<1>3. CacheOK'
  <2>1. cache \in Seq(Entry) /\ Len(cache) <= CacheLimit /\ stamp \in Nat
    BY DEF CacheOK
  <2>2. cache' \in Seq(Entry) /\ Len(cache') = Len(cache)
    BY <1>2, <2>1, MapSeq
  <2>3. stamp' = stamp
    BY DEF Skip
  <2>. QED
    BY <2>1, <2>2, <2>3 DEF CacheOK
<1>4. TaskOK' /\ TaskLocated'
  BY IdleTaskType DEF Skip, TaskOK, TaskLocated, TaskLabels
<1>. QED
  BY <1>3, <1>4, QueueSame, CallsSame, RestSame DEF Skip, restVars, poolVars, busVars

LEMMA ProceedTypes ==
  ASSUME TypeOK, Proceed
  PROVE  TypeOK'
<1>1. \A b \in BackoffSlot : [b EXCEPT !.since = 0] \in BackoffSlot
  BY MbAssumption DEF BackoffSlot
<1>2. RestOK'
  BY <1>1 DEF Proceed, RestOK, poolVars, busVars
<1>3. TaskOK' /\ TaskLocated'
  BY DEF Proceed, TaskOK, TaskLocated, TaskLabels
<1>. QED
  BY <1>2, <1>3, QueueSame, CacheSame, CallsSame DEF Proceed

\* The request in the task's hands.
LEMMA InHandTypes ==
  ASSUME TypeOK, tpc \in {"check", "bus", "store"}
  PROVE  /\ task.req \in Request /\ task.req.op \in Ops
         /\ task.i \in 1 .. task.req.op.n /\ task.i \in 1 .. MaxCount
         /\ task.req.op.n \in 1 .. MaxCount /\ MaxCount \in Nat
         /\ task.req.op.addr \in Nat /\ Target \in Slaves
         /\ task.req.op.addr + task.i - 1 \in Addrs
         /\ task.err \in Errors /\ task.vals \in [1 .. MaxCount -> Vals]
<1>1. task.req \in Request /\ task.i <= task.req.op.n /\ task \in TaskLoc
  BY DEF TaskLocated, TaskOK
<1>2. task.req.op \in Ops
  BY <1>1 DEF Request
<1>3. /\ task.i \in 1 .. MaxCount /\ MaxCount \in Nat
      /\ task.err \in Errors /\ task.vals \in [1 .. MaxCount -> Vals]
  BY <1>1, MbAssumption DEF TaskLoc
<1>4. task.req.op.n \in 1 .. MaxCount /\ task.req.op.addr \in Nat /\ task.req.op.addr \in Addrs
  BY <1>2, OpType
<1>5. task.i \in 1 .. task.req.op.n
  BY <1>1, <1>3, <1>4
<1>6. task.req.op.addr + (task.i - 1) \in Addrs
  BY <1>2, <1>5, OpType
<1>7. task.req.op.addr + (task.i - 1) = task.req.op.addr + task.i - 1
  BY <1>3, <1>4
<1>8. Target \in Slaves
  BY <1>4, MbAssumption DEF Target
<1>. QED
  BY <1>1, <1>2, <1>3, <1>4, <1>5, <1>6, <1>7, <1>8

LEMMA BusTypes ==
  ASSUME TypeOK, Bus
  PROVE  TypeOK'
<1>1. tpc \in {"check", "bus", "store"}
  BY DEF Bus
<1>2. /\ task.req \in Request /\ task.req.op \in Ops /\ task.i <= task.req.op.n
      /\ task.req.op.n \in 1 .. MaxCount /\ MaxCount \in Nat
      /\ task.req.op.addr \in Nat
      /\ task \in TaskLoc
  BY <1>1, InHandTypes, OpType DEF TaskLocated, TaskOK
<1>3. BusResults \subseteq Errors
  BY MbAssumption DEF Errors
<1>4. dev' \in [Addrs -> Vals]
  <2>1. \A j \in 1 .. MaxCount : Sent(j) \in Vals
    <3>1. task.req.op.vals \in [1 .. MaxCount -> Vals]
      BY <1>2, OpType
    <3>2. task.req.slot \in 1 .. PoolSize
      BY <1>2 DEF Request
    <3>3. pool[task.req.slot] \in [1 .. MaxCount -> Vals]
      BY <3>2 DEF RestOK
    <3>. QED
      BY <3>1, <3>3 DEF Sent
  <2>2. ASSUME NEW a \in Addrs,
               a \in task.req.op.addr .. (task.req.op.addr + task.req.op.n - 1)
        PROVE  a - task.req.op.addr + 1 \in 1 .. MaxCount
    <3>1. a \in Nat
      BY MbAssumption
    <3>. QED
      BY <1>2, <2>2, <3>1
  <2>3. Written \in [Addrs -> Vals]
    BY <2>1, <2>2 DEF Written, RestOK
  <2>. QED
    BY <2>3 DEF Bus, RestOK
<1>5. /\ task' \in TaskLoc
      /\ task'.req = task.req /\ task'.i = task.i
  <2>. PICK e \in BusResults :
         \/ task' = [task EXCEPT !.err = e]
         \/ task' = [task EXCEPT !.err = e,
                  !.vals = [j \in 1 .. MaxCount |->
                              IF j <= task.req.op.n /\ e = "ok"
                              THEN dev[task.req.op.addr + j - 1] ELSE Zero]]
    BY DEF Bus
  <2>. DEFINE vs == [j \in 1 .. MaxCount |->
                       IF j <= task.req.op.n /\ e = "ok"
                       THEN dev[task.req.op.addr + j - 1] ELSE Zero]
  <2>1. vs \in [1 .. MaxCount -> Vals]
    <3>1. ASSUME NEW j \in 1 .. MaxCount, j <= task.req.op.n
          PROVE  task.req.op.addr + j - 1 \in Addrs
      <4>1. j \in 1 .. task.req.op.n
        BY <1>2, <3>1
      <4>2. task.req.op.addr + (j-1) \in Addrs
        BY <1>2, <4>1, OpType
      <4>3. task.req.op.addr + (j-1) = task.req.op.addr + j - 1
        BY <1>2
      <4>. QED
        BY <4>2, <4>3
    <3>. QED
      BY <3>1, MbAssumption DEF RestOK
  <2>. HIDE DEF vs
  <2>2. CASE task' = [task EXCEPT !.err = e]
    BY <1>2, <1>3, <2>2 DEF TaskLoc
  <2>3. CASE task' = [task EXCEPT !.err = e, !.vals = vs]
    BY <1>2, <1>3, <2>1, <2>3 DEF TaskLoc
  <2>. QED
    BY <2>2, <2>3 DEF vs
<1>6. TaskOK' /\ TaskLocated'
  BY <1>2, <1>5 DEF Bus, TaskOK, TaskLocated, TaskLabels
<1>7. RestOK'
  BY <1>4 DEF Bus, RestOK, poolVars
<1>. QED
  BY <1>6, <1>7, QueueSame, CacheSame, CallsSame DEF Bus

LEMMA FilteredType ==
  ASSUME NEW e \in Entry, NEW v \in Vals, NEW verdict \in FilterResults
  PROVE  Filtered(e, v, verdict) \in Entry
<1>1. verdict \in {"accept", "hold", "invalid"}
  BY MbAssumption
<1>2. CASE verdict = "accept"
  <2>. DEFINE f == [e EXCEPT !.val = v]
              g == [f EXCEPT !.status = "valid"]
  <2>1. f \in Entry
    BY EntryFields
  <2>2. g \in Entry
    BY <2>1, EntryFields DEF Statuses
  <2>3. [g EXCEPT !.err = "ok"] \in Entry
    BY <2>2, EntryFields DEF Errors
  <2>4. Filtered(e, v, verdict) = [e EXCEPT !.val = v, !.status = "valid", !.err = "ok"]
    BY <1>2 DEF Filtered
  <2>. QED
    BY <2>3, <2>4, Zenon
<1>3. CASE verdict = "hold"
  <2>. DEFINE g == [e EXCEPT !.status = "valid"]
  <2>2. g \in Entry
    BY EntryFields DEF Statuses
  <2>3. [g EXCEPT !.err = "ok"] \in Entry
    BY <2>2, EntryFields DEF Errors
  <2>4. Filtered(e, v, verdict) = [e EXCEPT !.status = "valid", !.err = "ok"]
    BY <1>3 DEF Filtered
  <2>. QED
    BY <2>3, <2>4, Zenon
<1>4. CASE verdict = "invalid"
  <2>. DEFINE g == [e EXCEPT !.status = "error"]
  <2>2. g \in Entry
    BY EntryFields DEF Statuses
  <2>3. [g EXCEPT !.err = "invalid"] \in Entry
    BY <2>2, EntryFields DEF Errors
  <2>4. Filtered(e, v, verdict) = [e EXCEPT !.status = "error", !.err = "invalid"]
    BY <1>4 DEF Filtered
  <2>. QED
    BY <2>3, <2>4, Zenon
<1>. QED
  BY <1>1, <1>2, <1>3, <1>4

\* What the cache entry becomes after the transaction is an entry.
LEMMA OutcomeType ==
  ASSUME TypeOK, tpc = "store", NEW e \in Entry, NEW verdict \in FilterResults
  PROVE  Outcome(e, task.i, verdict) \in Entry
<1>. DEFINE kind == task.req.op.kind
            new == CASE task.err # "ok"  -> Failed(e)
                     [] kind = "write"   -> [e EXCEPT !.val = task.req.op.vals[task.i],
                                               !.status = "valid", !.err = "ok"]
                     [] kind = "writeN"  -> [e EXCEPT !.val = pool[task.req.slot][task.i],
                                               !.status = "valid", !.err = "ok"]
                     [] OTHER            -> Filtered(e, task.vals[task.i], verdict)
<1>1. /\ task.req.op \in Ops /\ task.i \in 1 .. MaxCount /\ task.err \in Errors
      /\ task.vals \in [1 .. MaxCount -> Vals] /\ task.req \in Request
  BY InHandTypes
<1>2. task.req.op.vals[task.i] \in Vals
  BY <1>1, OpType
<1>3. pool[task.req.slot][task.i] \in Vals
  <2>1. task.req.slot \in 1 .. PoolSize
    BY <1>1 DEF Request
  <2>. QED
    BY <1>1, <2>1 DEF RestOK
<1>4. ASSUME NEW v \in Vals
      PROVE  [e EXCEPT !.val = v, !.status = "valid", !.err = "ok"] \in Entry
  <2>. DEFINE f == [e EXCEPT !.val = v]
              g == [f EXCEPT !.status = "valid"]
  <2>1. f \in Entry
    BY EntryFields
  <2>2. g \in Entry
    BY <2>1, EntryFields DEF Statuses
  <2>3. [g EXCEPT !.err = "ok"] \in Entry
    BY <2>2, EntryFields DEF Errors
  <2>. QED
    BY <2>3, Zenon
<1>5. Failed(e) \in Entry
  <2>. DEFINE g == [e EXCEPT !.status = "error"]
  <2>1. g \in Entry
    BY EntryFields DEF Statuses
  <2>2. [g EXCEPT !.err = task.err] \in Entry
    BY <1>1, <2>1, EntryFields
  <2>. QED
    BY <2>2, Zenon DEF Failed
<1>6. Filtered(e, task.vals[task.i], verdict) \in Entry
  BY <1>1, FilteredType
<1>7. new \in Entry
  BY <1>2, <1>3, <1>4, <1>5, <1>6
<1>. HIDE DEF new
<1>. DEFINE f == [new EXCEPT !.upd = stamp + 1]
<1>8. stamp + 1 \in Nat
  BY DEF CacheOK
<1>9. f \in Entry
  BY <1>7, <1>8, EntryFields
<1>10. [f EXCEPT !.pend = 0] \in Entry
  BY <1>9, EntryFields
<1>11. Outcome(e, task.i, verdict) = [new EXCEPT !.upd = stamp + 1, !.pend = 0]
  BY DEF Outcome, new
<1>. QED
  BY <1>10, <1>11, Zenon

LEMMA BackoffAfterType ==
  ASSUME TypeOK, NEW v \in Slaves, NEW err, BackoffAfter(v, err)
  PROVE  backoff' \in [1 .. BackoffSlots -> BackoffSlot]
<1>1. backoff \in [1 .. BackoffSlots -> BackoffSlot]
  BY DEF RestOK
<1>2. CASE UNCHANGED backoff
  BY <1>1, <1>2
<1>3. CASE \E i \in 1 .. BackoffSlots : backoff' = [backoff EXCEPT ![i] =
              [SlotFor(i, v) EXCEPT
                 !.bo = IF err = "timeout" THEN Doubled(@) ELSE Decayed(@)]]
  <2>. PICK i \in 1 .. BackoffSlots : backoff' = [backoff EXCEPT ![i] =
              [SlotFor(i, v) EXCEPT
                 !.bo = IF err = "timeout" THEN Doubled(@) ELSE Decayed(@)]]
    BY <1>3
  <2>1. SlotFor(i, v) \in BackoffSlot
    <3>1. [FreeSlot EXCEPT !.slave = v] \in BackoffSlot
      BY MbAssumption DEF FreeSlot, BackoffSlot
    <3>. QED
      BY <1>1, <3>1 DEF SlotFor
  <2>2. \A b \in 0 .. BackoffMax : Doubled(b) \in 0 .. BackoffMax
    BY MbAssumption DEF Doubled
  <2>3. \A b \in 0 .. BackoffMax : Decayed(b) \in 0 .. BackoffMax
    BY MbAssumption DEF Decayed
  <2>4. [SlotFor(i, v) EXCEPT !.bo = IF err = "timeout" THEN Doubled(@) ELSE Decayed(@)]
          \in BackoffSlot
    BY <2>1, <2>2, <2>3 DEF BackoffSlot
  <2>. QED
    BY <1>1, <2>4
<1>. QED
  BY <1>2, <1>3 DEF BackoffAfter

LEMMA StoreTypes ==
  ASSUME TypeOK, Store
  PROVE  TypeOK'
<1>1. tpc = "store"
  BY DEF Store
<1>. DEFINE k == task.req.op.addr + task.i - 1
<1>2. /\ k \in Addrs /\ Target \in Slaves
      /\ task.i \in 1 .. task.req.op.n /\ task.i \in 1 .. MaxCount
      /\ task.req.op.n \in 1 .. MaxCount /\ MaxCount \in Nat
      /\ task.req \in Request
  BY <1>1, InHandTypes
<1>3. CacheOK'
  <2>. HIDE DEF k
  <2>1. CASE /\ stamp' = stamp + 1
             /\ \E s \in 1 .. CacheLimit :
                  /\ Gives(s, k)
                  /\ \E verdict \in Verdicts(EntryFor(s, k)) :
                       cache' = Put(s, Outcome(EntryFor(s, k), task.i, verdict))
    <3>. PICK s \in 1 .. CacheLimit, verdict \in FilterResults :
           /\ Gives(s, k)
           /\ cache' = Put(s, Outcome(EntryFor(s, k), task.i, verdict))
      BY <2>1 DEF Verdicts
    <3>1. Outcome(EntryFor(s, k), task.i, verdict) \in Entry
      BY <1>1, <1>2, GivesType, OutcomeType
    <3>2. cache' \in Seq(Entry) /\ Len(cache') <= CacheLimit
      BY <1>2, <3>1, GivesType
    <3>. QED
      BY <2>1, <3>2 DEF CacheOK
  <2>2. CASE UNCHANGED cacheVars
    BY <2>2, CacheSame
  <2>. QED
    BY <2>1, <2>2 DEF Store, k
<1>4. TaskOK' /\ TaskLocated'
  <2>1. CASE /\ task.i < task.req.op.n
             /\ task' = [task EXCEPT !.i = task.i + 1] /\ tpc' = tpc
    <3>1. task.i + 1 \in 1 .. MaxCount /\ task.i + 1 <= task.req.op.n
      BY <1>2, <2>1
    <3>2. task' \in TaskLoc /\ task'.req = task.req /\ task'.i = task.i + 1
      BY <2>1, <3>1 DEF TaskOK, TaskLoc
    <3>. QED
      BY <1>1, <1>2, <2>1, <3>1, <3>2 DEF Store, TaskOK, TaskLocated
  <2>2. CASE tpc' = "top" /\ task' = IdleTask
    BY <2>2, IdleTaskType DEF Store, TaskOK, TaskLocated, TaskLabels
  <2>. QED
    BY <2>1, <2>2 DEF Store, NextRegister
<1>5. RestOK'
  <2>1. backoff' \in [1 .. BackoffSlots -> BackoffSlot]
    <3>1. CASE UNCHANGED backoff
      BY <3>1 DEF RestOK
    <3>2. CASE BackoffAfter(Target, task.err)
      BY <1>2, <3>2, BackoffAfterType
    <3>. QED
      BY <3>1, <3>2 DEF Store, NextRegister
  <2>. QED
    BY <2>1 DEF Store, RestOK, poolVars, busVars
<1>. QED
  BY <1>3, <1>4, <1>5, QueueSame, CallsSame DEF Store

(***************************************************************************)
(* Time.                                                                   *)
(***************************************************************************)
LEMMA TickTypes ==
  ASSUME TypeOK, Tick
  PROVE  TypeOK'
<1>1. pq' \in Seq(Request) /\ Len(pq') = Len(pq)
  <2>1. \A i \in DOMAIN pq : pq[i] \in Request
    BY ElementOfSeq, LenProperties DEF QueueOK
  <2>2. \A r \in Request : Older(r) \in Request
    BY QueueAssumption DEF Older, Request
  <2>3. pq' \in [DOMAIN pq -> Request]
    BY <2>1, <2>2 DEF Tick, AllOlder
  <2>. QED
    BY <2>3, MapSeq DEF QueueOK
<1>2. QueueOK'
  BY <1>1 DEF Tick, QueueOK
<1>3. cache' \in Seq(Entry) /\ Len(cache') = Len(cache)
  <2>1. \A e \in Entry :
          [e EXCEPT !.pend = IF e.status = "pending" /\ @ < StaleLimit THEN @ + 1 ELSE @]
            \in Entry
    <3>. TAKE e \in Entry
    <3>1. StaleLimit \in Nat /\ e.pend \in 0 .. StaleLimit
      BY MbAssumption DEF Entry
    <3>2. (IF e.status = "pending" /\ e.pend < StaleLimit THEN e.pend + 1 ELSE e.pend)
            \in 0 .. StaleLimit
      BY <3>1
    <3>. QED
      BY <3>2 DEF Entry
  <2>2. cache' \in [DOMAIN cache -> Entry]
    BY <2>1, CacheEntries DEF Tick
  <2>. QED
    BY <2>2, MapSeq DEF CacheOK
<1>4. CacheOK'
  BY <1>3 DEF Tick, CacheOK
<1>5. RestOK'
  <2>1. \A b \in BackoffSlot :
          [b EXCEPT !.since = IF @ < BackoffMax THEN @ + 1 ELSE @] \in BackoffSlot
    <3>. TAKE b \in BackoffSlot
    <3>1. BackoffMax \in Nat /\ b.since \in 0 .. BackoffMax
      BY MbAssumption DEF BackoffSlot
    <3>2. (IF b.since < BackoffMax THEN b.since + 1 ELSE b.since) \in 0 .. BackoffMax
      BY <3>1
    <3>. QED
      BY <3>2 DEF BackoffSlot
  <2>. QED
    BY <2>1 DEF Tick, RestOK, poolVars, busVars
<1>6. TaskOK' /\ TaskLocated'
  BY MbAssumption DEF Tick, TaskOK, TaskLocated
<1>. QED
  BY <1>2, <1>4, <1>5, <1>6, CallsSame DEF Tick

LEMMA InitTypes == Init => TypeOK
<1>. SUFFICES ASSUME Init PROVE TypeOK
  OBVIOUS
<1>1. QueueOK
  BY MbAssumption, QueueAssumption DEF Init, QueueOK
<1>2. CacheOK
  BY MbAssumption DEF Init, CacheOK
<1>3. CallOK /\ CallsLocated
  BY MbAssumption, IdleLocType DEF Init, CallOK, CallsLocated, PcLabels
<1>4. TaskOK /\ TaskLocated
  BY MbAssumption, IdleTaskType DEF Init, TaskOK, TaskLocated, TaskLabels
<1>5. RestOK
  <2>1. FreeSlot \in BackoffSlot
    BY MbAssumption DEF FreeSlot, BackoffSlot
  <2>2. 1 \in 1 .. PoolSize /\ Zero \in Vals
    BY MbAssumption
  <2>. QED
    BY <2>1, <2>2 DEF Init, RestOK
<1>. QED
  BY <1>1, <1>2, <1>3, <1>4, <1>5

\* Every step keeps the types.
LEMMA NextTypes == TypeOK /\ [Next]_vars => TypeOK'
<1>. SUFFICES ASSUME TypeOK, [Next]_vars PROVE TypeOK'
  OBVIOUS
<1>1. ASSUME NEW c \in Callers, Begin(c) PROVE TypeOK'
  BY <1>1, StReadTypes, ExtReadTypes, StWriteTypes, ExtWriteTypes, ReadNTypes,
     WriteNTypes, AdminTypes DEF Begin
<1>2. ASSUME NEW c \in Callers, Continue(c) PROVE TypeOK'
  BY <1>2, FindPendingTypes, FindOtherTypes, MarkReadTypes, MarkReadNTypes,
     InsertTypes, SignalTypes, RevertTypes, ShowWriteTypes DEF Continue
<1>3. CASE TaskStep
  BY <1>3, TopTypes, TakeTypes, DequeueTypes, SkipTypes, ProceedTypes, BusTypes,
     StoreTypes DEF TaskStep
<1>4. CASE Unpause
  BY <1>4, UnpauseTypes
<1>5. CASE Tick
  BY <1>5, TickTypes
<1>6. CASE UNCHANGED vars
  BY <1>6, QueueSame, CacheSame, CallsSame, TaskSame, RestSame
     DEF vars, queueVars, cacheVars, callVars, taskVars, restVars
<1>. QED
  BY <1>1, <1>2, <1>3, <1>4, <1>5, <1>6 DEF Next

\* The variables of the RS485 master keep their types in every behaviour:
\* the queue and the cache stay within their limits, no counter leaves its
\* range, and a caller in a call, or the task at work, has its request in
\* hand and its loop counter within the register count (src/mb_async.cpp).
THEOREM TypeCorrect == Spec => []TypeOK
<1>. QED
  BY InitTypes, NextTypes, PTL DEF Spec

(***************************************************************************)
(* No wake-up is lost.  Every insertion is matched by a caller on its way  *)
(* to give the semaphore; when the semaphore is saturated its count alone  *)
(* covers a full queue, because SemMax >= QueueLimit; and a count taken is *)
(* carried by the task until it has looked.                                *)
(***************************************************************************)
LEMMA SignallingFinite ==
  /\ IsFiniteSet(Signalling) /\ Cardinality(Signalling) \in Nat
<1>1. IsFiniteSet(Callers)
  BY MbAssumption, FS_Union DEF Callers
<1>. QED
  BY <1>1, FS_Subset, FS_CardinalityType DEF Signalling

\* A caller that neither was nor gets to the point of giving the semaphore.
LEMMA StillSignalling ==
  ASSUME CallOK, NEW c \in Callers, NEW label, NEW l, Goto(c, label, l),
         pc[c] # "signal", label # "signal"
  PROVE  Signalling' = Signalling
BY DEF CallOK, Goto, Signalling

LEMMA NumbersOK ==
  ASSUME TypeOK
  PROVE  /\ Len(pq) \in Nat /\ sem \in Nat /\ SemMax \in Nat /\ QueueLimit \in Nat
         /\ Len(pq) <= QueueLimit /\ QueueLimit <= SemMax /\ sem <= SemMax
<1>1. SemMax \in Nat /\ QueueLimit <= SemMax /\ QueueLimit \in Nat
  BY MbAssumption, QueueAssumption
<1>. QED
  BY <1>1, LenProperties DEF QueueOK

LEMMA InsertAnnounces ==
  ASSUME TypeOK, NoLostWakeup, NEW c \in Callers, Insert(c)
  PROVE  NoLostWakeup'
<1>1. pc[c] = "insert" /\ c \notin Signalling /\ Looking' = Looking /\ sem' = sem
  BY DEF Insert, Signalling, Looking, taskVars
<1>2. Looking \in Nat
  BY DEF Looking
<1>3. ASSUME Len(pq') <= Len(pq) + 1, NEW l, Goto(c, "signal", l)
      PROVE  NoLostWakeup'
  <2>1. Signalling' = Signalling \cup {c}
    BY <1>3 DEF Goto, Signalling, CallOK
  <2>2. Cardinality(Signalling') = Cardinality(Signalling) + 1
    BY <1>1, <2>1, SignallingFinite, FS_AddElement
  <2>3. Len(pq') \in Nat
    BY InsertTypes, NumbersOK, LenProperties DEF QueueOK
  <2>. QED
    BY <1>1, <1>2, <1>3, <2>2, <2>3, SignallingFinite, NumbersOK DEF NoLostWakeup
<1>4. CASE InsertRoom(c)
  <2>1. Len(pq') = Len(pq) + 1
    <3>1. NewRequest(loc[c]) \in Request
      BY <1>1, InCall, NewRequestType
    <3>. QED
      BY <3>1, <1>4, AppendProperties DEF InsertRoom, QueueOK
  <2>. QED
    BY <1>3, <1>4, <2>1, NumbersOK DEF InsertRoom
<1>5. CASE InsertEvict(c)
  <2>1. Len(pq') = Len(pq)
    <3>1. NewRequest(loc[c]) \in Request
      BY <1>1, InCall, NewRequestType
    <3>. QED
      BY <3>1, <1>5, ExceptSeq DEF InsertEvict, QueueOK
  <2>. QED
    BY <1>3, <1>5, <2>1, NumbersOK DEF InsertEvict
<1>6. CASE Fails(c) /\ pq' = pq
  <2>1. Signalling' = Signalling
    BY <1>1, <1>6, StillSignalling DEF Fails, Done
  <2>. QED
    BY <1>1, <1>6, <2>1 DEF NoLostWakeup
<1>. QED
  BY <1>4, <1>5, <1>6 DEF Insert

LEMMA SignalAnnounces ==
  ASSUME TypeOK, NoLostWakeup, NEW c \in Callers, Signal(c)
  PROVE  NoLostWakeup'
<1>1. c \in Signalling /\ pq' = pq /\ Looking' = Looking
  BY DEF Signal, Signalling, Looking, taskVars
<1>2. Signalling' = Signalling \ {c}
  BY DEF Signal, Goto, Done, Signalling, CallOK
<1>3. /\ Cardinality(Signalling') = Cardinality(Signalling) - 1
      /\ Cardinality(Signalling') \in Nat
  BY <1>1, <1>2, SignallingFinite, FS_RemoveElement, FS_CardinalityType
<1>4. Looking \in Nat
  BY DEF Looking
<1>5. CASE sem < SemMax
  <2>1. sem' = sem + 1
    BY <1>5 DEF Signal, Given
  <2>. QED
    BY <1>1, <1>3, <1>4, <2>1, SignallingFinite, NumbersOK DEF NoLostWakeup
<1>6. CASE ~(sem < SemMax)
  <2>1. sem' = SemMax
    BY <1>6, NumbersOK DEF Signal, Given
  <2>2. Len(pq') <= sem'
    BY <1>1, <2>1, NumbersOK
  <2>. QED
    BY <1>1, <1>3, <1>4, <2>1, <2>2, NumbersOK DEF NoLostWakeup
<1>. QED
  BY <1>5, <1>6

LEMMA DequeueAnnounces ==
  ASSUME ~MutexTimeouts, TypeOK, NoLostWakeup, Dequeue
  PROVE  NoLostWakeup'
<1>1. /\ tpc = "dequeue" /\ tpc' \in {"check", "top"} /\ sem' = sem
      /\ Signalling' = Signalling
  BY DEF Dequeue, Signalling, callVars
<1>2. Looking = 1 /\ Looking' = 0
  BY <1>1 DEF Looking
<1>3. CASE \E i \in DOMAIN pq : pq' = RemoveBySwap(pq, i)
  <2>1. Len(pq') = Len(pq) - 1
    BY <1>3, RemoveBySwapProperties DEF QueueOK
  <2>. QED
    BY <1>1, <1>2, <2>1, SignallingFinite, NumbersOK DEF NoLostWakeup
<1>4. CASE pq = <<>> /\ pq' = pq
  <2>1. Len(pq') = 0
    BY <1>4
  <2>. QED
    BY <1>1, <1>2, <2>1, SignallingFinite, NumbersOK DEF NoLostWakeup
<1>. QED
  BY <1>3, <1>4 DEF Dequeue

LEMMA TakeAnnounces ==
  ASSUME TypeOK, NoLostWakeup, Take
  PROVE  NoLostWakeup'
<1>1. tpc = "take" /\ Looking = 0 /\ pq' = pq /\ Signalling' = Signalling
  BY DEF Take, Looking, Signalling, callVars
<1>2. CASE sem > 0
  <2>1. sem' = sem - 1 /\ Looking' = 1
    BY <1>2 DEF Take, Looking
  <2>. QED
    BY <1>1, <2>1, SignallingFinite, NumbersOK DEF NoLostWakeup
<1>3. CASE ~(sem > 0)
  <2>1. sem' = sem /\ Looking' = 0
    BY <1>3 DEF Take, Looking
  <2>. QED
    BY <1>1, <2>1 DEF NoLostWakeup
<1>. QED
  BY <1>2, <1>3

\* The other steps change neither the number of waiting requests nor who
\* announces them.
LEMMA QuietStep ==
  ASSUME NoLostWakeup, Len(pq') = Len(pq), sem' = sem, Signalling' = Signalling,
         Looking' = Looking
  PROVE  NoLostWakeup'
BY DEF NoLostWakeup

LEMMA CallsAreQuiet ==
  ASSUME TypeOK, NEW c \in Callers,
         Begin(c) \/ FindPending(c) \/ FindOther(c) \/ MarkRead(c) \/ MarkReadN(c)
           \/ Revert(c) \/ ShowWrite(c)
  PROVE  /\ Len(pq') = Len(pq) /\ sem' = sem /\ Signalling' = Signalling
         /\ Looking' = Looking
<1>1. CASE Begin(c)
  <2>. PICK op \in Ops :
         \/ StRead(c, op) \/ ExtRead(c, op) \/ StWrite(c, op) \/ ExtWrite(c, op)
         \/ ReadN(c, op) \/ WriteN(c, op)
         \/ SetCache(c, op) \/ ResetCache(c, op) \/ ResetStats(c, op) \/ Pause(c, op)
    BY <1>1 DEF Begin
  <2>1. /\ pq' = pq /\ sem' = sem /\ Looking' = Looking
        /\ \/ UNCHANGED pc
           \/ \E label \in {"idle", "find", "mark", "insert", "wopt"}, l \in {loc'[c]} :
                pc[c] = "idle" /\ pc' = [pc EXCEPT ![c] = label]
    BY DEF StRead, ExtRead, StWrite, ExtWrite, ReadN, WriteN, SetCache, ResetCache,
           ResetStats, Pause, Calls, Goto, Done, queueVars, taskVars, Looking
  <2>2. Signalling' = Signalling
    BY <2>1 DEF Signalling, CallOK
  <2>. QED
    BY <2>1, <2>2
<1>2. CASE FindPending(c)
  <2>1. Len(pq') = Len(pq)
    <3>1. PrioRefresh \in Priorities /\ PrioFresh \in Priorities
      BY DEF PrioRefresh, PrioFresh, Priorities, PrioWrite, PrioExt
    <3>2. CASE pq' = pq
      BY <3>2
    <3>3. CASE \E p \in Priorities : pq' = Upgraded(loc[c].op.addr, p)
      BY <3>3, UpgradedType
    <3>. QED
      BY <1>2, <3>1, <3>2, <3>3 DEF FindPending
  <2>2. Signalling' = Signalling
    BY <1>2, StillSignalling DEF FindPending, Done
  <2>. QED
    BY <1>2, <2>1, <2>2 DEF FindPending, Looking, taskVars
<1>3. CASE FindOther(c) \/ MarkRead(c) \/ MarkReadN(c) \/ Revert(c) \/ ShowWrite(c)
  <2>1. pq' = pq /\ sem' = sem /\ Looking' = Looking
    BY <1>3 DEF FindOther, MarkRead, MarkReadN, Revert, ShowWrite, queueVars,
                taskVars, Looking
  <2>2. /\ pc[c] # "signal"
        /\ \E label \in {"idle", "mark", "insert", "wopt"} :
             pc' = [pc EXCEPT ![c] = label]
    BY <1>3 DEF FindOther, MarkRead, MarkReadN, Revert, ShowWrite, Goto, Done
  <2>3. Signalling' = Signalling
    BY <2>2 DEF Signalling, CallOK
  <2>. QED
    BY <2>1, <2>3
<1>. QED
  BY <1>1, <1>2, <1>3

LEMMA TaskIsQuiet ==
  ASSUME TypeOK, Top \/ Skip \/ Proceed \/ Bus \/ Store \/ Unpause \/ Tick
                 \/ UNCHANGED vars
  PROVE  /\ Len(pq') = Len(pq) /\ sem' = sem /\ Signalling' = Signalling
         /\ Looking' = Looking
<1>1. sem' = sem /\ pc' = pc
  BY DEF Top, Skip, Proceed, Bus, Store, Unpause, Tick, vars, queueVars, callVars
<1>2. Len(pq') = Len(pq)
  <2>1. CASE Tick
    <3>1. \A i \in DOMAIN pq : pq[i] \in Request
      BY ElementOfSeq, LenProperties DEF QueueOK
    <3>2. \A r \in Request : Older(r) \in Request
      BY QueueAssumption DEF Older, Request
    <3>3. pq' \in [DOMAIN pq -> Request]
      BY <2>1, <3>1, <3>2 DEF Tick, AllOlder
    <3>. QED
      BY <3>3, MapSeq DEF QueueOK
  <2>2. CASE pq' = pq
    BY <2>2
  <2>. QED
    BY <2>1, <2>2 DEF Top, Skip, Proceed, Bus, Store, Unpause, vars, queueVars
<1>3. Looking' = Looking
  BY DEF Top, Skip, Proceed, Bus, Store, Unpause, Tick, vars, taskVars, Looking,
         NextRegister
<1>. QED
  BY <1>1, <1>2, <1>3 DEF Signalling

\* While nobody waits 10 ms for pq_mutex, a queue that is not empty is always
\* announced to the task: it cannot sleep on waiting requests (mb_pq_insert,
\* mb_pq_dequeue, mb_async_task_func in src/src/mb_async.cpp).
THEOREM WakeupsKept ==
  ASSUME ~MutexTimeouts
  PROVE  Spec => []NoLostWakeup
<1>1. Init => NoLostWakeup
  <2>. SUFFICES ASSUME Init PROVE NoLostWakeup
    OBVIOUS
  <2>1. Len(pq) = 0 /\ sem = 0 /\ Looking \in Nat
    BY DEF Init, Looking
  <2>. QED
    BY <2>1, SignallingFinite DEF NoLostWakeup
<1>2. TypeOK /\ NoLostWakeup /\ [Next]_vars => NoLostWakeup'
  <2>. SUFFICES ASSUME TypeOK, NoLostWakeup, [Next]_vars PROVE NoLostWakeup'
    OBVIOUS
  <2>1. ASSUME NEW c \in Callers, Begin(c) \/ Continue(c) PROVE NoLostWakeup'
    BY <2>1, InsertAnnounces, SignalAnnounces, CallsAreQuiet, QuietStep DEF Continue
  <2>2. CASE TaskStep
    BY <2>2, TakeAnnounces, DequeueAnnounces, TaskIsQuiet, QuietStep DEF TaskStep
  <2>3. CASE Unpause \/ Tick \/ UNCHANGED vars
    BY <2>3, TaskIsQuiet, QuietStep
  <2>. QED
    BY <2>1, <2>2, <2>3 DEF Next
<1>. QED
  BY <1>1, <1>2, TypeCorrect, PTL DEF Spec

(***************************************************************************)
(* The queue loses no write.  Eviction only ever takes a request of a less *)
(* urgent class than the one inserted, and a write is always in the most   *)
(* urgent class: the inductive invariant is WritesUrgent.                  *)
(***************************************************************************)

\* A class other than WRITE is only ever picked by a call that reads.
UrgentCalls ==
  \A c \in Callers :
    /\ pc[c] \in {"find", "revert"} => loc[c].op.kind = "read"
    /\ pc[c] # "idle" /\ Records(loc[c].op) => loc[c].prio = PrioWrite
UrgentQueue == \A i \in DOMAIN pq : Records(pq[i].op) => pq[i].prio = PrioWrite
WritesUrgent == UrgentCalls /\ UrgentQueue

LEMMA UrgentGoto ==
  ASSUME CallOK, UrgentCalls, NEW c \in Callers, NEW label, NEW l, Goto(c, label, l),
         label \in {"find", "revert"} => l.op.kind = "read",
         label # "idle" /\ Records(l.op) => l.prio = PrioWrite
  PROVE  UrgentCalls'
BY DEF CallOK, UrgentCalls, Goto

LEMMA UrgentDone ==
  ASSUME CallOK, UrgentCalls, NEW c \in Callers, Done(c)
  PROVE  UrgentCalls'
BY UrgentGoto DEF Done

LEMMA NewLocPrio == ASSUME NEW op PROVE NewLoc(op).prio = PrioWrite /\ NewLoc(op).op = op
BY DEF NewLoc, IdleLoc

\* The lengths and the elements of what becomes of the queue.
LEMMA QueueFacts ==
  ASSUME TypeOK
  PROVE  /\ pq \in Seq(Request) /\ DOMAIN pq = 1 .. Len(pq) /\ Len(pq) \in Nat
         /\ \A i \in DOMAIN pq : pq[i] \in Request
BY ElementOfSeq, LenProperties DEF QueueOK

\* What WritesKept says of one step.
KeepsWrites ==
  \A i \in DOMAIN pq :
    Records(pq[i].op) => \/ \E j \in DOMAIN pq' : SameRequest(pq'[j], pq[i])
                         \/ task'.req = pq[i]

LEMMA SameQueueKeeps ==
  ASSUME UrgentQueue, pq' = pq
  PROVE  UrgentQueue' /\ KeepsWrites
BY DEF UrgentQueue, KeepsWrites, SameRequest

\* A request only changes its class or its age in place.
LEMMA InPlaceKeeps ==
  ASSUME UrgentQueue, DOMAIN pq' = DOMAIN pq,
         \A i \in DOMAIN pq : /\ SameRequest(pq'[i], pq[i])
                              /\ Records(pq[i].op) => pq'[i].prio = pq[i].prio
  PROVE  UrgentQueue' /\ KeepsWrites
BY DEF UrgentQueue, KeepsWrites, SameRequest

LEMMA InsertKeeps ==
  ASSUME TypeOK, WritesUrgent, NEW c \in Callers, Insert(c)
  PROVE  WritesUrgent' /\ KeepsWrites
<1>. DEFINE r == NewRequest(loc[c])
<1>1. pc[c] = "insert" /\ loc[c] \in Loc /\ loc[c].op \in Ops
  BY InCall DEF Insert
<1>2. r \in Request /\ r.op = loc[c].op /\ r.prio = loc[c].prio
  BY <1>1, NewRequestType DEF NewRequest
<1>3. Records(r.op) => r.prio = PrioWrite
  BY <1>1, <1>2 DEF WritesUrgent, UrgentCalls
<1>. HIDE DEF r
<1>4. CASE InsertRoom(c)
  <2>1. pq' = Append(pq, r) /\ Goto(c, "signal", loc[c])
    BY <1>4 DEF InsertRoom, r
  <2>2. /\ DOMAIN pq' = 1 .. Len(pq) + 1
        /\ \A i \in 1 .. Len(pq) : pq'[i] = pq[i]
        /\ pq'[Len(pq) + 1] = r
    <3>1. /\ Len(pq') = Len(pq) + 1 /\ pq' \in Seq(Request)
          /\ \A i \in 1 .. Len(pq) : pq'[i] = pq[i]
          /\ pq'[Len(pq) + 1] = r
      BY <1>2, <2>1, QueueFacts, AppendProperties
    <3>. QED
      BY <3>1, LenProperties
  <2>3. UrgentQueue'
    BY <1>3, <2>2, QueueFacts DEF WritesUrgent, UrgentQueue
  <2>4. KeepsWrites
    <3>1. \A i \in DOMAIN pq : i \in DOMAIN pq' /\ pq'[i] = pq[i]
      BY <2>2, QueueFacts
    <3>. QED
      BY <3>1 DEF KeepsWrites, SameRequest
  <2>5. UrgentCalls'
    BY <1>1, <2>1, UrgentGoto DEF WritesUrgent, UrgentCalls
  <2>. QED
    BY <2>3, <2>4, <2>5 DEF WritesUrgent
<1>5. CASE InsertEvict(c)
  <2>. PICK i \in DOMAIN pq :
         /\ Yields(pq, i, r)
         /\ pq' = [pq EXCEPT ![i] = r]
         /\ Goto(c, "signal", [loc[c] EXCEPT !.drop = {pq[i]}])
    BY <1>5 DEF InsertEvict, r
  <2>1. ~Records(pq[i].op)
    <3>1. pq[i].prio > r.prio /\ r.prio \in 0 .. 3
      BY <1>2 DEF Yields, Request, Priorities, PrioWrite, PrioExt
    <3>2. pq[i].prio # PrioWrite
      BY <3>1 DEF PrioWrite
    <3>. QED
      BY <3>2 DEF WritesUrgent, UrgentQueue
  <2>2. /\ DOMAIN pq' = DOMAIN pq /\ pq'[i] = r
        /\ \A j \in DOMAIN pq \ {i} : pq'[j] = pq[j]
    OBVIOUS
  <2>3. UrgentQueue'
    BY <1>3, <2>2 DEF WritesUrgent, UrgentQueue
  <2>4. KeepsWrites
    BY <2>1, <2>2 DEF KeepsWrites, SameRequest
  <2>5. /\ [loc[c] EXCEPT !.drop = {pq[i]}].op = loc[c].op
        /\ [loc[c] EXCEPT !.drop = {pq[i]}].prio = loc[c].prio
    BY <1>1 DEF Loc
  <2>6. UrgentCalls'
    BY <1>1, <2>5, UrgentGoto DEF WritesUrgent, UrgentCalls
  <2>. QED
    BY <2>3, <2>4, <2>6 DEF WritesUrgent
<1>6. CASE Fails(c) /\ pq' = pq
  <2>1. UrgentCalls'
    BY <1>1, <1>6, UrgentGoto, UrgentDone DEF Fails, WritesUrgent, UrgentCalls
  <2>. QED
    BY <1>6, <2>1, SameQueueKeeps DEF WritesUrgent
<1>. QED
  BY <1>4, <1>5, <1>6 DEF Insert

LEMMA FindPendingKeeps ==
  ASSUME TypeOK, WritesUrgent, NEW c \in Callers, FindPending(c)
  PROVE  WritesUrgent' /\ KeepsWrites
<1>1. UrgentCalls'
  BY UrgentDone DEF FindPending, WritesUrgent
<1>2. CASE pq' = pq
  BY <1>1, <1>2, SameQueueKeeps DEF WritesUrgent
<1>3. ASSUME NEW p, NEW k, pq' = Upgraded(k, p)
      PROVE  UrgentQueue' /\ KeepsWrites
  <2>1. DOMAIN pq' = DOMAIN pq
    BY <1>3 DEF Upgraded
  <2>2. ASSUME NEW i \in DOMAIN pq
        PROVE  /\ SameRequest(pq'[i], pq[i])
               /\ Records(pq[i].op) => pq'[i].prio = pq[i].prio
    <3>1. pq[i] \in Request
      BY QueueFacts
    <3>2. CASE pq[i].op.kind = "read" /\ pq'[i] = [pq[i] EXCEPT !.prio = p]
      BY <3>1, <3>2 DEF SameRequest, Records, Request
    <3>3. CASE pq'[i] = pq[i]
      BY <3>3 DEF SameRequest
    <3>. QED
      BY <1>3, <3>2, <3>3 DEF Upgraded
  <2>. QED
    BY <2>1, <2>2, InPlaceKeeps DEF WritesUrgent
<1>. QED
  BY <1>1, <1>2, <1>3 DEF FindPending, WritesUrgent

LEMMA OtherCallsKeep ==
  ASSUME TypeOK, WritesUrgent, NEW c \in Callers,
         Begin(c) \/ FindOther(c) \/ MarkRead(c) \/ MarkReadN(c) \/ Signal(c)
           \/ Revert(c) \/ ShowWrite(c)
  PROVE  WritesUrgent' /\ KeepsWrites
<1>1. pq' = pq
  BY DEF Begin, StRead, ExtRead, StWrite, ExtWrite, ReadN, WriteN, SetCache,
         ResetCache, ResetStats, Pause, FindOther, MarkRead, MarkReadN, Signal,
         Revert, ShowWrite, queueVars
<1>2. UrgentCalls
  BY DEF WritesUrgent
<1>3. CASE Begin(c)
  <2>. SUFFICES UrgentCalls'
    BY <1>1, SameQueueKeeps DEF WritesUrgent
  <2>. PICK op \in Ops :
         \/ StRead(c, op) \/ ExtRead(c, op) \/ StWrite(c, op) \/ ExtWrite(c, op)
         \/ ReadN(c, op) \/ WriteN(c, op)
         \/ SetCache(c, op) \/ ResetCache(c, op) \/ ResetStats(c, op) \/ Pause(c, op)
    BY <1>3 DEF Begin
  <2>1. CASE StRead(c, op) \/ ExtRead(c, op) \/ StWrite(c, op) \/ ExtWrite(c, op)
    BY <1>2, <2>1, NewLocPrio, UrgentGoto, UrgentDone
       DEF StRead, ExtRead, StWrite, ExtWrite, Calls
  <2>2. CASE ReadN(c, op)
    <3>1. PICK p : Goto(c, "mark", [NewLoc(op) EXCEPT !.prio = p])
      BY <2>2 DEF ReadN
    <3>2. [NewLoc(op) EXCEPT !.prio = p].op = op
      BY DEF NewLoc, IdleLoc
    <3>3. ~Records(op)
      BY <2>2 DEF ReadN, Calls, Records
    <3>. QED
      BY <1>2, <3>1, <3>2, <3>3, UrgentGoto
  <2>3. CASE WriteN(c, op)
    <3>1. Goto(c, "insert", [NewLoc(op) EXCEPT !.ring = poolNext])
      BY <2>3 DEF WriteN
    <3>2. [NewLoc(op) EXCEPT !.ring = poolNext].prio = PrioWrite
      BY DEF NewLoc, IdleLoc
    <3>. QED
      BY <1>2, <3>1, <3>2, UrgentGoto
  <2>4. CASE SetCache(c, op) \/ ResetCache(c, op) \/ ResetStats(c, op) \/ Pause(c, op)
    BY <1>2, <2>4 DEF SetCache, ResetCache, ResetStats, Pause, UrgentCalls
  <2>. QED
    BY <2>1, <2>2, <2>3, <2>4
<1>4. CASE FindOther(c)
  <2>. PICK s, p :
         s \in 1 .. CacheLimit /\ Goto(c, "mark", [loc[c] EXCEPT !.slot = s, !.prio = p])
    BY <1>4 DEF FindOther
  <2>1. ~Records(loc[c].op) /\ loc[c] \in Loc
    BY <1>2, <1>4, InCall DEF FindOther, UrgentCalls, Records
  <2>2. [loc[c] EXCEPT !.slot = s, !.prio = p].op = loc[c].op
    BY <2>1 DEF Loc
  <2>. QED
    BY <1>1, <1>2, <2>1, <2>2, UrgentGoto, SameQueueKeeps DEF WritesUrgent
<1>5. CASE MarkRead(c)
  BY <1>1, <1>2, <1>5, UrgentGoto, SameQueueKeeps
     DEF MarkRead, WritesUrgent, UrgentCalls
<1>6. CASE MarkReadN(c)
  <2>1. loc[c] \in Loc /\ ~Records(loc[c].op)
    BY <1>6, InCall DEF MarkReadN, Records
  <2>2. [loc[c] EXCEPT !.i = loc[c].i + 1].op = loc[c].op
    BY <2>1 DEF Loc
  <2>3. UrgentCalls'
    BY <1>2, <1>6, <2>1, <2>2, UrgentGoto DEF MarkReadN
  <2>. QED
    BY <1>1, <2>3, SameQueueKeeps DEF WritesUrgent
<1>7. CASE Signal(c)
  <2>1. /\ loc[c] \in Loc
        /\ Records(loc[c].op) => loc[c].prio = PrioWrite
    BY <1>2, <1>7, InCall DEF Signal, UrgentCalls
  <2>2. /\ [loc[c] EXCEPT !.drop = {}].op = loc[c].op
        /\ [loc[c] EXCEPT !.drop = {}].prio = loc[c].prio
    BY <2>1 DEF Loc
  <2>3. UrgentCalls'
    BY <1>2, <1>7, <2>1, <2>2, UrgentGoto, UrgentDone DEF Signal
  <2>. QED
    BY <1>1, <2>3, SameQueueKeeps DEF WritesUrgent
<1>8. CASE Revert(c)
  BY <1>1, <1>2, <1>8, UrgentDone, SameQueueKeeps DEF Revert, WritesUrgent
<1>9. CASE ShowWrite(c)
  <2>1. UrgentCalls'
    BY <1>2, <1>9, UrgentGoto, UrgentDone DEF ShowWrite, UrgentCalls
  <2>. QED
    BY <1>1, <2>1, SameQueueKeeps DEF WritesUrgent
<1>. QED
  BY <1>3, <1>4, <1>5, <1>6, <1>7, <1>8, <1>9

LEMMA TaskKeeps ==
  ASSUME TypeOK, WritesUrgent,
         TaskStep \/ Unpause \/ Tick \/ UNCHANGED vars
  PROVE  WritesUrgent' /\ KeepsWrites
<1>1. UrgentCalls'
  <2>1. pc' = pc /\ loc' = loc
    BY DEF TaskStep, Top, Take, Dequeue, Skip, Proceed, Bus, Store, Unpause, Tick,
           vars, callVars
  <2>. QED
    BY <2>1 DEF WritesUrgent, UrgentCalls
<1>2. CASE pq' = pq
  BY <1>1, <1>2, SameQueueKeeps DEF WritesUrgent
<1>3. CASE \E i \in DOMAIN pq : /\ task' = [IdleTask EXCEPT !.req = pq[i]]
                                /\ pq' = RemoveBySwap(pq, i)
  <2>. PICK i \in DOMAIN pq : /\ task' = [IdleTask EXCEPT !.req = pq[i]]
                              /\ pq' = RemoveBySwap(pq, i)
    BY <1>3
  <2>1. task'.req = pq[i]
    BY DEF IdleTask
  <2>2. \A j \in DOMAIN pq \ {i} : \E k \in DOMAIN pq' : pq'[k] = pq[j]
    BY QueueFacts, RemoveBySwapProperties
  <2>3. KeepsWrites
    BY <2>1, <2>2 DEF KeepsWrites, SameRequest
  <2>4. \A k \in DOMAIN pq' : \E j \in DOMAIN pq : pq'[k] = pq[j]
    BY QueueFacts, RemoveBySwapProperties
  <2>5. UrgentQueue'
    BY <2>4 DEF WritesUrgent, UrgentQueue
  <2>. QED
    BY <1>1, <2>3, <2>5 DEF WritesUrgent
<1>4. CASE Tick
  <2>1. DOMAIN pq' = DOMAIN pq
    BY <1>4 DEF Tick, AllOlder
  <2>2. ASSUME NEW i \in DOMAIN pq
        PROVE  SameRequest(pq'[i], pq[i]) /\ pq'[i].prio = pq[i].prio
    BY <1>4, QueueFacts DEF Tick, AllOlder, Older, SameRequest, Request
  <2>. QED
    BY <1>1, <2>1, <2>2, InPlaceKeeps DEF WritesUrgent
<1>. QED
  BY <1>2, <1>3, <1>4 DEF TaskStep, Top, Take, Dequeue, Skip, Proceed, Bus, Store,
                          Unpause, vars, queueVars

\* A queued write stays in the queue until the task takes it, whatever the
\* callers and the task do and in whatever order: neither eviction nor the
\* swap on removal loses one (mb_pq_insert, mb_pq_dequeue).
THEOREM WritesAreKept == Spec => WritesKept
<1>1. Init => WritesUrgent
  BY DEF Init, WritesUrgent, UrgentCalls, UrgentQueue
<1>2. TypeOK /\ WritesUrgent /\ [Next]_vars => WritesUrgent' /\ KeepsWrites
  <2>. SUFFICES ASSUME TypeOK, WritesUrgent, [Next]_vars
                PROVE  WritesUrgent' /\ KeepsWrites
    OBVIOUS
  <2>1. ASSUME NEW c \in Callers, Begin(c) \/ Continue(c)
        PROVE  WritesUrgent' /\ KeepsWrites
    BY <2>1, InsertKeeps, FindPendingKeeps, OtherCallsKeep DEF Continue
  <2>2. CASE TaskStep \/ Unpause \/ Tick \/ UNCHANGED vars
    BY <2>2, TaskKeeps
  <2>. QED
    BY <2>1, <2>2 DEF Next
<1>3. TypeOK /\ WritesUrgent /\ [Next]_vars => [KeepsWrites]_vars
  BY <1>2
<1>. QED
  BY <1>1, <1>2, <1>3, TypeCorrect, PTL DEF Spec, WritesKept, KeepsWrites

-----------------------------------------------------------------------------
\* What has waited in the class of REFRESH reads counts as FRESH, so the best
\* request is a write or was inserted no later.
LEMMA AgedIsFresh ==
  ASSUME NEW r \in Request, Aged(r)
  PROVE  EffectivePriority(r) = PrioFresh
BY DEF Aged, EffectivePriority, PrioRefresh, PrioFresh, PrioExt

LEMMA OnlyWritesAreMoreUrgent ==
  ASSUME NEW r \in Request, EffectivePriority(r) <= PrioFresh
  PROVE  EffectivePriority(r) = PrioFresh \/ r.prio = PrioWrite
<1>1. r.prio \in 0 .. 3
  BY DEF Request, Priorities, PrioWrite, PrioExt
<1>. QED
  BY <1>1 DEF EffectivePriority, PrioWrite, PrioFresh, PrioRefresh, PrioExt

LEMMA BestAgainstAged ==
  ASSUME NEW r \in Request, NEW aged \in Request, Aged(aged), ~Before(aged, r)
  PROVE  r.prio = PrioWrite \/ r.seq <= aged.seq
<1>1. r.seq \in Nat /\ aged.seq \in Nat
  BY MbAssumption DEF Request
<1>2. EffectivePriority(r) \in Nat
  BY DEF EffectivePriority, Request, Priorities, PrioWrite, PrioFresh, PrioRefresh, PrioExt
<1>3. EffectivePriority(aged) = PrioFresh
  BY AgedIsFresh
<1>4. EffectivePriority(r) <= PrioFresh
  BY <1>2, <1>3 DEF Before, PrioFresh
<1>5. EffectivePriority(r) = PrioFresh => r.seq <= aged.seq
  BY <1>1, <1>3 DEF Before
<1>. QED
  BY <1>4, <1>5, OnlyWritesAreMoreUrgent

\* For every limit of the queue and every pair of ages: a REFRESH read that has
\* waited its time is overtaken only by writes and by older requests.
THEOREM AgedReadsAreServed == Spec => AgedNotOvertaken
<1>. DEFINE A == Dequeue /\ tpc' = "check" =>
                   \A j \in DOMAIN pq : Aged(pq[j]) =>
                     task'.req.prio = PrioWrite \/ task'.req.seq <= pq[j].seq
<1>1. TypeOK => A
  <2>. SUFFICES ASSUME TypeOK, Dequeue, tpc' = "check", NEW j \in DOMAIN pq, Aged(pq[j])
                PROVE  task'.req.prio = PrioWrite \/ task'.req.seq <= pq[j].seq
    OBVIOUS
  <2>1. PICK i \in DOMAIN pq : IsBest(pq, i) /\ task' = [IdleTask EXCEPT !.req = pq[i]]
    BY DEF Dequeue
  <2>2. task'.req = pq[i]
    BY <2>1 DEF IdleTask
  <2>3. pq[i] \in Request /\ pq[j] \in Request
    BY QueueFacts
  <2>4. ~Before(pq[j], pq[i])
    BY <2>1 DEF IsBest
  <2>. QED
    BY <2>2, <2>3, <2>4, BestAgainstAged
<1>2. TypeOK /\ TypeOK' /\ [Next]_vars => [A]_vars
  BY <1>1
<1>. QED
  BY <1>2, TypeCorrect, PTL DEF Spec, AgedNotOvertaken
=============================================================================
