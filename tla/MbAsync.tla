------------------------------ MODULE MbAsync ------------------------------
(***************************************************************************)
(* The asynchronous Modbus RTU master of the PLC (src/src/mb_async.cpp):   *)
(* callers on both cores queue requests into a bounded priority queue and  *)
(* read a shared value cache without blocking; one background task takes   *)
(* the requests to the RS485 bus and stores what came back.                *)
(*                                                                         *)
(* Callers                                                                 *)
(*   StCallers   ST Logic programs: the loop task and the HIGH task, which *)
(*               come in through the MB_* builtins                         *)
(*               (src/src/st_builtin_modbus.cpp);                          *)
(*   ExtCallers  SCADA, REST and dashboard handlers on the HTTP task       *)
(*               (src/src/api_ext_registers.cpp), which queue reads in the *)
(*               EXT class and force their writes past deduplication.      *)
(*                                                                         *)
(* One step is one critical section or one access to shared state.  A      *)
(* cache key is an address: the four register tables of a slave behave     *)
(* alike, and SlaveOf gives the slave the address belongs to.  millis() is *)
(* kept as saturating ages, advanced by Tick, and as a count of stores,    *)
(* which orders the last_update_ms stamps.                                 *)
(***************************************************************************)
EXTENDS MbPriorityQueue, FiniteSets

CONSTANTS
  StCallers, ExtCallers,
  Addrs,          \* register addresses, a set of naturals
  Slaves,         \* slave ids
  SlaveOf,        \* SlaveOf[a] \in Slaves
  Vals, Zero,     \* register values; Zero is what memset leaves
  Ops,            \* the calls a caller may make
  MaxOps,         \* bound: calls made in one behaviour
  CacheLimit,     \* cache_max_entries
  SemMax,         \* the semaphore's maximum count, MB_ASYNC_QUEUE_SIZE
  SeqWrap,         \* insert_seq counts modulo 2^16
  PoolSize,       \* MB_MULTI_REG_POOL_SIZE
  MaxCount,       \* registers per FC03/FC16 request, 16 in the code
  BackoffSlots,   \* MB_SLAVE_BACKOFF_MAX
  BackoffInit, BackoffMax, BackoffDecay, \* MB_BACKOFF_*, in ticks
  StaleLimit,     \* age at which the sweep recovers a PENDING entry
  SweepInterval,  \* MB_PENDING_SWEEP_INTERVAL_MS, in ticks
  TtlSet,         \* cache_ttl_ms > 0
  MutexTimeouts,  \* whether a 10 ms wait for pq_mutex may expire
  BusResults,     \* transaction outcomes that occur
  FilterResults,  \* verdicts of the measurement filter that occur
  NoOp, NoRequest, NoSlave  \* no call, no request, an unused backoff slot

Callers == StCallers \cup ExtCallers
OpKinds == {"read", "write", "readN", "writeN",
            "cacheOn", "cacheOff", "resetCache", "resetStats", "pause"}

ASSUME MbAssumption ==
  /\ IsFiniteSet(StCallers) /\ IsFiniteSet(ExtCallers)
  /\ StCallers \cap ExtCallers = {}
  /\ Addrs \subseteq Nat
  /\ SlaveOf \in [Addrs -> Slaves]
  /\ Zero \in Vals
  /\ MaxOps \in Nat
  /\ CacheLimit \in Nat \ {0}
  /\ SemMax \in Nat /\ SemMax >= QueueLimit
  /\ SeqWrap \in Nat \ {0}
  /\ PoolSize \in Nat \ {0}
  /\ MaxCount \in Nat \ {0}
  /\ BackoffSlots \in Nat \ {0}
  /\ BackoffInit \in Nat \ {0} /\ BackoffMax \in Nat /\ BackoffDecay \in Nat
  /\ BackoffInit <= BackoffMax
  /\ StaleLimit \in Nat /\ SweepInterval \in Nat
  /\ TtlSet \in BOOLEAN /\ MutexTimeouts \in BOOLEAN
  /\ BusResults \subseteq {"ok", "timeout", "other"}
  /\ FilterResults \subseteq {"accept", "hold", "invalid"}
  \* A call names its kind, first address, register count and values, and
  \* its addresses were validated (validate_slave_addr, cnt 1..16).
  /\ Ops \subseteq [kind : OpKinds, addr : Addrs, n : 1 .. MaxCount,
                    vals : [1 .. MaxCount -> Vals]]
  /\ \A op \in Ops : \A j \in 1 .. op.n : op.addr + (j-1) \in Addrs

VARIABLES
  pq,        \* pq_buf[0..pq_count-1]
  sem,       \* count of pq_semaphore
  seqNo,     \* pq_seq
  cache,     \* entries[0..entry_count-1]
  stamp,     \* number of stores so far, standing for millis() in them
  cacheOn,   \* g_mb_cache_enabled
  pool,      \* g_mb_multi_write_pool
  poolNext,  \* g_mb_multi_write_next
  paused,    \* the cooperative pause of `mb scan`
  backoff,   \* slave_backoff[]
  pc, loc,   \* per caller: where it is, and its locals
  tpc, task, \* the background task: where it is, and its locals
  sinceSweep,\* ticks since last_sweep_ms
  dev,       \* the registers of the slaves themselves
  lastQueued,\* history: the value last queued for each address
  opsLeft    \* calls still allowed (MaxOps)

queueVars == <<pq, sem, seqNo>>
cacheVars == <<cache, stamp>>
poolVars  == <<pool, poolNext>>
callVars  == <<pc, loc, opsLeft>>
taskVars  == <<tpc, task, sinceSweep>>
busVars   == <<dev, lastQueued>>
vars == <<pq, sem, seqNo, cache, stamp, cacheOn, pool, poolNext, paused,
          backoff, pc, loc, tpc, task, sinceSweep, dev, lastQueued, opsLeft>>

-----------------------------------------------------------------------------
(***************************************************************************)
(* Types.                                                                  *)
(***************************************************************************)
Errors == {"ok", "timeout", "other", "invalid"}
Statuses == {"empty", "pending", "valid", "error"}

Op == [kind : OpKinds, addr : Addrs, n : 1 .. MaxCount,
       vals : [1 .. MaxCount -> Vals]]

\* mb_async_request_t
Request == [op : Ops, prio : Priorities, slot : 1 .. PoolSize,
            seq : 0 .. (SeqWrap-1), age : 0 .. ExtAge]

\* mb_cache_entry_t; upd is last_update_ms, pend the age of pending_since_ms
Entry == [key : Addrs, val : Vals, status : Statuses, err : Errors,
          upd : Nat, pend : 0 .. StaleLimit]

BackoffSlot == [slave : Slaves \cup {NoSlave}, bo : 0 .. BackoffMax,
                since : 0 .. BackoffMax]
FreeSlot == [slave |-> NoSlave, bo |-> 0, since |-> BackoffMax]

\* slot is the cache entry found, ring the slot of the value ring, i the
\* register reached, drop the request evicted.
IdleLoc == [op |-> NoOp, slot |-> 1, ring |-> 1, prio |-> PrioWrite, i |-> 1,
            drop |-> {}]
Loc == [op : Ops \cup {NoOp}, slot : 1 .. CacheLimit, ring : 1 .. PoolSize,
        prio : Priorities, i : 1 .. MaxCount, drop : SUBSET Request]
PcLabels == {"idle", "find", "mark", "insert", "revert", "signal",
             "wcache", "wopt"}

IdleTask == [req |-> NoRequest, err |-> "ok",
             vals |-> [j \in 1 .. MaxCount |-> Zero], i |-> 1]
TaskLoc == [req : Request \cup {NoRequest}, err : Errors,
            vals : [1 .. MaxCount -> Vals], i : 1 .. MaxCount]
TaskLabels == {"top", "take", "dequeue", "check", "bus", "store"}

-----------------------------------------------------------------------------
(***************************************************************************)
(* The value cache.                                                        *)
(***************************************************************************)
Blank(k) == [key |-> k, val |-> Zero, status |-> "empty", err |-> "ok",
             upd |-> 0, pend |-> 0]

\* mb_cache_find returns slot s for key k.
Holds(s, k) == s \in DOMAIN cache /\ cache[s].key = k
Cached(k) == \E s \in DOMAIN cache : Holds(s, k)

\* The least recently updated slot that is not PENDING; the scan starts at
\* index 0 and stays there when every slot is PENDING.
IsLruVictim(s) ==
  LET free == {t \in DOMAIN cache : cache[t].status # "pending"}
  IN IF free = {} THEN s = 1
     ELSE /\ s \in free
          /\ \A t \in free : \/ cache[s].upd < cache[t].upd
                             \/ cache[s].upd = cache[t].upd /\ s <= t

\* mb_cache_get_or_create gives slot s to key k, reusing a victim's slot
\* when the cache is at its limit.
Gives(s, k) ==
  \/ Holds(s, k)
  \/ /\ ~Cached(k)
     /\ IF Len(cache) < CacheLimit THEN s = Len(cache) + 1 ELSE IsLruVictim(s)

\* The entry get_or_create returns in slot s, and the cache with entry e there.
EntryFor(s, k) == IF Holds(s, k) THEN cache[s] ELSE Blank(k)
Put(s, e) == IF s \in DOMAIN cache THEN [cache EXCEPT ![s] = e]
                                   ELSE Append(cache, e)

\* mb_cache_mark_pending_locked
Marked(e) == [e EXCEPT !.status = "pending", !.pend = 0]
\* What a PENDING entry goes back to when its request is given up.
Usable(e) == [e EXCEPT !.status = IF e.upd > 0 THEN "valid" ELSE "empty",
                       !.pend = 0]
\* mb_cache_clear_pending_for_request: every address of r, where PENDING.
Cleared(reqs) ==
  [s \in DOMAIN cache |->
     IF /\ cache[s].status = "pending"
        /\ \E r \in reqs : cache[s].key \in r.op.addr .. (r.op.addr + r.op.n - 1)
     THEN Usable(cache[s]) ELSE cache[s]]

\* Mutant: no sweep.
NothingSwept == cache
\* mb_cache_sweep_stale_pending
Swept ==
  [s \in DOMAIN cache |->
     IF cache[s].status = "pending" /\ cache[s].pend >= StaleLimit
     THEN [Usable(cache[s]) EXCEPT !.err = "timeout"] ELSE cache[s]]

-----------------------------------------------------------------------------
(***************************************************************************)
(* Callers: the pieces the queueing functions are made of.                 *)
(***************************************************************************)
Goto(c, label, l) == /\ pc' = [pc EXCEPT ![c] = label]
                     /\ loc' = [loc EXCEPT ![c] = l]
Done(c) == Goto(c, "idle", IdleLoc)

\* Caller c is free to make the call op.
Calls(c, op, kind) ==
  /\ pc[c] = "idle" /\ opsLeft > 0
  /\ op \in Ops /\ op.kind = kind
  /\ opsLeft' = opsLeft - 1

NewLoc(op) == [IdleLoc EXCEPT !.op = op]

(***************************************************************************)
(* mb_pq_insert, up to the release of pq_mutex.  The request is built here *)
(* from the caller's locals.  On success the caller goes on to signal; on  *)
(* refusal, or when the mutex is not had in time, to otherwise.            *)
(***************************************************************************)
NewRequest(l) == [op |-> l.op, prio |-> l.prio, slot |-> l.ring,
                  seq |-> seqNo, age |-> 0]

Records(op) == op.kind \in {"write", "writeN"}
LastQueued(op) ==
  IF Records(op)
  THEN [a \in Addrs |-> IF a \in op.addr .. (op.addr + op.n - 1)
                        THEN op.vals[a - op.addr + 1] ELSE lastQueued[a]]
  ELSE lastQueued

InsertRoom(c) ==
  /\ HasRoom(pq)
  /\ pq' = Append(pq, NewRequest(loc[c]))
  /\ Goto(c, "signal", loc[c])
  /\ lastQueued' = LastQueued(loc[c].op)

InsertEvict(c) ==
  \E i \in DOMAIN pq :
    /\ Yields(pq, i, NewRequest(loc[c]))
    /\ pq' = [pq EXCEPT ![i] = NewRequest(loc[c])]
    /\ Goto(c, "signal", [loc[c] EXCEPT !.drop = {pq[i]}])
    /\ lastQueued' = LastQueued(loc[c].op)

\* A refused read takes its PENDING mark back; the other calls just fail.
Fails(c) == IF loc[c].op.kind = "read" THEN Goto(c, "revert", loc[c])
                                       ELSE Done(c)

Insert(c) ==
  /\ pc[c] = "insert"
  /\ \/ /\ InsertRoom(c) \/ InsertEvict(c)
        /\ seqNo' = (seqNo + 1) % SeqWrap
     \/ /\ Refuses(pq, NewRequest(loc[c]))
        /\ Fails(c)
        /\ seqNo' = (seqNo + 1) % SeqWrap
        /\ UNCHANGED <<pq, lastQueued>>
     \/ /\ MutexTimeouts
        /\ Fails(c)
        /\ UNCHANGED <<pq, seqNo, lastQueued>>
  /\ UNCHANGED <<sem, cacheVars, cacheOn, poolVars, paused, backoff, taskVars,
                 dev, opsLeft>>

\* Mutant: a binary semaphore.
GivenOnce == 1
\* xSemaphoreGive of the counting semaphore.
Given == IF sem < SemMax THEN sem + 1 ELSE sem

\* The rest of mb_pq_insert: release the victim's PENDING marks, then give
\* the semaphore.  A single write goes on to its optimistic cache update.
Signal(c) ==
  /\ pc[c] = "signal"
  /\ cache' = Cleared(loc[c].drop)
  /\ sem' = Given
  /\ IF loc[c].op.kind = "write"
     THEN Goto(c, "wcache", [loc[c] EXCEPT !.drop = {}])
     ELSE Done(c)
  /\ UNCHANGED <<pq, seqNo, stamp, cacheOn, poolVars, paused, backoff,
                 taskVars, busVars, opsLeft>>

-----------------------------------------------------------------------------
(***************************************************************************)
(* Single reads.                                                           *)
(***************************************************************************)

\* st_builtin_mb_read_*: look at the cached value, and queue a refresh unless
\* one is pending already.  With a TTL, an entry never updated has expired,
\* and one that was may have.
StRead(c, op) ==
  /\ c \in StCallers
  /\ Calls(c, op, "read")
  /\ \E s \in 1 .. CacheLimit, aged \in BOOLEAN :
       LET e == EntryFor(s, op.addr)
           expired == TtlSet /\ (aged \/ e.upd = 0)
       IN /\ Gives(s, op.addr)
          /\ cache' = Put(s, e)
          /\ IF ~cacheOn \/ expired \/ e.status # "pending"
             THEN Goto(c, "find", NewLoc(op))
             ELSE Done(c)
  /\ UNCHANGED <<queueVars, stamp, cacheOn, poolVars, paused, backoff,
                 taskVars, busVars>>

\* A SCADA or REST read goes straight to mb_async_queue_read.
ExtRead(c, op) ==
  /\ c \in ExtCallers
  /\ Calls(c, op, "read")
  /\ Goto(c, "find", NewLoc(op))
  /\ UNCHANGED <<queueVars, cacheVars, cacheOn, poolVars, paused, backoff,
                 taskVars, busVars>>

\* mb_pq_upgrade_read: a queued read of address k is lifted to class p.
Upgraded(k, p) ==
  [i \in DOMAIN pq |->
     IF pq[i].op.kind = "read" /\ pq[i].op.addr = k /\ pq[i].prio > p
     THEN [pq[i] EXCEPT !.prio = p] ELSE pq[i]]

\* mb_async_queue_read finds its address PENDING: the read is deduplicated,
\* and an ST read lifts the queued one.
FindPending(c) ==
  /\ pc[c] = "find" /\ cacheOn
  /\ \E s \in DOMAIN cache :
       /\ Holds(s, loc[c].op.addr) /\ cache[s].status = "pending"
       /\ \/ /\ c \in StCallers
             /\ pq' = Upgraded(loc[c].op.addr,
                               IF cache[s].upd > 0 THEN PrioRefresh ELSE PrioFresh)
          \/ /\ c \in ExtCallers \/ MutexTimeouts
             /\ pq' = pq
  /\ Done(c)
  /\ UNCHANGED <<sem, seqNo, cacheVars, cacheOn, poolVars, paused, backoff,
                 taskVars, busVars, opsLeft>>

\* Otherwise its class follows from what the cache holds, and an entry is
\* made if there is none.
FindOther(c) ==
  /\ pc[c] = "find"
  /\ \E s \in 1 .. CacheLimit :
       LET k == loc[c].op.addr
           e == EntryFor(s, k)
           p == IF Cached(k) /\ e.status = "valid" THEN PrioRefresh ELSE PrioFresh
       IN /\ Gives(s, k)
          /\ ~(cacheOn /\ e.status = "pending")
          /\ cache' = Put(s, e)
          /\ Goto(c, "mark",
               [loc[c] EXCEPT !.slot = s,
                  !.prio = IF c \in ExtCallers THEN PrioExt ELSE p])
  /\ UNCHANGED <<queueVars, stamp, cacheOn, poolVars, paused, backoff,
                 taskVars, busVars, opsLeft>>

\* The entry is marked through the pointer found before, whoever owns the
\* slot by now; a slot past entry_count is cleared when it is next used.
MarkRead(c) ==
  /\ pc[c] = "mark" /\ loc[c].op.kind = "read"
  /\ cache' = IF loc[c].slot \in DOMAIN cache
              THEN [cache EXCEPT ![loc[c].slot] = Marked(@)] ELSE cache
  /\ Goto(c, "insert", loc[c])
  /\ UNCHANGED <<queueVars, stamp, cacheOn, poolVars, paused, backoff,
                 taskVars, busVars, opsLeft>>

\* The refused read takes its mark back, through the same pointer.
Revert(c) ==
  /\ pc[c] = "revert"
  /\ cache' = IF loc[c].slot \in DOMAIN cache
              THEN [cache EXCEPT ![loc[c].slot] = Usable(@)] ELSE cache
  /\ Done(c)
  /\ UNCHANGED <<queueVars, stamp, cacheOn, poolVars, paused, backoff,
                 taskVars, busVars, opsLeft>>

-----------------------------------------------------------------------------
(***************************************************************************)
(* Single writes.                                                          *)
(***************************************************************************)

\* The cache already shows the value as VALID: mb_async_queue_write returns
\* true with nothing queued.
Duplicate(op) ==
  /\ cacheOn
  /\ \E s \in DOMAIN cache : /\ Holds(s, op.addr)
                             /\ cache[s].status = "valid"
                             /\ cache[s].val = op.vals[1]

StWrite(c, op) ==
  /\ c \in StCallers
  /\ Calls(c, op, "write")
  /\ Goto(c, IF Duplicate(op) THEN "wopt" ELSE "insert", NewLoc(op))
  /\ UNCHANGED <<queueVars, cacheVars, cacheOn, poolVars, paused, backoff,
                 taskVars, busVars>>

\* REST writes are forced.
ExtWrite(c, op) ==
  /\ c \in ExtCallers
  /\ Calls(c, op, "write")
  /\ Goto(c, "insert", NewLoc(op))
  /\ UNCHANGED <<queueVars, cacheVars, cacheOn, poolVars, paused, backoff,
                 taskVars, busVars>>

\* The optimistic update: the value is shown, PENDING until it is confirmed.
\* mb_async_queue_write makes it ("wcache"), and an ST builtin that was told
\* true makes it again ("wopt").
ShowWrite(c) ==
  /\ pc[c] \in {"wcache", "wopt"}
  /\ \E s \in 1 .. CacheLimit :
       LET op == loc[c].op
           e == EntryFor(s, op.addr)
       IN /\ Gives(s, op.addr)
          /\ cache' = Put(s, Marked([e EXCEPT !.val = op.vals[1]]))
  /\ IF pc[c] = "wcache" /\ c \in StCallers
     THEN Goto(c, "wopt", loc[c]) ELSE Done(c)
  /\ UNCHANGED <<queueVars, stamp, cacheOn, poolVars, paused, backoff,
                 taskVars, busVars, opsLeft>>

-----------------------------------------------------------------------------
(***************************************************************************)
(* Multi-register calls.                                                   *)
(***************************************************************************)

\* mb_async_queue_read_multi: REFRESH if any address has a VALID value.
ReadN(c, op) ==
  /\ Calls(c, op, "readN")
  /\ LET known == \E s \in DOMAIN cache :
                    /\ cache[s].key \in op.addr .. (op.addr + op.n - 1)
                    /\ cache[s].status = "valid"
         p == IF known THEN PrioRefresh ELSE PrioFresh
     IN Goto(c, "mark", [NewLoc(op) EXCEPT
                           !.prio = IF c \in ExtCallers THEN PrioExt ELSE p])
  /\ UNCHANGED <<queueVars, cacheVars, cacheOn, poolVars, paused, backoff,
                 taskVars, busVars>>

\* One address after the other is marked, before the request is queued; the
\* marks stay if it is refused.
MarkReadN(c) ==
  /\ pc[c] = "mark" /\ loc[c].op.kind = "readN"
  /\ \E s \in 1 .. CacheLimit :
       LET k == loc[c].op.addr + loc[c].i - 1
       IN Gives(s, k) /\ cache' = Put(s, Marked(EntryFor(s, k)))
  /\ IF loc[c].i < loc[c].op.n
     THEN Goto(c, "mark", [loc[c] EXCEPT !.i = @ + 1])
     ELSE Goto(c, "insert", loc[c])
  /\ UNCHANGED <<queueVars, stamp, cacheOn, poolVars, paused, backoff,
                 taskVars, busVars, opsLeft>>

\* The slot after poolNext.
NextSlot == (poolNext % PoolSize) + 1

\* mb_async_queue_write_multi: the values go to the next slot of the ring
\* before anyone knows whether the queue will take the request.
WriteN(c, op) ==
  /\ Calls(c, op, "writeN")
  /\ pool' = [pool EXCEPT ![poolNext] =
                [j \in 1 .. MaxCount |-> IF j <= op.n THEN op.vals[j] ELSE @[j]]]
  /\ poolNext' = NextSlot
  /\ Goto(c, "insert", [NewLoc(op) EXCEPT !.ring = poolNext])
  /\ UNCHANGED <<queueVars, cacheVars, cacheOn, paused, backoff, taskVars,
                 busVars>>

-----------------------------------------------------------------------------
(***************************************************************************)
(* Calls that take effect at once.                                         *)
(***************************************************************************)

\* MB_CACHE(on) of one ST program sets the flag all callers read.
SetCache(c, op) ==
  /\ c \in StCallers
  /\ Calls(c, op, "cacheOn") \/ Calls(c, op, "cacheOff")
  /\ cacheOn' = (op.kind = "cacheOn")
  /\ UNCHANGED <<queueVars, cacheVars, poolVars, paused, backoff, pc, loc,
                 taskVars, busVars>>

ResetCache(c, op) ==
  /\ Calls(c, op, "resetCache")
  /\ cache' = <<>>
  /\ UNCHANGED <<queueVars, stamp, cacheOn, poolVars, paused, backoff, pc, loc,
                 taskVars, busVars>>

ResetStats(c, op) ==
  /\ Calls(c, op, "resetStats")
  /\ backoff' = [i \in 1 .. BackoffSlots |-> FreeSlot]
  /\ UNCHANGED <<queueVars, cacheVars, cacheOn, poolVars, paused, pc, loc,
                 taskVars, busVars>>

Pause(c, op) ==
  /\ Calls(c, op, "pause")
  /\ paused' = TRUE
  /\ UNCHANGED <<queueVars, cacheVars, cacheOn, poolVars, backoff, pc, loc,
                 taskVars, busVars>>

\* `mb scan` always unpauses when it is done.
Unpause ==
  /\ paused /\ paused' = FALSE
  /\ UNCHANGED <<queueVars, cacheVars, cacheOn, poolVars, backoff, callVars,
                 taskVars, busVars>>

-----------------------------------------------------------------------------
(***************************************************************************)
(* Per-slave backoff.                                                      *)
(***************************************************************************)

\* mb_backoff_find_or_create gives slot i to slave v: its own, else the first
\* free one, else the first with the smallest backoff.
SlotHeld(i, v) == backoff[i].slave = v
Tracked(v) == \E i \in DOMAIN backoff : SlotHeld(i, v)
GivesSlot(i, v) ==
  IF Tracked(NoSlave) \/ Tracked(v)
  THEN LET want == IF Tracked(v) THEN v ELSE NoSlave
       IN SlotHeld(i, want) /\ \A j \in 1 .. (i-1) : ~SlotHeld(j, want)
  ELSE \A j \in DOMAIN backoff :
         \/ backoff[i].bo < backoff[j].bo
         \/ backoff[i].bo = backoff[j].bo /\ i <= j
SlotFor(i, v) == IF SlotHeld(i, v) THEN backoff[i]
                                   ELSE [FreeSlot EXCEPT !.slave = v]

\* mb_backoff_on_timeout, mb_backoff_on_success
Doubled(b) == IF b = 0 THEN BackoffInit
              ELSE IF b * 2 > BackoffMax THEN BackoffMax ELSE b * 2
Decayed(b) == IF b > BackoffDecay THEN b - BackoffDecay ELSE 0

BackoffAfter(v, err) ==
  IF err \in {"timeout", "ok"}
  THEN \E i \in 1 .. BackoffSlots :
         /\ GivesSlot(i, v)
         /\ backoff' = [backoff EXCEPT ![i] =
              [SlotFor(i, v) EXCEPT
                 !.bo = IF err = "timeout" THEN Doubled(@) ELSE Decayed(@)]]
  ELSE UNCHANGED backoff

-----------------------------------------------------------------------------
(***************************************************************************)
(* The background task, mb_async_task_func.                                *)
(***************************************************************************)

\* Top of the loop: nothing is done while paused; now and then the sweep.
Top ==
  /\ tpc = "top" /\ ~paused
  /\ tpc' = "take"
  /\ IF sinceSweep >= SweepInterval
     THEN sinceSweep' = 0 /\ cache' = Swept
     ELSE UNCHANGED <<sinceSweep, cache>>
  /\ UNCHANGED <<queueVars, stamp, cacheOn, poolVars, paused, backoff,
                 callVars, task, busVars>>

\* xSemaphoreTake, which gives up after 100 ms without a signal.
Take ==
  /\ tpc = "take"
  /\ IF sem > 0 THEN sem' = sem - 1 /\ tpc' = "dequeue"
                ELSE sem' = sem /\ tpc' = "top"
  /\ UNCHANGED <<pq, seqNo, cacheVars, cacheOn, poolVars, paused, backoff,
                 callVars, task, sinceSweep, busVars>>

\* mb_pq_dequeue; a signal without a request, or a mutex not had in time,
\* ends the round with the signal spent.
Dequeue ==
  /\ tpc = "dequeue"
  /\ \/ \E i \in DOMAIN pq :
          /\ IsBest(pq, i)
          /\ task' = [IdleTask EXCEPT !.req = pq[i]]
          /\ pq' = RemoveBySwap(pq, i)
          /\ tpc' = "check"
     \/ /\ pq = <<>> \/ MutexTimeouts
        /\ tpc' = "top"
        /\ UNCHANGED <<pq, task>>
  /\ UNCHANGED <<sem, seqNo, cacheVars, cacheOn, poolVars, paused, backoff,
                 callVars, sinceSweep, busVars>>

Target == SlaveOf[task.req.op.addr]
CoolingDown(i) == backoff[i].bo > 0 /\ backoff[i].since < backoff[i].bo
FirstSlot(i, v) == SlotHeld(i, v) /\ \A j \in 1 .. (i-1) : ~SlotHeld(j, v)

\* The slave is in backoff: the request is dropped.  A single request leaves
\* ERROR in its cache entry; the entries of a multi-register request are not
\* looked for.
Skip ==
  /\ tpc = "check"
  /\ \E i \in 1 .. BackoffSlots : FirstSlot(i, Target) /\ CoolingDown(i)
  /\ cache' = [s \in DOMAIN cache |->
                 IF /\ task.req.op.kind \in {"read", "write"}
                    /\ cache[s].key = task.req.op.addr
                 THEN [cache[s] EXCEPT !.status = "error", !.err = "timeout",
                                       !.pend = 0]
                 ELSE cache[s]]
  /\ tpc' = "top" /\ task' = IdleTask
  /\ UNCHANGED <<queueVars, stamp, cacheOn, poolVars, paused, backoff,
                 callVars, sinceSweep, busVars>>

\* Otherwise the transaction goes ahead; with a backoff its time is noted.
Proceed ==
  /\ tpc = "check"
  /\ \A i \in 1 .. BackoffSlots : ~(FirstSlot(i, Target) /\ CoolingDown(i))
  /\ backoff' = [i \in 1 .. BackoffSlots |->
                   IF FirstSlot(i, Target) /\ backoff[i].bo > 0
                   THEN [backoff[i] EXCEPT !.since = 0] ELSE backoff[i]]
  /\ tpc' = "bus"
  /\ UNCHANGED <<queueVars, cacheVars, cacheOn, poolVars, paused, callVars,
                 task, sinceSweep, busVars>>

\* What goes out on the wire for register j of a write.
Sent(j) == IF task.req.op.kind = "write" THEN task.req.op.vals[j]
                                         ELSE pool[task.req.slot][j]
Written ==
  [a \in Addrs |->
     IF a \in task.req.op.addr .. (task.req.op.addr + task.req.op.n - 1)
     THEN Sent(a - task.req.op.addr + 1) ELSE dev[a]]

\* The transaction.  A write that is not answered may have been carried out.
Bus ==
  /\ tpc = "bus"
  /\ \E e \in BusResults :
       /\ \/ /\ Records(task.req.op)
             /\ dev' = Written \/ (e # "ok" /\ dev' = dev)
             /\ task' = [task EXCEPT !.err = e]
          \/ /\ ~Records(task.req.op)
             /\ dev' = dev
             /\ task' = [task EXCEPT !.err = e,
                  !.vals = [j \in 1 .. MaxCount |->
                              IF j <= task.req.op.n /\ e = "ok"
                              THEN dev[task.req.op.addr + j - 1] ELSE Zero]]
  /\ tpc' = "store"
  /\ UNCHANGED <<queueVars, cacheVars, cacheOn, poolVars, paused, backoff,
                 callVars, sinceSweep, lastQueued>>

\* mb_store_filtered.  A jump can only be held back from a good old value.
Filtered(e, v, verdict) ==
  CASE verdict = "accept"  -> [e EXCEPT !.val = v, !.status = "valid", !.err = "ok"]
    [] verdict = "hold"    -> [e EXCEPT !.status = "valid", !.err = "ok"]
    [] verdict = "invalid" -> [e EXCEPT !.status = "error", !.err = "invalid"]
Verdicts(e) == IF e.upd > 0 /\ e.err = "ok" THEN FilterResults
                                            ELSE FilterResults \ {"hold"}

\* The entry e after the transaction, for register j of the request.
Failed(e) == [e EXCEPT !.status = "error", !.err = task.err]
Outcome(e, j, verdict) ==
  LET kind == task.req.op.kind
      new == CASE task.err # "ok"  -> Failed(e)
               [] kind = "write"   -> [e EXCEPT !.val = task.req.op.vals[j],
                                         !.status = "valid", !.err = "ok"]
               [] kind = "writeN"  -> [e EXCEPT !.val = pool[task.req.slot][j],
                                         !.status = "valid", !.err = "ok"]
               [] OTHER            -> Filtered(e, task.vals[j], verdict)
  IN [new EXCEPT !.upd = stamp + 1, !.pend = 0]

\* Back to the top once every register is stored.
NextRegister ==
  IF task.i < task.req.op.n
  THEN /\ task' = [task EXCEPT !.i = @ + 1]
       /\ UNCHANGED <<tpc, backoff>>
  ELSE /\ tpc' = "top" /\ task' = IdleTask
       /\ BackoffAfter(Target, task.err)

\* The cache update.  A single read updates the entry only if it is still
\* there; the other requests create the entries they lack.
Store ==
  /\ tpc = "store"
  /\ LET k == task.req.op.addr + task.i - 1
     IN \/ /\ task.req.op.kind # "read" \/ Cached(k)
           /\ \E s \in 1 .. CacheLimit :
                /\ Gives(s, k)
                /\ \E verdict \in Verdicts(EntryFor(s, k)) :
                     cache' = Put(s, Outcome(EntryFor(s, k), task.i, verdict))
           /\ stamp' = stamp + 1
        \/ /\ task.req.op.kind = "read" /\ ~Cached(k)
           /\ UNCHANGED cacheVars
  /\ NextRegister
  /\ UNCHANGED <<queueVars, cacheOn, poolVars, paused, callVars, sinceSweep,
                 busVars>>

-----------------------------------------------------------------------------
(***************************************************************************)
(* Time: one tick ages everything that is measured against millis().       *)
(***************************************************************************)
Tick ==
  /\ pq' = AllOlder(pq)
  /\ cache' = [s \in DOMAIN cache |->
       [cache[s] EXCEPT !.pend = IF cache[s].status = "pending" /\ @ < StaleLimit
                                 THEN @ + 1 ELSE @]]
  /\ backoff' = [i \in 1 .. BackoffSlots |->
       [backoff[i] EXCEPT !.since = IF @ < BackoffMax THEN @ + 1 ELSE @]]
  /\ sinceSweep' = IF sinceSweep < SweepInterval THEN sinceSweep + 1 ELSE sinceSweep
  /\ UNCHANGED <<sem, seqNo, stamp, cacheOn, poolVars, paused, callVars, tpc,
                 task, busVars>>

-----------------------------------------------------------------------------
Init ==
  /\ pq = <<>> /\ sem = 0 /\ seqNo = 0
  /\ cache = <<>> /\ stamp = 0 /\ cacheOn = TRUE
  /\ pool = [i \in 1 .. PoolSize |-> [j \in 1 .. MaxCount |-> Zero]]
  /\ poolNext = 1
  /\ paused = FALSE
  /\ backoff = [i \in 1 .. BackoffSlots |-> FreeSlot]
  /\ pc = [c \in Callers |-> "idle"] /\ loc = [c \in Callers |-> IdleLoc]
  /\ tpc = "top" /\ task = IdleTask /\ sinceSweep = 0
  /\ dev = [a \in Addrs |-> Zero] /\ lastQueued = [a \in Addrs |-> Zero]
  /\ opsLeft = MaxOps

\* A new call of caller c, and the steps that finish a call begun.
Begin(c) ==
  \E op \in Ops :
    \/ StRead(c, op) \/ ExtRead(c, op) \/ StWrite(c, op) \/ ExtWrite(c, op)
    \/ ReadN(c, op) \/ WriteN(c, op)
    \/ SetCache(c, op) \/ ResetCache(c, op) \/ ResetStats(c, op) \/ Pause(c, op)
Continue(c) ==
  \/ FindPending(c) \/ FindOther(c) \/ MarkRead(c) \/ MarkReadN(c)
  \/ Insert(c) \/ Signal(c) \/ Revert(c) \/ ShowWrite(c)
TaskStep == Top \/ Take \/ Dequeue \/ Skip \/ Proceed \/ Bus \/ Store

Next == \/ \E c \in Callers : Begin(c) \/ Continue(c)
        \/ TaskStep \/ Unpause \/ Tick

Spec == Init /\ [][Next]_vars

\* FreeRTOS runs every ready task, millis() advances, `mb scan` ends, and a
\* call that was begun is not abandoned.  No caller has to make a call.
Fairness == /\ WF_vars(TaskStep) /\ WF_vars(Tick) /\ WF_vars(Unpause)
            /\ \A c \in Callers : WF_vars(Continue(c))
FairSpec == Spec /\ Fairness

QueueOK == /\ pq \in Seq(Request) /\ Len(pq) <= QueueLimit
           /\ sem \in 0 .. SemMax
           /\ seqNo \in 0 .. (SeqWrap-1)
CacheOK == /\ cache \in Seq(Entry) /\ Len(cache) <= CacheLimit
           /\ stamp \in Nat
CallOK  == /\ pc \in [Callers -> PcLabels] /\ loc \in [Callers -> Loc]
           /\ opsLeft \in 0 .. MaxOps
TaskOK  == /\ tpc \in TaskLabels /\ task \in TaskLoc
           /\ sinceSweep \in 0 .. SweepInterval
RestOK  == /\ cacheOn \in BOOLEAN /\ paused \in BOOLEAN
           /\ pool \in [1 .. PoolSize -> [1 .. MaxCount -> Vals]]
           /\ poolNext \in 1 .. PoolSize
           /\ backoff \in [1 .. BackoffSlots -> BackoffSlot]
           /\ dev \in [Addrs -> Vals] /\ lastQueued \in [Addrs -> Vals]
\* A caller in the middle of a call has that call in its locals, and the task
\* has its request in hand; a loop counter stays within the register count.
CallsLocated == \A c \in Callers : pc[c] # "idle" =>
                  loc[c].op \in Ops /\ loc[c].i <= loc[c].op.n
TaskLocated == tpc \in {"check", "bus", "store"} =>
                  task.req \in Request /\ task.i <= task.req.op.n
\* The types of the variables, and where locals are set.
TypeOK == /\ QueueOK /\ CacheOK /\ CallOK /\ TaskOK /\ RestOK
          /\ CallsLocated /\ TaskLocated

-----------------------------------------------------------------------------
(***************************************************************************)
(* Safety.                                                                 *)
(***************************************************************************)

\* A waiting request is always announced: by a count of the semaphore, by a
\* caller about to give it, or by the task about to look.  Otherwise the task
\* would sleep on a queue that is not empty (mb_pq_insert, mb_pq_dequeue).
\* It holds while nobody waits 10 ms for pq_mutex.
Signalling == {c \in Callers : pc[c] = "signal"}
Looking == IF tpc = "dequeue" THEN 1 ELSE 0
NoLostWakeup == Len(pq) <= sem + Cardinality(Signalling) + Looking

\* A queued write leaves the queue only into the hands of the task: neither
\* eviction nor the swap on removal ever loses one (mb_pq_insert,
\* mb_pq_dequeue).
SameRequest(r, q) == r.op = q.op /\ r.seq = q.seq /\ r.slot = q.slot
WritesKept ==
  [][\A i \in DOMAIN pq :
       Records(pq[i].op) =>
         \/ \E j \in DOMAIN pq' : SameRequest(pq'[j], pq[i])
         \/ task'.req = pq[i]]_vars

\* A REFRESH read that has waited StarvationAge is overtaken only by writes
\* and by what was queued before it (MB_STARVATION_AGE_MS in mb_async.h), as
\* long as insert_seq does not wrap.
Aged(r) == r.prio = PrioRefresh /\ r.age >= StarvationAge
AgedNotOvertaken ==
  [][Dequeue /\ tpc' = "check" =>
       \A j \in DOMAIN pq : Aged(pq[j]) =>
         task'.req.prio = PrioWrite \/ task'.req.seq <= pq[j].seq]_vars

\* A caller that is neither refused nor interrupted by the bus sees its value
\* last: with every transaction answered, once the queue is empty each
\* register holds the value last queued for it, whoever queued it.
LastWriteWins == pq = <<>> /\ task.req = NoRequest => dev = lastQueued

\* A multi-register write sends the values it was queued with, although they
\* sit in a ring of PoolSize slots while it waits (g_mb_multi_write_pool).  The
\* code does not keep this: the ring is shorter than the queue.
SendsWhatWasQueued ==
  \A i \in 1 .. MaxCount :
    tpc = "bus" /\ task.req.op.kind = "writeN" /\ i <= task.req.op.n
      => Sent(i) = task.req.op.vals[i]

\* A PENDING entry has a request behind it: queued, at the task, or being
\* queued by a caller (mb_async.h: "Request queued, waiting for response").
About(op, a) == op # NoOp /\ a \in op.addr .. (op.addr + op.n - 1)
PendingHasRequest ==
  \A s \in DOMAIN cache :
    cache[s].status = "pending" =>
      \/ \E i \in DOMAIN pq : About(pq[i].op, cache[s].key)
      \/ task.req # NoRequest /\ About(task.req.op, cache[s].key)
      \/ \E c \in Callers : About(loc[c].op, cache[s].key)

\* A write that is skipped as a duplicate finds its value in the slave
\* (mb_async_queue_write: "Same value already confirmed written").
DuplicateWasWritten ==
  [][\A c \in StCallers, op \in Ops :
       StWrite(c, op) /\ Duplicate(op) => dev[op.addr] = op.vals[1]]_vars

\* When an ST read leaves it to a read already queued, that read does not
\* wait in the SCADA class (mb_pq_upgrade_read).
LeftToQueued(c, op) ==
  \/ StRead(c, op) /\ pc'[c] = "idle"
  \/ FindPending(c) /\ c \in StCallers /\ op = loc[c].op
StNotBehindScada ==
  [][\A c \in StCallers, op \in Ops :
       LeftToQueued(c, op) =>
         ~\E i \in DOMAIN pq' : /\ pq'[i].op.kind = "read"
                                /\ pq'[i].op.addr = op.addr
                                /\ pq'[i].prio = PrioExt]_vars

(***************************************************************************)
(* Liveness.                                                               *)
(***************************************************************************)

\* "A cache entry must never stay PENDING forever" (BUG-333): once calls
\* stop, every entry leaves PENDING, also when its request was lost.
PendingRecovers ==
  \A a \in Addrs : (\E s \in DOMAIN cache : Holds(s, a) /\ cache[s].status = "pending")
                   ~> ~(\E s \in DOMAIN cache : Holds(s, a) /\ cache[s].status = "pending")

\* The task gets to every request: the queue always drains.
QueueDrains == []<>(pq = <<>>)
=============================================================================
