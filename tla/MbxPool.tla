------------------------------ MODULE MbxPool ------------------------------
(***************************************************************************)
(* The Modbus TCP master for expansion boards: a pool of worker tasks that *)
(* share one priority queue (src/src/modbus_expansion_async.cpp) and a     *)
(* small pool of persistent connections (src/src/modbus_expansion.cpp).    *)
(*                                                                         *)
(* A channel is a (board, kanal) pair, a bus of its own: different         *)
(* channels are served concurrently, one channel strictly serially.  A     *)
(* worker claims the channel of the request it takes, and the claim keeps  *)
(* other workers from its requests and the eviction from its socket.       *)
(*                                                                         *)
(* The queue is the algorithm of MbPriorityQueue ("identisk algoritme");   *)
(* ageing is the subject of MbStarvation, so that requests here have one   *)
(* age.  The value cache follows the protocol of MbAsync and is left out.  *)
(* The semaphore is left out too: since BUG-478 a worker looks into the    *)
(* queue every 100 ms with or without a token.  A channel has one slave    *)
(* with one register.                                                      *)
(***************************************************************************)
EXTENDS MbPriorityQueue, FiniteSets

CONSTANTS
  Workers,        \* the worker tasks, MBX_ASYNC_WORKER_COUNT of them
  Channels,       \* (board, kanal) pairs that requests are queued for
  Boards, BoardOf,    \* BoardOf[c] is the board of channel c
  Addresses,      \* IP addresses a board may have
  Slots,          \* MODBUS_EXPANSION_MAX_CONNECTIONS
  Classes,        \* classes in which requests are queued
  MaxReqs,        \* bound: requests queued in one behaviour
  MaxEdits,       \* bound: edits of a board's address in one behaviour
  MaxPauses,      \* bound: scans that pause the workers in one behaviour
  LockTimeouts,   \* whether a wait for a mutex may expire, except ...
  Leaks,          \* ... the 50 ms wait of the release of a claim
  Reaps,          \* whether connections without answers are closed (BUG-518)
  NoChannel, NoWorker, NoAddress, NoReq

ASSUME PoolAssumption ==
  /\ IsFiniteSet(Workers) /\ Workers # {}
  /\ BoardOf \in [Channels -> Boards]
  /\ NoChannel \notin Channels /\ NoWorker \notin Workers
  /\ NoAddress \notin Addresses
  /\ Slots \in Nat \ {0}
  /\ Classes \subseteq Priorities
  /\ MaxReqs \in Nat /\ MaxEdits \in Nat /\ MaxPauses \in Nat
  /\ LockTimeouts \in BOOLEAN /\ Leaks \in BOOLEAN /\ Reaps \in BOOLEAN

VARIABLES
  pq,        \* pq_buf[0 .. pq_count-1]
  nreq,      \* pq_seq; MaxReqs keeps it from wrapping
  inflight,  \* inflight[]: the channels claimed
  pc, loc,   \* where each worker is, and its local variables
  conn,      \* g_mbx_conn[], with what is on its way from the board
  lru,       \* slots by last_activity_ms, oldest first
  connLock,  \* who holds g_mbx_conn_mutex over more than one step
  config,    \* expansion_boards[]: the address of each board
  paused,    \* paused
  backoff,   \* per channel: is its slave, is its register in backoff
  edits, pauses  \* edits and scans made

queueVars == <<pq, nreq, inflight>>
connVars  == <<conn, lru, connLock>>
bounds    == <<edits, pauses>>
vars == <<pq, nreq, inflight, pc, loc, conn, lru, connLock, config, paused,
          backoff, edits, pauses>>

Claims == 1 .. Cardinality(Workers)
SlotSet == 1 .. Slots
Results == {"none", "ok", "exception", "timeout", "garbage", "busy", "invalid"}

Request == [chan: Channels, prio: Priorities, age: {0}, seq: Nat]
Connection == [chan: Channels \cup {NoChannel}, open: BOOLEAN,
               peer: Addresses \cup {NoAddress}, wire: Seq(Nat)]
\* ip: the board's address as read when the transaction began; at: where a
\* scan of the connections is; idle: the slots it found not in flight; got:
\* the request the received answer belongs to.
Locals == [req: Request \cup {NoReq}, ip: Addresses \cup {NoAddress},
           slot: 0 .. Slots, at: 1 .. Slots + 1, idle: SUBSET SlotSet,
           result: Results, got: Nat]

IsWrite(r) == r.prio = PrioWrite
IsClaimed(c) == \E i \in Claims : inflight[i] = c
Fresh == [req |-> NoReq, ip |-> NoAddress, slot |-> 0, at |-> 1, idle |-> {},
          result |-> "none", got |-> 0]

\* From the claim to its release, and while it may touch its connection.
Busy == {"check", "slot", "scan", "connect", "send", "receive", "finish"}
Using == {"connect", "send", "receive"}
Serving == {w \in Workers : pc[w] \in Busy}

Init ==
  /\ pq = <<>> /\ nreq = 0
  /\ inflight = [i \in Claims |-> NoChannel]
  /\ pc = [w \in Workers |-> "top"]
  /\ loc = [w \in Workers |-> Fresh]
  /\ conn = [s \in SlotSet |-> [chan |-> NoChannel, open |-> FALSE,
                                peer |-> NoAddress, wire |-> <<>>]]
  /\ lru = [i \in SlotSet |-> i]
  /\ connLock = NoWorker
  /\ config \in [Boards -> Addresses]
  /\ paused = FALSE
  /\ backoff = [c \in Channels |-> {}]
  /\ edits = 0 /\ pauses = 0

(***************************************************************************)
(* Callers, the command line and the configuration.                        *)
(***************************************************************************)

\* mbx_pq_insert: append, take the place of a less urgent request, or refuse.
Queue(c, p) ==
  LET r == [chan |-> c, prio |-> p, age |-> 0, seq |-> nreq] IN
  /\ nreq < MaxReqs
  /\ nreq' = nreq + 1
  /\ \/ HasRoom(pq) /\ pq' = Append(pq, r)
     \/ \E i \in DOMAIN pq : Yields(pq, i, r) /\ pq' = [pq EXCEPT ![i] = r]
     \/ Refuses(pq, r) /\ UNCHANGED pq
  /\ UNCHANGED <<inflight, pc, loc, connVars, config, paused, backoff, bounds>>

\* The guard of "mbx scan" pauses the workers for as long as it exists.
Pause ==
  /\ ~paused /\ pauses < MaxPauses
  /\ paused' = TRUE /\ pauses' = pauses + 1
  /\ UNCHANGED <<queueVars, pc, loc, connVars, config, backoff, edits>>

Unpause ==
  /\ paused /\ paused' = FALSE
  /\ UNCHANGED <<queueVars, pc, loc, connVars, config, backoff, bounds>>

\* expansion_board_edit, expansion_board_remove: no connection is closed.
EditBoard(b, ip) ==
  /\ edits < MaxEdits
  /\ config[b] # NoAddress /\ ip # config[b]
  /\ config' = [config EXCEPT ![b] = ip]
  /\ edits' = edits + 1
  /\ UNCHANGED <<queueVars, pc, loc, connVars, paused, backoff, pauses>>

(***************************************************************************)
(* A worker: the head of its loop.                                         *)
(***************************************************************************)
Goto(w, p) == pc' = [pc EXCEPT ![w] = p]

\* It looks at paused, and now and then for connections nobody answers on.
Top(w) ==
  /\ pc[w] = "top" /\ ~paused
  /\ \/ Goto(w, "take")
     \/ Reaps /\ Goto(w, "reap")
  /\ UNCHANGED <<queueVars, loc, connVars, config, paused, backoff, bounds>>

\* modbus_expansion_close_dead_connections, which gives up after 20 ms.
ReapLock(w) ==
  /\ pc[w] = "reap"
  /\ \/ /\ connLock = NoWorker /\ connLock' = w
        /\ Goto(w, "reaping")
        /\ loc' = [loc EXCEPT ![w] = [Fresh EXCEPT !.at = 1]]
     \/ /\ LockTimeouts /\ connLock # NoWorker
        /\ Goto(w, "take") /\ UNCHANGED <<connLock, loc>>
  /\ UNCHANGED <<queueVars, conn, lru, config, paused, backoff, bounds>>

\* Mutant: the claims are not looked at.
LooksIdleAlways(c) == TRUE
\* modbus_expansion_async_is_channel_inflight said no; when it cannot have
\* pq_mutex in 20 ms it says yes.
LooksIdle(c) == ~IsClaimed(c)
LooksBusy(c) == ~LooksIdle(c) \/ LockTimeouts

Closed(k) == [k EXCEPT !.open = FALSE, !.wire = <<>>]

\* A socket that has been open without an OK answer for MBX_DEAD_CONN_CLOSE_MS
\* is closed; which ones have been is left open.
ReapSlot(w) ==
  LET s == loc[w].at IN
  /\ pc[w] = "reaping" /\ s \in SlotSet
  /\ \/ UNCHANGED conn
     \/ /\ conn[s].open /\ LooksIdle(conn[s].chan)
        /\ conn' = [conn EXCEPT ![s] = Closed(@)]
  /\ loc' = [loc EXCEPT ![w].at = s + 1]
  /\ UNCHANGED <<queueVars, pc, lru, connLock, config, paused, backoff, bounds>>

ReapEnd(w) ==
  /\ pc[w] = "reaping" /\ loc[w].at = Slots + 1
  /\ connLock' = NoWorker
  /\ Goto(w, "take") /\ loc' = [loc EXCEPT ![w] = Fresh]
  /\ UNCHANGED <<queueVars, conn, lru, config, paused, backoff, bounds>>

\* Mutant: a claimed channel does not keep its requests in the queue.
AllQueued == DOMAIN pq
\* Where the requests are a worker may take: their channel nobody serves.
Takeable == {i \in DOMAIN pq : ~IsClaimed(pq[i].chan)}

\* The first free claim gets the channel; without one it goes unclaimed.
Claimed(c) ==
  IF NoChannel \in {inflight[i] : i \in Claims}
  THEN [inflight EXCEPT ![CHOOSE i \in Claims :
                            /\ inflight[i] = NoChannel
                            /\ \A j \in 1 .. i-1 : inflight[j] # NoChannel] = c]
  ELSE inflight

\* mbx_pq_dequeue: the best request of the channels nobody serves.
Take(w) ==
  /\ pc[w] = "take"
  /\ \E i \in Takeable :
       /\ \A j \in Takeable : ~Before(pq[j], pq[i])
       /\ \A j \in Takeable : j < i => Before(pq[i], pq[j])
       /\ pq' = RemoveBySwap(pq, i)
       /\ inflight' = Claimed(pq[i].chan)
       /\ loc' = [loc EXCEPT ![w] = [Fresh EXCEPT !.req = pq[i]]]
  /\ Goto(w, "check")
  /\ UNCHANGED <<nreq, connVars, config, paused, backoff, bounds>>

\* ... finds none, or waits 10 ms for pq_mutex in vain.
TakeNone(w) ==
  /\ pc[w] = "take"
  /\ Takeable = {} \/ LockTimeouts
  /\ Goto(w, "top")
  /\ UNCHANGED <<queueVars, loc, connVars, config, paused, backoff, bounds>>

(***************************************************************************)
(* A worker: one request.                                                  *)
(***************************************************************************)

\* Mutant: the claim is kept when a request is skipped.
KeepClaim(c) == inflight
\* mbx_inflight_clear takes back the first claim of the channel.
Cleared(c) ==
  IF IsClaimed(c)
  THEN [inflight EXCEPT ![CHOOSE i \in Claims :
                            /\ inflight[i] = c
                            /\ \A j \in 1 .. i-1 : inflight[j] # c] = NoChannel]
  ELSE inflight

\* After 50 ms without pq_mutex the claim stays.
Release(c) == \/ inflight' = Cleared(c)
              \/ Leaks /\ UNCHANGED inflight

\* While its slave or its register is in backoff a read is not sent; a write
\* always is (BUG-481).
Skip(w) ==
  LET r == loc[w].req IN
  /\ pc[w] = "check"
  /\ ~IsWrite(r) /\ backoff[r.chan] # {}
  /\ Release(r.chan)
  /\ Goto(w, "top") /\ loc' = [loc EXCEPT ![w] = Fresh]
  /\ UNCHANGED <<pq, nreq, connVars, config, paused, backoff, bounds>>

Result(w, res) ==
  /\ Goto(w, "finish")
  /\ loc' = [loc EXCEPT ![w].result = res]

\* The head of mbx_transact_inner reads where the board is.
Begin(w) ==
  LET ip == config[BoardOf[loc[w].req.chan]] IN
  /\ pc[w] = "check"
  /\ \/ ip = NoAddress /\ Result(w, "invalid")
     \/ /\ ip # NoAddress
        /\ Goto(w, "slot") /\ loc' = [loc EXCEPT ![w].ip = ip]
  /\ UNCHANGED <<queueVars, connVars, config, paused, backoff, bounds>>

FreeSlots == {s \in SlotSet : conn[s].chan = NoChannel}
FirstOf(S) == CHOOSE s \in S : \A t \in S : s <= t

\* mbx_get_or_evict_slot: the connection of the channel, or a free slot.
GetSlot(w) ==
  LET own == {s \in SlotSet : conn[s].chan = loc[w].req.chan}
      s == FirstOf(IF own # {} THEN own ELSE FreeSlots)
  IN
  /\ pc[w] = "slot" /\ connLock = NoWorker
  /\ own \cup FreeSlots # {}
  /\ loc' = [loc EXCEPT ![w].slot = s]
  /\ conn' = [conn EXCEPT ![s].chan = loc[w].req.chan]
  /\ Goto(w, "connect")
  /\ UNCHANGED <<queueVars, lru, connLock, config, paused, backoff, bounds>>

\* ... or, all slots taken, it looks for one that is not in flight, slot by
\* slot, with g_mbx_conn_mutex held and pq_mutex taken for each look.
BeginScan(w) ==
  /\ pc[w] = "slot" /\ connLock = NoWorker
  /\ \A s \in SlotSet : conn[s].chan \notin {NoChannel, loc[w].req.chan}
  /\ connLock' = w
  /\ Goto(w, "scan")
  /\ UNCHANGED <<queueVars, loc, conn, lru, config, paused, backoff, bounds>>

\* ... or waits 200 ms for g_mbx_conn_mutex in vain.
NoLock(w) ==
  /\ pc[w] = "slot" /\ LockTimeouts /\ connLock # NoWorker
  /\ Result(w, "busy")
  /\ UNCHANGED <<queueVars, connVars, config, paused, backoff, bounds>>

Scan(w) ==
  LET s == loc[w].at IN
  /\ pc[w] = "scan" /\ s \in SlotSet
  /\ \/ /\ LooksBusy(conn[s].chan)
        /\ loc' = [loc EXCEPT ![w].at = s + 1]
     \/ /\ LooksIdle(conn[s].chan)
        /\ loc' = [loc EXCEPT ![w].at = s + 1, ![w].idle = @ \cup {s}]
  /\ UNCHANGED <<queueVars, pc, connVars, config, paused, backoff, bounds>>

\* Of those it evicts the one whose last answer is oldest; none is BUS_BUSY.
Evict(w) ==
  /\ pc[w] = "scan" /\ loc[w].at = Slots + 1
  /\ connLock' = NoWorker
  /\ \/ /\ loc[w].idle = {}
        /\ Result(w, "busy") /\ UNCHANGED conn
     \/ \E i \in SlotSet :
          LET s == lru[i] IN
          /\ s \in loc[w].idle
          /\ \A j \in 1 .. i-1 : lru[j] \notin loc[w].idle
          /\ conn' = [conn EXCEPT ![s] = [Closed(@) EXCEPT
                                            !.chan = loc[w].req.chan]]
          /\ loc' = [loc EXCEPT ![w].slot = s]
          /\ Goto(w, "connect")
  /\ UNCHANGED <<queueVars, lru, config, paused, backoff, bounds>>

\* A closed socket is opened to the address read before; an open one is used
\* as it is.
Connect(w) ==
  LET s == loc[w].slot IN
  /\ pc[w] = "connect"
  /\ \/ /\ conn[s].open
        /\ Goto(w, "send") /\ UNCHANGED <<loc, conn>>
     \/ /\ ~conn[s].open
        /\ conn' = [conn EXCEPT ![s] = [@ EXCEPT !.open = TRUE, !.wire = <<>>,
                                                 !.peer = loc[w].ip]]
        /\ Goto(w, "send") /\ UNCHANGED loc
     \/ ~conn[s].open /\ Result(w, "timeout") /\ UNCHANGED conn
  /\ UNCHANGED <<queueVars, lru, connLock, config, paused, backoff, bounds>>

\* What has arrived is thrown away (BUG-469), then the request is written.
\* The board may answer it or not; an answer may be on its way for a while.
Send(w) ==
  LET s == loc[w].slot IN
  /\ pc[w] = "send"
  /\ \/ /\ conn[s].open
        /\ \E k \in 0 .. Len(conn[s].wire) :
             LET late == SubSeq(conn[s].wire, k + 1, Len(conn[s].wire)) IN
             \E wire \in {late, Append(late, loc[w].req.seq)} :
               conn' = [conn EXCEPT ![s].wire = wire]
        /\ Goto(w, "receive") /\ UNCHANGED loc
     \/ ~conn[s].open /\ Result(w, "timeout") /\ UNCHANGED conn
  /\ UNCHANGED <<queueVars, lru, connLock, config, paused, backoff, bounds>>

\* s has answered last: the slots behind it move up.
MovedToEnd(s) ==
  LET at == CHOOSE i \in SlotSet : lru[i] = s IN
  [i \in SlotSet |-> IF i < at THEN lru[i] ELSE IF i = Slots THEN s ELSE lru[i+1]]

\* An answer is read, whichever it is: its transaction id is not looked at.
Receive(w) ==
  LET s == loc[w].slot IN
  /\ pc[w] = "receive" /\ conn[s].wire # <<>>
  /\ \/ \E res \in {"ok", "exception"} :
          /\ Goto(w, "finish")
          /\ loc' = [loc EXCEPT ![w].result = res,
                                ![w].got = Head(conn[s].wire)]
          /\ conn' = [conn EXCEPT ![s].wire = Tail(@)]
          /\ lru' = MovedToEnd(s)
     \/ \E res \in {"garbage", "timeout"} :   \* wrong length; no PDU
          /\ Result(w, res)
          /\ conn' = [conn EXCEPT ![s] = Closed(@)]
          /\ lru' = IF res = "timeout" THEN MovedToEnd(s) ELSE lru
  /\ UNCHANGED <<queueVars, connLock, config, paused, backoff, bounds>>

\* Mutant: the socket stays open, as before BUG-469.
StillOpen(k) == k
\* What a transaction without an answer does to its connection.
GivenUp(k) == Closed(k)

\* The board did not answer in time, or closed the connection.
Timeout(w) ==
  /\ pc[w] = "receive"
  /\ conn' = [conn EXCEPT ![loc[w].slot] = GivenUp(@)]
  /\ Result(w, "timeout")
  /\ UNCHANGED <<queueVars, lru, connLock, config, paused, backoff, bounds>>

\* Backoff of the slave after a timeout, of the register after any failed
\* read; an answer ends the former, a good read the latter.
BackoffAfter(r, res, b) ==
  LET slave == CASE res = "timeout" -> {"slave"}
                 [] res = "ok"      -> {}
                 [] OTHER           -> b \cap {"slave"}
      register == CASE IsWrite(r)   -> b \cap {"register"}
                    [] res = "ok"   -> {}
                    [] OTHER        -> {"register"}
  IN slave \cup register

\* The result is noted and the claim released.
Finish(w) ==
  LET r == loc[w].req IN
  /\ pc[w] = "finish"
  /\ backoff' = [backoff EXCEPT ![r.chan] = BackoffAfter(r, loc[w].result, @)]
  /\ Release(r.chan)
  /\ Goto(w, "top") /\ loc' = [loc EXCEPT ![w] = Fresh]
  /\ UNCHANGED <<pq, nreq, connVars, config, paused, bounds>>

(***************************************************************************)
(* The boards.                                                             *)
(***************************************************************************)

\* A board restarts or closes an idle connection.
Drop(s) ==
  /\ conn[s].open
  /\ conn' = [conn EXCEPT ![s] = Closed(@)]
  /\ UNCHANGED <<queueVars, pc, loc, lru, connLock, config, paused, backoff,
                 bounds>>

Reap(w) == ReapLock(w) \/ ReapSlot(w) \/ ReapEnd(w)
FindSlot(w) == GetSlot(w) \/ BeginScan(w) \/ NoLock(w) \/ Scan(w) \/ Evict(w)
Transact(w) == Connect(w) \/ Send(w) \/ Receive(w) \/ Timeout(w)
Worker(w) ==
  \/ Top(w) \/ Reap(w) \/ Take(w) \/ TakeNone(w)
  \/ Skip(w) \/ Begin(w) \/ FindSlot(w) \/ Transact(w) \/ Finish(w)

Next ==
  \/ \E c \in Channels, p \in Classes : Queue(c, p)
  \/ Pause \/ Unpause
  \/ \E b \in Boards, ip \in Addresses \cup {NoAddress} : EditBoard(b, ip)
  \/ \E w \in Workers : Worker(w)
  \/ \E s \in SlotSet : Drop(s)

\* The scheduler runs every worker, and "mbx scan" ends.
Fairness == /\ \A w \in Workers : WF_vars(Worker(w))
            /\ WF_vars(Unpause)

Spec == Init /\ [][Next]_vars /\ Fairness

-----------------------------------------------------------------------------
(***************************************************************************)
(* Properties.                                                             *)
(***************************************************************************)
TypeOK ==
  /\ pq \in Seq(Request) /\ Len(pq) <= QueueLimit
  /\ nreq \in 0 .. MaxReqs
  /\ inflight \in [Claims -> Channels \cup {NoChannel}]
  /\ pc \in [Workers -> Busy \cup {"top", "take", "reap", "reaping"}]
  /\ loc \in [Workers -> Locals]
  /\ conn \in [SlotSet -> Connection]
  /\ lru \in [SlotSet -> SlotSet]
  /\ connLock \in Workers \cup {NoWorker}
  /\ config \in [Boards -> Addresses \cup {NoAddress}]
  /\ paused \in BOOLEAN
  /\ backoff \in [Channels -> SUBSET {"slave", "register"}]
  /\ edits \in 0 .. MaxEdits /\ pauses \in 0 .. MaxPauses

\* Two workers never serve one channel at a time (BUG-417): a channel is a
\* serial bus.
ChannelSerial ==
  \A v, w \in Serving : v # w => loc[v].req.chan # loc[w].req.chan

\* The claims are those of the workers that serve a request, one each: none
\* is left claimed across loop iterations (mbx_inflight_clear), and a free
\* one is always there for a worker that takes a request (mbx_pq_dequeue).
ClaimsMatch ==
  \A c \in Channels :
    Cardinality({i \in Claims : inflight[i] = c})
      = Cardinality({w \in Serving : loc[w].req.chan = c})

\* While a worker uses a connection only it and the board change it: no other
\* worker evicts it, closes it or takes its slot (BUG-419).
SocketUntouched ==
  [][\A v, w \in Workers :
       /\ v # w /\ pc[w] \in Using
       /\ Reap(v) \/ FindSlot(v) \/ Transact(v)
       => conn'[loc[w].slot] = conn[loc[w].slot]]_vars

\* The answer a worker takes is the answer to its own request, although the
\* transaction id is not compared: whatever might still come was cut off with
\* the connection (BUG-469).
AnswersMatch ==
  \A w \in Workers :
    pc[w] = "finish" /\ loc[w].result \in {"ok", "exception"}
      => loc[w].got = loc[w].req.seq

\* The writes to a channel go on its wire in the order they were queued in,
\* whichever workers carry them and although reads overtake reads.
OlderWrite(r, w) ==
  r.chan = loc[w].req.chan /\ IsWrite(r) /\ r.seq < loc[w].req.seq
WritesInOrder ==
  \A w \in Serving : IsWrite(loc[w].req) =>
    /\ \A i \in DOMAIN pq : ~OlderWrite(pq[i], w)
    /\ \A v \in Serving : ~OlderWrite(loc[v].req, w)

\* Every request is served or skipped in the end, the workers are never all
\* stuck on claims or on the connection pool (BUG-419, BUG-478).
QueueDrains == []<>(pq = <<>> /\ Serving = {})

\* BUS_BUSY for want of a slot only when all are in flight at that time
\* (mbx_get_or_evict_slot: "only when every slot is both full AND actively in
\* flight right now").
BusyOnlyWhenFull ==
  [][\A w \in Workers :
       Evict(w) /\ pc'[w] = "finish" =>
         \A s \in SlotSet : IsClaimed(conn[s].chan)]_vars

\* A request goes to the address its transaction read from the configuration
\* (modbus_expansion_close: no old socket stays open to a wrong destination).
SentToBoard ==
  [][\A w \in Workers :
       Send(w) /\ pc'[w] = "receive" => conn[loc[w].slot].peer = loc[w].ip]_vars

\* While paused a worker finishes what it has and starts nothing
\* (MbxAsyncPauseGuard).
PausedStartsNothing == [][\A w \in Workers : Take(w) => ~paused]_vars
=============================================================================
