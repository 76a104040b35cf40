----------------------------- MODULE SseServer -----------------------------
(***************************************************************************)
(* Server-sent events (sse_events.cpp).  One task accepts connections; a   *)
(* client it takes in gets a slot of the register sse_clients, and the     *)
(* worker task of the slot sends it what changes.  The number of clients   *)
(* is counted apart from the register, by the workers, without a lock:     *)
(* adding one is to read the counter and to write it.  Clients can be sent *)
(* away from the console and by the REST API, each a task of its own.      *)
(*                                                                         *)
(* A request is what sse_parse_query reads of it: the topics subscribed to *)
(* and the registers listed.  Sockets, who may come in (access control,    *)
(* users, tokens) and memory show in what may fail.  A heartbeat carries   *)
(* nothing that changes, and when it is due is left open.                  *)
(***************************************************************************)
EXTENDS Integers, FiniteSets

CONSTANTS
  MaxClients,   \* SSE_MAX_CLIENTS
  Limits,       \* what the configuration may hold as sse_max_clients
  Counters, Timers,  \* what can be watched, by topic
  Registers,    \* the registers; of these
  First,        \*   HR 0-15 and
  Statistics,   \*   IR 256-293
  External,     \* entries of the caches of external registers
  Queries,      \* the requests
  Values, NoEntry, \* what a watched thing may be; an unused entry of a cache
  None

SseAssumption ==
  /\ MaxClients \in Nat \ {0} /\ Limits \subseteq Nat
  /\ First \subseteq Registers /\ Statistics \subseteq Registers
  /\ \A q \in Queries : q.listed \subseteq Registers \cup External

Slots == 0..MaxClients-1
Items == Counters \cup Timers \cup Registers \cup External

VARIABLES
  count,     \* sse_active_clients
  slots,     \* sse_clients: active, disconnect_requested
  workers,   \* the slots that have a worker
  queue,     \* what waits for the worker: a set of items, or None
  worker,    \* where it is, the counter as it read it, what it watches, what
             \* is left of this pass, the value it read
  prev,      \* the values it compares with
  acceptor,  \* where the accepting task is, with which slot and items
  stored,    \* network.http.sse_max_clients
  asking,    \* slots found active by a task that sends a client away
  cell,      \* the values themselves
  told,      \* history: what the client knows, pairs of an item and a value
  highest    \* history: the highest limit there has been

vars == <<count, slots, workers, queue, worker, prev, acceptor, stored, asking, cell, told, highest>>

Idle == [at |-> "idle", reg |-> 0, watched |-> {}, todo |-> {}, val |-> None]
Listening == [at |-> "listen", slot |-> 0, watched |-> {}]
NoSlot == [active |-> FALSE, leave |-> FALSE]

\* sse_cfg_max_clients
Limit == IF stored \in 1..MaxClients THEN stored ELSE MaxClients

\* sse_parse_query.  Nothing to subscribe to means all, and all without a list
\* means to watch everything but the statistics.
Topics == {"counters", "timers", "registers", "system"}
Watched(q) ==
  LET all == q.subscribe \cap Topics = {} \/ "all" \in q.subscribe
      topics == IF all THEN Topics ELSE q.subscribe
      regs == CASE q.listed # {} -> q.listed
                [] q.listed = {} /\ all -> (Registers \ Statistics) \cup External
                [] OTHER -> First
  IN (IF "counters" \in topics THEN Counters ELSE {})
     \cup (IF "timers" \in topics THEN Timers ELSE {})
     \cup (IF "registers" \in topics THEN regs ELSE {})

\* sse_init and sse_start: a worker may fail to be made.
Init ==
  /\ stored \in Limits
  /\ workers \in SUBSET {s \in Slots : s < Limit}
  /\ count = 0 /\ slots = [s \in Slots |-> NoSlot]
  /\ queue = [s \in Slots |-> None] /\ worker = [s \in Slots |-> Idle]
  /\ prev = [s \in Slots |-> [i \in Items |-> None]] /\ told = [s \in Slots |-> {}]
  /\ acceptor = Listening /\ asking = {}
  /\ cell \in [Items -> Values] /\ highest = Limit

-----------------------------------------------------------------------------
(* sse_accept_task.  What it turns away leaves no trace.                    *)

\* Mutant: as many as there are slots.
FullBySlots == FALSE
Full == count >= Limit

\* Up to the check of the limit.
Admit ==
  /\ acceptor.at = "listen" /\ ~Full
  /\ \E q \in Queries : acceptor' = [acceptor EXCEPT !.at = "admitted", !.watched = Watched(q)]
  /\ UNCHANGED <<count, slots, workers, queue, worker, prev, stored, asking, cell, told, highest>>

\* sse_registry_add takes the first free slot.  A worker that is missing is
\* made, or the client is turned away.
FreeSlots == {s \in Slots : ~slots[s].active}
Register ==
  /\ acceptor.at = "admitted"
  /\ \/ FreeSlots = {} /\ acceptor' = Listening /\ UNCHANGED <<slots, workers>>
     \/ \E s \in FreeSlots :
          /\ \A r \in FreeSlots : s <= r
          /\ \/ s \notin workers /\ acceptor' = Listening /\ UNCHANGED workers
                /\ slots' = [slots EXCEPT ![s] = NoSlot]
             \/ /\ workers' = workers \cup {s}
                /\ slots' = [slots EXCEPT ![s] = [active |-> TRUE, leave |-> FALSE]]
                /\ acceptor' = [acceptor EXCEPT !.at = "registered", !.slot = s]
  /\ UNCHANGED <<count, queue, worker, prev, stored, asking, cell, told, highest>>

\* The headers are sent or not.
Headers ==
  /\ acceptor.at = "registered"
  /\ \/ acceptor' = [acceptor EXCEPT !.at = "accepted"] /\ UNCHANGED slots
     \/ acceptor' = Listening /\ slots' = [slots EXCEPT ![acceptor.slot] = NoSlot]
  /\ UNCHANGED <<count, workers, queue, worker, prev, stored, asking, cell, told, highest>>

\* sse_slot_dispatch: a full queue turns the client away.
Dispatch ==
  /\ acceptor.at = "accepted"
  /\ LET s == acceptor.slot
         taken == queue[s] = None
     IN /\ queue' = IF taken THEN [queue EXCEPT ![s] = acceptor.watched] ELSE queue
        /\ slots' = IF taken THEN slots ELSE [slots EXCEPT ![s] = NoSlot]
        /\ acceptor' = IF taken THEN [acceptor EXCEPT !.at = "cooldown"] ELSE Listening
  /\ UNCHANGED <<count, workers, worker, prev, stored, asking, cell, told, highest>>

\* The half second after a client: the worker has counted it by then.
Uncounted(s) == queue[s] # None \/ worker[s].at \in {"load", "store"}
CoolDown ==
  /\ acceptor.at = "cooldown" /\ ~Uncounted(acceptor.slot)
  /\ acceptor' = Listening
  /\ UNCHANGED <<count, slots, workers, queue, worker, prev, stored, asking, cell, told, highest>>

-----------------------------------------------------------------------------
(* sse_slot_worker and sse_client_session.                                  *)

Goes(s, at) == worker' = [worker EXCEPT ![s].at = at]

Take(s) ==
  /\ worker[s].at = "idle" /\ s \in workers /\ queue[s] # None
  /\ worker' = [worker EXCEPT ![s].at = "load", ![s].watched = queue[s]]
  /\ queue' = [queue EXCEPT ![s] = None]
  /\ UNCHANGED <<count, slots, prev, told>>

\* sse_active_clients++ and, at the end, sse_active_clients--.
Load(s) ==
  /\ \/ worker[s].at = "load" /\ worker' = [worker EXCEPT ![s].at = "store", ![s].reg = count]
     \/ worker[s].at = "down" /\ worker' = [worker EXCEPT ![s].at = "downstore", ![s].reg = count]
  /\ UNCHANGED <<count, slots, queue, prev, told>>
Store(s) ==
  /\ \/ worker[s].at = "store" /\ count' = worker[s].reg + 1
        /\ worker' = [worker EXCEPT ![s].at = "hello", ![s].reg = 0]
     \/ worker[s].at = "downstore" /\ count' = worker[s].reg - 1
        /\ worker' = [worker EXCEPT ![s] = Idle]
  /\ UNCHANGED <<slots, queue, prev, told>>

\* "connected" is sent before the values are taken down to compare with.
Hello(s) ==
  /\ worker[s].at = "hello"
  /\ Goes(s, "snap") \/ Goes(s, "remove")
  /\ UNCHANGED <<count, slots, queue, prev, told>>

\* Of the caches nothing counts as sent.  The client can fetch the values.
Snapshot(s) ==
  /\ worker[s].at = "snap"
  /\ \/ /\ Goes(s, "wait")
        /\ prev' = [prev EXCEPT ![s] =
                      [i \in Items |-> IF i \in worker[s].watched \ External THEN cell[i] ELSE None]]
        /\ told' = [told EXCEPT ![s] = {<<i, cell[i]>> : i \in worker[s].watched \ External}]
     \/ Goes(s, "remove") /\ UNCHANGED <<prev, told>>
  /\ UNCHANGED <<count, slots, queue>>

\* The pause, and whether the client is to go.
Wake(s) ==
  /\ worker[s].at = "wait"
  /\ \/ slots[s].leave /\ Goes(s, "remove")
     \/ ~slots[s].leave
        /\ worker' = [worker EXCEPT ![s].at = "scan", ![s].todo = worker[s].watched]
  /\ UNCHANGED <<count, slots, queue, prev, told>>

\* One thing is looked at, in some order; an unused entry is skipped.
Look(s) ==
  /\ worker[s].at = "scan"
  /\ \E i \in worker[s].todo :
       IF cell[i] \in {prev[s][i], NoEntry}
       THEN worker' = [worker EXCEPT ![s].todo = @ \ {i}]
       ELSE worker' = [worker EXCEPT ![s].at = "send", ![s].val = <<i, cell[i]>>]
  /\ UNCHANGED <<count, slots, queue, prev, told>>

\* Mutant: the value is read again after it has been sent.
RememberAgain(s, i, v) == prev' = [prev EXCEPT ![s][i] = cell[i]]
Remember(s, i, v) == prev' = [prev EXCEPT ![s][i] = v]

\* The value as it was read is sent, and is what the next is compared with.
Send(s) ==
  /\ worker[s].at = "send"
  /\ \/ LET i == worker[s].val[1]
            v == worker[s].val[2]
        IN /\ told' = [told EXCEPT ![s] = {p \in @ : p[1] # i} \cup {<<i, v>>}]
           /\ Remember(s, i, v)
           /\ worker' = [worker EXCEPT ![s].at = "scan", ![s].todo = @ \ {i}, ![s].val = None]
     \/ Goes(s, "remove") /\ UNCHANGED <<prev, told>>
  /\ UNCHANGED <<count, slots, queue>>

\* The end of a pass, with or without a heartbeat.
PassEnds(s) ==
  /\ worker[s].at = "scan" /\ worker[s].todo = {}
  /\ Goes(s, "wait") \/ Goes(s, "remove")
  /\ UNCHANGED <<count, slots, queue, prev, told>>

\* done: the slot is free before the client is no longer counted.
Remove(s) ==
  /\ worker[s].at = "remove"
  /\ slots' = [slots EXCEPT ![s] = NoSlot]
  /\ worker' = [worker EXCEPT ![s] = [Idle EXCEPT !.at = "left"]]
  /\ prev' = [prev EXCEPT ![s] = [i \in Items |-> None]]
  /\ told' = [told EXCEPT ![s] = {}]
  /\ UNCHANGED <<count, queue>>
Left(s) ==
  /\ worker[s].at = "left"
  /\ Goes(s, IF count > 0 THEN "down" ELSE "idle")
  /\ UNCHANGED <<count, slots, queue, prev, told>>

Work(s) ==
  /\ \/ Take(s) \/ Load(s) \/ Store(s) \/ Hello(s) \/ Snapshot(s) \/ Wake(s)
     \/ Look(s) \/ Send(s) \/ PassEnds(s) \/ Remove(s) \/ Left(s)
  /\ UNCHANGED <<workers, acceptor, stored, asking, cell, highest>>

-----------------------------------------------------------------------------
\* sse_disconnect_client, sse_disconnect_all: the slot is found active and then
\* marked, by which time it may be free or another client's.
Ask(s) ==
  /\ slots[s].active /\ asking' = asking \cup {s}
  /\ UNCHANGED <<count, slots, workers, queue, worker, prev, acceptor, stored, cell, told, highest>>
Asked(s) ==
  /\ s \in asking /\ asking' = asking \ {s}
  /\ slots' = [slots EXCEPT ![s].leave = TRUE]
  /\ UNCHANGED <<count, workers, queue, worker, prev, acceptor, stored, cell, told, highest>>

\* The configuration changes, and so do the values.
Configure ==
  /\ stored' \in Limits
  /\ highest' = IF Limit' > highest THEN Limit' ELSE highest
  /\ UNCHANGED <<count, slots, workers, queue, worker, prev, acceptor, asking, cell, told>>
Change ==
  /\ \E i \in Items, v \in Values : cell' = [cell EXCEPT ![i] = v]
  /\ UNCHANGED <<count, slots, workers, queue, worker, prev, acceptor, stored, asking, told, highest>>

Next == \/ Admit \/ Register \/ Headers \/ Dispatch \/ CoolDown \/ Configure \/ Change
        \/ \E s \in Slots : Work(s) \/ Ask(s) \/ Asked(s)

Spec == Init /\ [][Next]_vars
\* A worker goes on as long as it can: it sleeps between passes, a send has a
\* time limit, and nothing it takes is held by others.
FairSpec == Spec /\ \A s \in Slots : WF_vars(Work(s))

-----------------------------------------------------------------------------
Ats == {"idle", "load", "store", "hello", "snap", "wait", "scan", "send", "remove",
        "left", "down", "downstore"}
TypeOK ==
  /\ count \in Int /\ stored \in Limits /\ workers \subseteq Slots /\ asking \subseteq Slots
  /\ slots \in [Slots -> [active : BOOLEAN, leave : BOOLEAN]]
  /\ queue \in [Slots -> (SUBSET Items) \cup {None}]
  /\ worker \in [Slots -> [at : Ats, reg : Int, watched : SUBSET Items, todo : SUBSET Items,
                           val : {None} \cup Items \X Values]]
  /\ acceptor \in [at : {"listen", "admitted", "registered", "accepted", "cooldown"},
                   slot : Slots, watched : SUBSET Items]
  /\ cell \in [Items -> Values]

\* With no client left the accepting task lets one in, as long as the limit has
\* not been lowered: the counter may have lost a change of two workers that read
\* it at the same time, but never so many that it stands at the limit while
\* nobody is connected.  After a lower limit it may: see RoomAlways.
NobodyThere == (\A s \in Slots : worker[s].at = "idle" /\ queue[s] = None) /\ acceptor.at = "listen"
RoomWhenIdle == NobodyThere /\ Limit = highest => count < Limit

\* The same under every limit: with two workers that count down at the same time
\* one client too many stays counted, and a limit lowered to that shuts all out.
RoomAlways == NobodyThere => count < Limit

\* A value that has changed and stays is sent in the end, to every client that
\* watches it and stays: none is lost between the comparison, the sending and
\* the note of what was sent.
Streaming(s, i) == worker[s].at \in {"wait", "scan", "send"} /\ i \in worker[s].watched
ChangesArrive ==
  \A s \in Slots, i \in Items : \A v \in Values \ {NoEntry} :
    <>[](Streaming(s, i) /\ cell[i] = v) => <>[](<<i, v>> \in told[s])
=============================================================================
